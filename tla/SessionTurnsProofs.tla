------------------------- MODULE SessionTurnsProofs -------------------------
(***************************************************************************)
(* The session machine implements TurnLifecycle, for every number of turns *)
(* and sessions, every window and every order of inputs.  Each step is     *)
(* first classified by what it does to the turns (TurnEffect), and each    *)
(* effect is then matched with an action of the abstract specification.    *)
(* The second half follows the words of a turn: they are submitted once,   *)
(* kept until answered, and no reply plays out before the agent ended it.  *)
(* The last part is about the ears: the two detectors of Detection, as the *)
(* machine's state decides which of them hears a frame.                    *)
(***************************************************************************)
EXTENDS SessionTurns, Detection, SessionProofs

USE DEF NoTurn, Turn

----------------------------------------------------------------------------
(* What is in a list of outputs. *)

LEMMA OutSetConcat ==
  ASSUME NEW S, NEW a \in Seq(S), NEW b \in Seq(S)
  PROVE  OutSet(a \o b) = OutSet(a) \cup OutSet(b)
<1>1. ASSUME NEW x \in OutSet(a \o b)  PROVE x \in OutSet(a) \cup OutSet(b)
  <2>1. PICK i \in 1..Len(a \o b) : x = (a \o b)[i]
    BY DEF OutSet
  <2>2. CASE i <= Len(a)
    BY <2>1, <2>2 DEF OutSet
  <2>3. CASE i > Len(a)
    <3>1. i - Len(a) \in 1..Len(b) /\ x = b[i - Len(a)]
      BY <2>1, <2>3
    <3>. QED  BY <3>1 DEF OutSet
  <2>. QED  BY <2>2, <2>3
<1>2. ASSUME NEW x \in OutSet(a)  PROVE x \in OutSet(a \o b)
  <2>1. PICK i \in 1..Len(a) : x = a[i]
    BY DEF OutSet
  <2>2. i \in 1..Len(a \o b) /\ (a \o b)[i] = x
    BY <2>1
  <2>. QED  BY <2>2 DEF OutSet
<1>3. ASSUME NEW x \in OutSet(b)  PROVE x \in OutSet(a \o b)
  <2>1. PICK i \in 1..Len(b) : x = b[i]
    BY DEF OutSet
  <2>2. i + Len(a) \in 1..Len(a \o b) /\ (a \o b)[i + Len(a)] = x
    BY <2>1
  <2>. QED  BY <2>2 DEF OutSet
<1>. QED  BY <1>1, <1>2, <1>3

LEMMA OutSetSmall ==
  /\ OutSet(<<>>) = {}
  /\ \A x : OutSet(<<x>>) = {x}
  /\ \A x, y : OutSet(<<x, y>>) = {x, y}
<1>1. OutSet(<<>>) = {}
  BY DEF OutSet
<1>2. ASSUME NEW x  PROVE OutSet(<<x>>) = {x}
  BY DEF OutSet
<1>3. ASSUME NEW x, NEW y  PROVE OutSet(<<x, y>>) = {x, y}
  BY DEF OutSet
<1>. QED  BY <1>1, <1>2, <1>3

(* The turns a list of outputs cancels: EmitState, which handle appends, never
   adds to them. *)
Cancelled(outs) == {t \in Turn : CancelSynthesis(t) \in OutSet(outs)}

LEMMA ReturnCancels ==
  ASSUME NEW outs \in Seq(Outputs), state' \in State, Return(outs)
  PROVE  Cancelled(out') = Cancelled(outs)
<1>1. \A t \in Turn : CancelSynthesis(t) # EmitState(state')
  BY DEF CancelSynthesis, EmitState
<1>2. CASE state' # state
  <2>1. <<EmitState(state')>> \in Seq(Outputs)
    BY DEF Outputs, EmitState
  <2>2. OutSet(out') = OutSet(outs) \cup {EmitState(state')}
    <3>. DEFINE emitted == <<EmitState(state')>>
    <3>1. out' = outs \o emitted
      BY <1>2 DEF Return
    <3>2. OutSet(emitted) = {EmitState(state')}
      BY OutSetSmall
    <3>3. emitted \in Seq(Outputs)
      BY <2>1
    <3>. HIDE DEF emitted
    <3>4. OutSet(outs \o emitted) = OutSet(outs) \cup OutSet(emitted)
      BY <3>3, OutSetConcat
    <3>. QED  BY <3>1, <3>2, <3>4
  <2>. QED  BY <1>1, <2>2 DEF Cancelled
<1>3. CASE state' = state
  <2>1. OutSet(out') = OutSet(outs)
    BY <1>3, NoOutputs, OutSetConcat, OutSetSmall DEF Return
  <2>. QED  BY <2>1 DEF Cancelled
<1>. QED  BY <1>2, <1>3

LEMMA CancelledConcat ==
  ASSUME NEW a \in Seq(Outputs), NEW b \in Seq(Outputs)
  PROVE  /\ a \o b \in Seq(Outputs)
         /\ Cancelled(a \o b) = Cancelled(a) \cup Cancelled(b)
<1>1. OutSet(a \o b) = OutSet(a) \cup OutSet(b)
  BY OutSetConcat
<1>. QED
  BY <1>1 DEF Cancelled

LEMMA CancelledSmall ==
  /\ Cancelled(<<>>) = {}
  /\ \A x \in Outputs : x.kind # "CancelSynthesis" => Cancelled(<<x>>) = {}
  /\ Cancelled(CancelIfAny(NoTurn)) = {}
  /\ \A t \in Turn : Cancelled(CancelIfAny(t)) = {t}
<1>1. Cancelled(<<>>) = {}
  BY OutSetSmall DEF Cancelled
<1>2. ASSUME NEW x \in Outputs, x.kind # "CancelSynthesis"
      PROVE  Cancelled(<<x>>) = {}
  <2>1. OutSet(<<x>>) = {x}
    BY OutSetSmall
  <2>2. \A t \in Turn : CancelSynthesis(t).kind = "CancelSynthesis"
    BY DEF CancelSynthesis
  <2>. QED  BY <1>2, <2>1, <2>2 DEF Cancelled
<1>3. Cancelled(CancelIfAny(NoTurn)) = {}
  BY <1>1 DEF CancelIfAny
<1>4. ASSUME NEW t \in Turn
      PROVE  Cancelled(CancelIfAny(t)) = {t}
  <2>1. OutSet(<<CancelSynthesis(t)>>) = {CancelSynthesis(t)}
    BY OutSetSmall
  <2>2. \A u : CancelSynthesis(u).turn = u
    BY DEF CancelSynthesis
  <2>3. \A u : CancelSynthesis(u) = CancelSynthesis(t) => u = t
    BY <2>2
  <2>4. t # NoTurn
    BY BoundsAssumption
  <2>. QED  BY <2>1, <2>3, <2>4 DEF Cancelled, CancelIfAny
<1>. QED  BY <1>1, <1>2, <1>3, <1>4

(* The lists the handlers return. *)
LEMMA SilentLists ==
  /\ \A o \in {StartCapture, StopCapture, ShowPartial} :
       <<o>> \in Seq(Outputs) /\ Cancelled(<<o>>) = {}
  /\ \A t \in Turn : <<ResumeSpeaking(t)>> \in Seq(Outputs) /\ Cancelled(<<ResumeSpeaking(t)>>) = {}
  /\ \A t \in Turn, text \in Text :
       /\ <<SubmitUtterance(t, text)>> \in Seq(Outputs)
       /\ Cancelled(<<SubmitUtterance(t, text)>>) = {}
  /\ <<CancelPlayback, FlushOutputBuffer>> \in Seq(Outputs)
  /\ Cancelled(<<CancelPlayback, FlushOutputBuffer>>) = {}
<1>1. /\ \A o \in {StartCapture, StopCapture, ShowPartial, CancelPlayback, FlushOutputBuffer} :
           o.kind # "CancelSynthesis"
      /\ \A t \in Turn : ResumeSpeaking(t).kind # "CancelSynthesis"
      /\ \A t \in Turn, text \in Text : SubmitUtterance(t, text).kind # "CancelSynthesis"
  BY DEF StartCapture, StopCapture, ShowPartial, CancelPlayback, FlushOutputBuffer, Plain,
         ResumeSpeaking, SubmitUtterance
<1>2. /\ \A o \in {StartCapture, StopCapture, ShowPartial, CancelPlayback, FlushOutputBuffer} :
           o \in Outputs
      /\ \A t \in Turn : ResumeSpeaking(t) \in Outputs
      /\ \A t \in Turn, text \in Text : SubmitUtterance(t, text) \in Outputs
  BY OutputKinds
<1>4. \A o \in Outputs : <<o>> \in Seq(Outputs)
  OBVIOUS
<1>5. \A t : CancelSynthesis(t).kind = "CancelSynthesis"
  BY DEF CancelSynthesis
<1>6. Cancelled(<<CancelPlayback, FlushOutputBuffer>>) = {}
  <2>1. OutSet(<<CancelPlayback, FlushOutputBuffer>>) = {CancelPlayback, FlushOutputBuffer}
    BY OutSetSmall
  <2>. QED  BY <1>1, <1>5, <2>1 DEF Cancelled
<1>7. <<CancelPlayback, FlushOutputBuffer>> \in Seq(Outputs)
  BY <1>2
<1>. QED
  BY <1>1, <1>2, <1>4, <1>6, <1>7, CancelledSmall

----------------------------------------------------------------------------
(* What a step of the machine does to the turns. *)

KeepEffect ==
  /\ UNCHANGED turnVars
  /\ state = "Interrupting" <=> state' = "Interrupting"
  /\ state = "AgentSpeaking" <=> state' = "AgentSpeaking"

BeginEffect ==
  /\ BeginUserTurn
  /\ pending_cancel_turn' = pending_cancel_turn
  /\ state \in {"Listening", "Finalizing", "Submitting", "AwaitingAgent", "AgentSpeaking"}
  /\ state' = "UserSpeaking"
  /\ Cancelled(out') = IF state = "AgentSpeaking" THEN {current_turn} ELSE {}

InterruptEffect ==
  /\ BeginUserTurn
  /\ pending_cancel_turn' = current_turn
  /\ state = "AgentSpeaking"
  /\ state' = "Interrupting"

ConfirmEffect ==
  /\ UNCHANGED <<current_turn, turn_counter>>
  /\ pending_cancel_turn' = NoTurn
  /\ state = "Interrupting"
  /\ state' \in {"UserSpeaking", "Submitting"}
  /\ Cancelled(out') = {pending_cancel_turn}

RetractEffect ==
  /\ current_turn' = pending_cancel_turn
  /\ pending_cancel_turn' = NoTurn
  /\ turn_counter' = turn_counter
  /\ state = "Interrupting"
  /\ state' = "AgentSpeaking"
  /\ Cancelled(out') = {}

SpeakEffect ==
  /\ UNCHANGED turnVars
  /\ state = "AwaitingAgent"
  /\ state' = "AgentSpeaking"

(* A turn is over and the machine listens again: Finish or Drop. *)
ReleaseEffect ==
  /\ current_turn' = NoTurn
  /\ UNCHANGED <<pending_cancel_turn, turn_counter>>
  /\ state \in {"Finalizing", "Submitting", "AwaitingAgent", "AgentSpeaking"}
  /\ state' = "Listening"
  /\ Cancelled(out') = {}

EndEffect ==
  /\ current_turn' = NoTurn
  /\ pending_cancel_turn' = NoTurn
  /\ turn_counter' = turn_counter
  /\ state # "Idle"
  /\ state' = "Idle"
  /\ Cancelled(out') = IF state \in {"AgentSpeaking", "Interrupting"} THEN {VoiceTurn} ELSE {}

TurnEffect ==
  \/ KeepEffect \/ BeginEffect \/ InterruptEffect \/ ConfirmEffect
  \/ RetractEffect \/ SpeakEffect \/ ReleaseEffect \/ EndEffect

(* What the outputs of a call cancel, from the list the handler composed. *)
LEMMA PlainReturn ==
  ASSUME state' \in State, Return(<<>>)
  PROVE  Cancelled(out') = {}
BY NoOutputs, CancelledSmall, ReturnCancels

LEMMA EndSessionEffect == ASSUME TurnsOK, EndSession, state # "Idle" PROVE EndEffect
<1>. USE States DEF TurnsOK
<1>. DEFINE silence == IF state \in {"AgentSpeaking", "Interrupting"}
                       THEN <<CancelPlayback, FlushOutputBuffer>> \o CancelIfAny(VoiceTurn)
                       ELSE <<>>
<1>1. state \in {"AgentSpeaking", "Interrupting"} => VoiceTurn \in Turn
  BY DEF VoiceTurn, TurnStructure
<1>3. /\ silence \in Seq(Outputs)
      /\ Cancelled(silence) = IF state \in {"AgentSpeaking", "Interrupting"}
                              THEN {VoiceTurn} ELSE {}
  <2>1. CASE state \in {"AgentSpeaking", "Interrupting"}
    <3>. DEFINE hushed == <<CancelPlayback, FlushOutputBuffer>>
                cancel == CancelIfAny(VoiceTurn)
    <3>1. cancel \in Seq(Outputs) /\ Cancelled(cancel) = {VoiceTurn}
      BY <1>1, <2>1, CancelsAreOutputs, CancelledSmall
    <3>2. hushed \in Seq(Outputs) /\ Cancelled(hushed) = {}
      BY SilentLists
    <3>3. silence = hushed \o cancel
      BY <2>1
    <3>. HIDE DEF hushed, cancel, silence
    <3>4. hushed \o cancel \in Seq(Outputs) /\ Cancelled(hushed \o cancel) = {VoiceTurn}
      BY <3>1, <3>2, CancelledConcat
    <3>. QED  BY <2>1, <3>3, <3>4
  <2>2. CASE state \notin {"AgentSpeaking", "Interrupting"}
    BY <2>2, NoOutputs, CancelledSmall
  <2>. QED  BY <2>1, <2>2
<1>4. Return(silence \o <<StopCapture>>) /\ state' = "Idle"
  BY DEF EndSession, EndSessionCancelling
<1>. HIDE DEF silence
<1>5. /\ silence \o <<StopCapture>> \in Seq(Outputs)
      /\ Cancelled(silence \o <<StopCapture>>) = Cancelled(silence)
  <2>1. <<StopCapture>> \in Seq(Outputs) /\ Cancelled(<<StopCapture>>) = {}
    BY SilentLists
  <2>. HIDE DEF Cancelled
  <2>2. /\ silence \o <<StopCapture>> \in Seq(Outputs)
        /\ Cancelled(silence \o <<StopCapture>>) = Cancelled(silence) \cup Cancelled(<<StopCapture>>)
    BY <1>3, <2>1, CancelledConcat
  <2>. QED  BY <2>1, <2>2
<1>6. Cancelled(out') = Cancelled(silence)
  BY <1>4, <1>5, ReturnCancels
<1>. QED
  BY <1>3, <1>6 DEF EndSession, EndSessionCancelling, EndEffect

LEMMA ConfirmIsEffect ==
  ASSUME TurnsOK, state = "Interrupting",
         NEW next \in {"UserSpeaking", "Submitting"},
         NEW extra \in Seq(Outputs), Cancelled(extra) = {},
         ConfirmGenuineBargeIn(next, extra)
  PROVE  ConfirmEffect
<1>. USE States DEF TurnsOK
<1>1. pending_cancel_turn \in Turn
  BY DEF TurnStructure
<1>2. /\ CancelIfAny(pending_cancel_turn) \in Seq(Outputs)
      /\ Cancelled(CancelIfAny(pending_cancel_turn)) = {pending_cancel_turn}
  BY <1>1, BoundsAssumption, CancelsAreOutputs, CancelledSmall
<1>3. /\ CancelIfAny(pending_cancel_turn) \o extra \in Seq(Outputs)
      /\ Cancelled(CancelIfAny(pending_cancel_turn) \o extra) = {pending_cancel_turn}
  BY <1>2, CancelledConcat
<1>4. Return(CancelIfAny(pending_cancel_turn) \o extra) /\ state' \in State
  BY DEF ConfirmGenuineBargeIn
<1>5. Cancelled(out') = {pending_cancel_turn}
  BY <1>3, <1>4, ReturnCancels
<1>. QED
  BY <1>5 DEF ConfirmGenuineBargeIn, ConfirmEffect

LEMMA ReleaseIsEffect ==
  ASSUME TurnsOK, NEW S, BackToListening(S), Return(<<>>),
         UNCHANGED <<pending_cancel_turn, turn_counter>>,
         state \in {"Finalizing", "Submitting", "AwaitingAgent", "AgentSpeaking"}
  PROVE  ReleaseEffect
BY States, PlainReturn DEF TurnsOK, BackToListening, ReleaseEffect

LEMMA SeizeIsEffect ==
  ASSUME TurnsOK, NEW outs \in Seq(Outputs), SeizeTurn(outs),
         state \in {"Listening", "Finalizing", "Submitting", "AwaitingAgent", "AgentSpeaking"},
         Cancelled(outs) = IF state = "AgentSpeaking" THEN {current_turn} ELSE {}
  PROVE  BeginEffect
<1>1. Return(outs) /\ state' \in State
  BY States DEF SeizeTurn
<1>2. Cancelled(out') = Cancelled(outs)
  BY <1>1, ReturnCancels
<1>. QED
  BY <1>2 DEF SeizeTurn, BeginEffect

LEMMA TickEffect ==
  ASSUME TurnsOK, NEW dt \in TickLengths, OnTick(dt)
  PROVE  TurnEffect
<1>. USE States DEF TurnsOK, TurnStructure, TurnEffect
<1>1. CASE Ignored \/ TimePasses(dt) \/ (state = "UserSpeaking" /\ ForceEndpoint)
  BY <1>1 DEF Ignored, machine, TimePasses, ForceEndpoint, KeepEffect
<1>2. CASE state = "Listening" /\ EndSession
  BY <1>2, EndSessionEffect
<1>3. CASE state \in {"Finalizing", "AwaitingAgent"} /\ GiveUpOnTurn
  BY <1>3, ReleaseIsEffect DEF GiveUpOnTurn
<1>4. CASE state = "Interrupting" /\ RetractBargeIn
  <2>1. pending_cancel_turn \in Turn /\ pending_cancel_turn # NoTurn
    BY <1>4
  <2>. DEFINE resume == <<ResumeSpeaking(pending_cancel_turn)>>
  <2>2. Return(resume) /\ state' \in State
    BY <1>4, <2>1 DEF RetractBargeIn
  <2>3. resume \in Seq(Outputs) /\ Cancelled(resume) = {}
    BY <2>1, SilentLists
  <2>. HIDE DEF resume
  <2>4. Cancelled(out') = {}
    BY <2>2, <2>3, ReturnCancels
  <2>. QED
    BY <1>4, <2>4 DEF RetractBargeIn, RetractEffect
<1>. QED
  BY <1>1, <1>2, <1>3, <1>4 DEF OnTick

LEMMA ControlEffect ==
  ASSUME TurnsOK, Control \/ Detectors
  PROVE  TurnEffect
<1>. USE States DEF TurnsOK, TurnStructure, TurnEffect
<1>0. CASE Ignored \/ (state = "UserSpeaking" /\ Finalize)
  BY <1>0 DEF Ignored, machine, Finalize, KeepEffect
<1>1. CASE OnSessionStart
  BY <1>0, <1>1 DEF OnSessionStart, KeepEffect, turnVars
<1>2. CASE OnSessionEnd
  BY <1>0, <1>2, EndSessionEffect DEF OnSessionEnd
<1>3. CASE OnSpeechStart
  <2>1. CASE ~ Ignored
    <3>1. state = "Listening" /\ Return(<<>>) /\ state' \in State
      BY <1>3, <2>1 DEF OnSpeechStart
    <3>2. Cancelled(out') = {}
      BY <3>1, PlainReturn
    <3>. QED
      BY <1>3, <2>1, <3>2 DEF OnSpeechStart, BeginEffect
  <2>. QED
    BY <1>0, <2>1
<1>4. CASE OnBargeInConfirmed
  BY <1>0, <1>4 DEF OnBargeInConfirmed, InterruptEffect
<1>5. CASE OnPttPressed
  <2>1. CASE state = "AgentSpeaking"
    <3>. DEFINE hushed == <<CancelPlayback, FlushOutputBuffer>>
                cancel == CancelIfAny(current_turn)
    <3>1. current_turn \in Turn
      BY <2>1
    <3>2. cancel \in Seq(Outputs) /\ Cancelled(cancel) = {current_turn}
      BY <3>1, CancelsAreOutputs, CancelledSmall
    <3>3. hushed \in Seq(Outputs) /\ Cancelled(hushed) = {}
      BY SilentLists
    <3>4. SeizeTurn(hushed \o cancel)
      BY <1>5, <2>1 DEF OnPttPressed
    <3>. HIDE DEF hushed, cancel
    <3>5. hushed \o cancel \in Seq(Outputs) /\ Cancelled(hushed \o cancel) = {current_turn}
      BY <3>2, <3>3, CancelledConcat
    <3>. QED
      BY <2>1, <3>4, <3>5, SeizeIsEffect
  <2>2. CASE state \in {"Listening", "Finalizing", "Submitting", "AwaitingAgent"}
    BY <1>5, <2>2, NoOutputs, CancelledSmall, SeizeIsEffect DEF OnPttPressed
  <2>3. CASE state = "Interrupting"
    BY <1>5, <2>3, NoOutputs, CancelledSmall, ConfirmIsEffect DEF OnPttPressed
  <2>4. CASE state \in {"Idle", "UserSpeaking"}
    BY <1>0, <1>5, <2>4 DEF OnPttPressed
  <2>. QED
    BY <2>1, <2>2, <2>3, <2>4
<1>. QED
  BY <1>0, <1>1, <1>2, <1>3, <1>4, <1>5 DEF Control, Detectors, OnSpeechEnd, OnPttReleased

LEMMA ResultEffect ==
  ASSUME TurnsOK, NEW t \in 1..turn_counter, Results(t)
  PROVE  TurnEffect
<1>. USE States DEF TurnsOK, TurnStructure, TurnEffect
<1>0. CASE Ignored
  BY <1>0 DEF Ignored, machine, KeepEffect
<1>1. t \in Turn
  BY BoundsAssumption
<1>2. CASE OnPartialTranscript(t)
  <2>1. CASE state = "Interrupting" /\ ConfirmGenuineBargeIn("UserSpeaking", <<ShowPartial>>)
    BY <2>1, SilentLists, ConfirmIsEffect
  <2>. QED
    BY <1>0, <1>2, <2>1 DEF OnPartialTranscript, machine, KeepEffect
<1>3. ASSUME NEW text \in Text, OnFinalTranscript(t, text)
      PROVE  TurnEffect
  <2>1. CASE state = "Interrupting" /\ ConfirmGenuineBargeIn("Submitting", <<SubmitUtterance(t, text)>>)
    <3>1. /\ <<SubmitUtterance(t, text)>> \in Seq(Outputs)
          /\ Cancelled(<<SubmitUtterance(t, text)>>) = {}
      BY <1>1, SilentLists
    <3>. QED
      BY <2>1, <3>1, ConfirmIsEffect
  <2>. QED
    BY <1>0, <1>3, <2>1 DEF OnFinalTranscript, FinalTranscriptIn, KeepEffect
<1>4. CASE OnFinalTranscriptRejected(t)
  BY <1>0, <1>4, ReleaseIsEffect DEF OnFinalTranscriptRejected
<1>5. CASE OnSubmitSucceeded(t)
  BY <1>0, <1>5 DEF OnSubmitSucceeded, KeepEffect
<1>6. CASE OnSubmitFailed(t)
  BY <1>0, <1>6, ReleaseIsEffect DEF OnSubmitFailed, SubmitFailedKeeping
<1>7. CASE OnAgentTextArrived(t)
  BY <1>0, <1>7 DEF OnAgentTextArrived, SpeakEffect
<1>8. CASE OnAgentTurnComplete(t) \/ OnPlaybackDrained(t)
  <2>1. CASE state \in {"AwaitingAgent", "AgentSpeaking"} /\ EndTurnReturnToListening
    BY <2>1, ReleaseIsEffect DEF EndTurnReturnToListening
  <2>. QED
    BY <1>0, <1>8, <2>1 DEF OnAgentTurnComplete, OnPlaybackDrained, KeepEffect
<1>. QED
  BY <1>2, <1>3, <1>4, <1>5, <1>6, <1>7, <1>8 DEF Results

(* Every call of the machine has one of the effects. *)
LEMMA EveryStepHasEffect == ASSUME TurnsOK, [Next]_vars PROVE TurnEffect
<1>1. CASE PushFrame \/ UNCHANGED vars
  BY <1>1 DEF PushFrame, vars, machine, TurnEffect, KeepEffect
<1>. QED
  BY <1>1, TickEffect, ControlEffect, ResultEffect DEF Next, Tick

----------------------------------------------------------------------------
(* The abstract phases.  Every turn begun and no longer held has a fate. *)

Endings == {"dropped", "cancelled", "finished"}

FateOK ==
  /\ fate \in [Turn -> {"unborn"} \cup Endings]
  /\ \A t \in 1..turn_counter : t \notin Live => fate[t] \in Endings

(* Where each turn stands, case by case. *)
LEMMA Phases ==
  ASSUME TurnsOK
  PROVE  \A t \in Turn :
           /\ t > turn_counter => PhaseMap[t] = "unborn"
           /\ t = pending_cancel_turn => PhaseMap[t] = "held"
           /\ t = current_turn => PhaseMap[t] = FloorPhase
           /\ t <= turn_counter /\ t \notin Live => PhaseMap[t] = fate[t]
<1>1. \A t \in Turn : PhaseMap[t] = PhaseOf(t)
  BY DEF PhaseMap
<1>2. \A t \in Turn :
           /\ t > turn_counter => PhaseOf(t) = "unborn"
           /\ t = pending_cancel_turn => PhaseOf(t) = "held"
           /\ t = current_turn => PhaseOf(t) = FloorPhase
           /\ t <= turn_counter /\ t \notin Live => PhaseOf(t) = fate[t]
  BY BoundsAssumption, States DEF TurnsOK, TurnStructure, PhaseOf, Live
<1>. QED
  BY <1>1, <1>2

LEMMA PhasesNext ==
  ASSUME TurnsOK'
  PROVE  \A t \in Turn :
           /\ t > turn_counter' => PhaseMap'[t] = "unborn"
           /\ t = pending_cancel_turn' => PhaseMap'[t] = "held"
           /\ t = current_turn' => PhaseMap'[t] = FloorPhase'
           /\ t <= turn_counter' /\ t \notin Live' => PhaseMap'[t] = fate'[t]
<1>1. \A t \in Turn : PhaseMap'[t] = PhaseOf(t)'
  BY DEF PhaseMap
<1>2. \A t \in Turn :
           /\ t > turn_counter' => PhaseOf(t)' = "unborn"
           /\ t = pending_cancel_turn' => PhaseOf(t)' = "held"
           /\ t = current_turn' => PhaseOf(t)' = FloorPhase'
           /\ t <= turn_counter' /\ t \notin Live' => PhaseOf(t)' = fate'[t]
  BY BoundsAssumption, States DEF TurnsOK, TurnStructure, PhaseOf, Live
<1>. QED
  BY <1>1, <1>2

LEMMA MapIsFunction ==
  /\ PhaseMap = [t \in Turn |-> PhaseMap[t]]
  /\ PhaseMap' = [t \in Turn |-> PhaseMap'[t]]
BY DEF PhaseMap

(* What the history records of a step, once the turns it cancels are known. *)
LEMMA FateOfTurns ==
  ASSUME TurnsOK, ObserveTurns
  PROVE  /\ fate' = [t \in Turn |-> IF t \in Live \ Live' THEN Verdict(t) ELSE fate[t]]
         /\ \A t \in Turn :
              Verdict(t) = IF t \in Cancelled(out') THEN "cancelled"
                           ELSE IF state = "AgentSpeaking" /\ state' = "Listening"
                                THEN "finished" ELSE "dropped"
<1>1. fate' = [t \in Turn |-> IF t \in Live \ Live' THEN Verdict(t) ELSE fate[t]]
  BY DEF ObserveTurns
<1>2. ASSUME NEW t \in Turn
      PROVE  Verdict(t) = IF t \in Cancelled(out') THEN "cancelled"
                          ELSE IF state = "AgentSpeaking" /\ state' = "Listening"
                               THEN "finished" ELSE "dropped"
  <2>1. t \in Cancelled(out') <=> CancelSynthesis(t) \in OutSet(out')
    BY DEF Cancelled
  <2>. QED
    BY <2>1 DEF Verdict
<1>. QED
  BY <1>1, <1>2

LEMMA FateStep ==
  ASSUME TurnsOK, TurnsOK', FateOK, ObserveTurns, TurnEffect
  PROVE  FateOK'
<1>. USE BoundsAssumption DEF TurnsOK, TurnStructure, turnVars, Live
<1>1. fate' \in [Turn -> {"unborn"} \cup Endings]
  BY FateOfTurns DEF FateOK, Endings
<1>2. ASSUME NEW t \in 1..turn_counter', t \notin Live'
      PROVE  fate'[t] \in Endings
  <2>1. t \in Turn
    OBVIOUS
  <2>2. t \in 1..turn_counter
    BY <1>2
    DEF TurnEffect, KeepEffect, BeginEffect, InterruptEffect, ConfirmEffect, RetractEffect,
        SpeakEffect, ReleaseEffect, EndEffect, BeginUserTurn
  <2>3. CASE t \in Live
    BY <1>2, <2>1, <2>3, FateOfTurns DEF Endings
  <2>4. CASE t \notin Live
    BY <2>1, <2>2, <2>4, FateOfTurns DEF FateOK
  <2>. QED
    BY <2>3, <2>4
<1>. QED
  BY <1>1, <1>2 DEF FateOK

----------------------------------------------------------------------------
(* Each effect is an action of the abstract specification, or none. *)

Abstract == [Lifecycle!Next]_PhaseMap

Mapped == TurnsOK /\ TurnsOK' /\ FateOK /\ ObserveTurns


LEMMA KeepMaps == ASSUME Mapped, KeepEffect PROVE Abstract
<1>0. TurnsOK /\ TurnsOK' /\ ObserveTurns
  BY DEF Mapped
<1>1. Live' = Live
  BY DEF KeepEffect, turnVars, Live
<1>2. \A t \in Turn : fate'[t] = fate[t]
  BY <1>0, <1>1, FateOfTurns
<1>3. \A t \in Turn : PhaseOf(t)' = PhaseOf(t)
  BY <1>2, BoundsAssumption DEF PhaseOf, FloorPhase, KeepEffect, turnVars
<1>. QED
  BY <1>3 DEF Abstract, PhaseMap

(* What a mapped step starts from. *)
LEMMA MappedFacts ==
  ASSUME Mapped
  PROVE  /\ TurnsOK /\ TurnsOK' /\ FateOK /\ ObserveTurns
         /\ MaxTurn \in Nat
         /\ turn_counter \in 0..MaxTurn
         /\ turn_counter' \in 0..MaxTurn
BY BoundsAssumption DEF Mapped, TurnsOK

(* A turn that the step neither gives the floor nor takes it from keeps its phase. *)
LEMMA Bystander ==
  ASSUME Mapped, NEW u \in Turn, u \notin Live, u \notin Live',
         u <= turn_counter <=> u <= turn_counter'
  PROVE  PhaseMap'[u] = PhaseMap[u]
<1>1. CASE u <= turn_counter
  <2>1. PhaseMap[u] = fate[u] /\ PhaseMap'[u] = fate'[u]
    BY MappedFacts, <1>1, Phases, PhasesNext
  <2>2. fate'[u] = fate[u]
    BY MappedFacts, FateOfTurns
  <2>. QED  BY <2>1, <2>2
<1>2. CASE u > turn_counter
  BY MappedFacts, <1>2, Phases, PhasesNext
<1>. QED  BY <1>1, <1>2, MappedFacts

(* A turn that loses the floor for good is over, the way the history says. *)
LEMMA Loser ==
  ASSUME Mapped, NEW u \in Turn, u \in Live, u \notin Live', u <= turn_counter'
  PROVE  PhaseMap'[u] = IF u \in Cancelled(out') THEN "cancelled"
                       ELSE IF state = "AgentSpeaking" /\ state' = "Listening"
                            THEN "finished" ELSE "dropped"
<1>1. PhaseMap'[u] = fate'[u]
  BY MappedFacts, PhasesNext
<1>2. fate'[u] = Verdict(u)
  BY MappedFacts, FateOfTurns
<1>. QED  BY MappedFacts, <1>1, <1>2, FateOfTurns

LEMMA SpeakMaps == ASSUME Mapped, SpeakEffect PROVE Abstract
<1>1. /\ Live' = Live /\ current_turn \in Turn /\ pending_cancel_turn = NoTurn
      /\ Live = {current_turn} /\ current_turn' = current_turn /\ turn_counter' = turn_counter
  BY MappedFacts DEF SpeakEffect, turnVars, Live, TurnsOK, TurnStructure
<1>2. /\ PhaseMap[current_turn] = "user"
      /\ PhaseMap'[current_turn] = "speaking"
  BY MappedFacts, <1>1, Phases, PhasesNext DEF FloorPhase, SpeakEffect
<1>3. \A u \in Turn : u # current_turn => PhaseMap'[u] = PhaseMap[u]
  BY MappedFacts, <1>1, Bystander, Phases
<1>4. Lifecycle!Speak(current_turn)
  BY <1>1, <1>2, <1>3, MapIsFunction DEF Lifecycle!Speak
<1>. QED
  BY <1>1, <1>4 DEF Abstract, Lifecycle!Next, Lifecycle!Turn

LEMMA CutShortCases ==
  /\ Lifecycle!CutShort("speaking") = "cancelled"
  /\ Lifecycle!CutShort("held") = "cancelled"
  /\ Lifecycle!CutShort("user") = "dropped"
  /\ Lifecycle!CutShort("candidate") = "dropped"
  /\ \A p \in {"unborn"} \cup Endings : Lifecycle!CutShort(p) = p
BY DEF Lifecycle!CutShort, Endings

(* The phases that no turn outside the live ones has. *)
LEMMA QuietPhases ==
  ASSUME Mapped, NEW u \in Turn, u \notin Live
  PROVE  /\ PhaseMap[u] \in {"unborn"} \cup Endings
         /\ PhaseMap[u] = "unborn" <=> u > turn_counter
<1>1. CASE u > turn_counter
  BY MappedFacts, <1>1, Phases
<1>2. CASE u <= turn_counter
  <2>1. PhaseMap[u] = fate[u] /\ fate[u] \in Endings
    BY MappedFacts, <1>2, Phases DEF FateOK
  <2>. QED  BY <1>2, <2>1, MappedFacts DEF Endings
<1>. QED  BY <1>1, <1>2, MappedFacts

(* The id handed out next is the least unborn turn. *)
LEMMA NextId ==
  ASSUME Mapped, BeginUserTurn
  PROVE  /\ turn_counter + 1 \in Turn
         /\ turn_counter + 1 \notin Live
         /\ Lifecycle!IsNext(turn_counter + 1)
<1>. DEFINE new == turn_counter + 1
<1>1. new \in Turn /\ new \notin Live
  BY MappedFacts DEF BeginUserTurn, Live, TurnsOK, TurnStructure
<1>2. PhaseMap[new] = "unborn"
  BY MappedFacts, <1>1, Phases
<1>3. ASSUME NEW u \in 1..(new - 1)
      PROVE  PhaseMap[u] # "unborn"
  <2>1. u \in Turn /\ u <= turn_counter
    BY MappedFacts, <1>1
  <2>2. CASE u = pending_cancel_turn \/ u = current_turn
    BY MappedFacts, <2>1, <2>2, Phases DEF FloorPhase
  <2>3. CASE u \notin Live
    BY MappedFacts, <2>1, <2>3, QuietPhases
  <2>. QED
    BY <2>1, <2>2, <2>3 DEF Live
<1>. QED
  BY <1>1, <1>2, <1>3 DEF Lifecycle!IsNext

LEMMA BeginMaps == ASSUME Mapped, BeginEffect PROVE Abstract
<1>. DEFINE new == turn_counter + 1
<1>1. /\ new \in Turn /\ new \notin Live /\ Lifecycle!IsNext(new)
      /\ current_turn' = new /\ turn_counter' = new
      /\ pending_cancel_turn = NoTurn /\ Live' = {new}
      /\ Live \subseteq {current_turn}
  BY MappedFacts, NextId DEF BeginEffect, BeginUserTurn, Live, TurnsOK, TurnStructure
<1>2. PhaseMap'[new] = "user"
  BY MappedFacts, <1>1, PhasesNext DEF FloorPhase, BeginEffect
<1>3. ASSUME NEW u \in Turn, u # new
      PROVE  PhaseMap'[u] = Lifecycle!CutShort(PhaseMap[u])
  <2>1. CASE u \notin Live
    <3>1. PhaseMap'[u] = PhaseMap[u]
      BY MappedFacts, <1>1, <1>3, <2>1, Bystander
    <3>. QED
      BY MappedFacts, <2>1, <3>1, QuietPhases, CutShortCases, Phases
  <2>2. CASE u \in Live
    <3>1. u = current_turn /\ u <= turn_counter'
      BY <1>1, <2>2, MappedFacts DEF TurnsOK, TurnStructure
    <3>2. PhaseMap'[u] = IF state = "AgentSpeaking" THEN "cancelled" ELSE "dropped"
      <4>1. u \notin Live'
        BY <1>1, <1>3
      <4>2. state' # "Listening" /\ (u \in Cancelled(out') <=> state = "AgentSpeaking")
        BY <3>1 DEF BeginEffect
      <4>. HIDE DEF new
      <4>. QED
        BY <2>2, <3>1, <4>1, <4>2, Loser
    <3>3. PhaseMap[u] = IF state = "AgentSpeaking" THEN "speaking" ELSE "user"
      BY MappedFacts, <3>1, Phases DEF FloorPhase, BeginEffect
    <3>. QED
      BY <3>2, <3>3, CutShortCases
  <2>. QED
    BY <2>1, <2>2
<1>4. Lifecycle!Begin(new)
  <2>. DEFINE after(u) == IF u = new THEN "user" ELSE Lifecycle!CutShort(PhaseMap[u])
  <2>1. \A u \in Turn : PhaseMap'[u] = after(u)
    BY <1>2, <1>3
  <2>. HIDE DEF after, new
  <2>2. PhaseMap' = [u \in Turn |-> after(u)]
    BY <2>1, MapIsFunction
  <2>. USE DEF after
  <2>. QED
    BY <1>1, <2>2 DEF Lifecycle!Begin, Lifecycle!Turn
<1>. QED
  BY <1>1, <1>4 DEF Abstract, Lifecycle!Next, Lifecycle!Turn

(* Two turns of three change their phases: the shape of the steps below. *)
LEMMA TwoChange ==
  ASSUME NEW t \in Turn, NEW u \in Turn, NEW p, NEW q, t # u,
         PhaseMap'[t] = p, PhaseMap'[u] = q,
         \A v \in Turn : v # t /\ v # u => PhaseMap'[v] = PhaseMap[v]
  PROVE  PhaseMap' = [PhaseMap EXCEPT ![t] = p, ![u] = q]
BY MapIsFunction

LEMMA InterruptMaps == ASSUME Mapped, InterruptEffect PROVE Abstract
<1>. DEFINE new == turn_counter + 1
            old == current_turn
<1>1. /\ new \in Turn /\ new \notin Live /\ Lifecycle!IsNext(new)
      /\ current_turn' = new /\ turn_counter' = new
      /\ old \in Turn /\ new # old /\ pending_cancel_turn' = old
      /\ Live = {old} /\ Live' = {new, old}
  BY MappedFacts, NextId DEF InterruptEffect, BeginUserTurn, Live, TurnsOK, TurnStructure
<1>2. /\ PhaseMap[old] = "speaking"
      /\ PhaseMap'[new] = "candidate"
      /\ PhaseMap'[old] = "held"
  BY MappedFacts, <1>1, Phases, PhasesNext DEF FloorPhase, InterruptEffect
<1>3. \A u \in Turn : u # new /\ u # old => PhaseMap'[u] = PhaseMap[u]
  BY MappedFacts, <1>1, Bystander, Phases
<1>. HIDE DEF new, old
<1>4. PhaseMap' = [PhaseMap EXCEPT ![new] = "candidate", ![old] = "held"]
  BY <1>1, <1>2, <1>3, TwoChange
<1>. QED
  BY <1>1, <1>2, <1>4 DEF Lifecycle!Interrupt, Abstract, Lifecycle!Next, Lifecycle!Turn

(* The candidate's turn and the one it shadows. *)
LEMMA Shadow ==
  ASSUME Mapped, state = "Interrupting"
  PROVE  /\ current_turn \in Turn /\ pending_cancel_turn \in Turn
         /\ current_turn # pending_cancel_turn
         /\ Live = {current_turn, pending_cancel_turn}
         /\ PhaseMap[current_turn] = "candidate"
         /\ PhaseMap[pending_cancel_turn] = "held"
<1>1. /\ current_turn \in Turn /\ pending_cancel_turn \in Turn
      /\ current_turn # pending_cancel_turn
      /\ Live = {current_turn, pending_cancel_turn}
  BY MappedFacts DEF Live, TurnsOK, TurnStructure
<1>. QED
  BY MappedFacts, <1>1, Phases DEF FloorPhase

LEMMA ConfirmMaps == ASSUME Mapped, ConfirmEffect PROVE Abstract
<1>. DEFINE won == current_turn
            lost == pending_cancel_turn
<1>1. /\ won \in Turn /\ lost \in Turn /\ won # lost /\ Live = {won, lost}
      /\ PhaseMap[won] = "candidate" /\ PhaseMap[lost] = "held"
  BY MappedFacts, Shadow DEF ConfirmEffect
<1>2. /\ Live' = {won} /\ turn_counter' = turn_counter /\ lost <= turn_counter
      /\ Cancelled(out') = {lost} /\ current_turn' = won
  BY <1>1, MappedFacts DEF ConfirmEffect, Live, TurnsOK, TurnStructure
<1>3. PhaseMap'[won] = "user"
  BY MappedFacts, <1>1, <1>2, PhasesNext DEF ConfirmEffect, FloorPhase
<1>4. PhaseMap'[lost] = "cancelled"
  BY MappedFacts, <1>1, <1>2, Loser
<1>5. \A u \in Turn : u # won /\ u # lost => PhaseMap'[u] = PhaseMap[u]
  BY MappedFacts, <1>1, <1>2, Bystander, Phases
<1>. HIDE DEF won, lost
<1>6. PhaseMap' = [PhaseMap EXCEPT ![won] = "user", ![lost] = "cancelled"]
  BY <1>1, <1>3, <1>4, <1>5, TwoChange
<1>. QED
  BY <1>1, <1>6 DEF Lifecycle!Confirm, Abstract, Lifecycle!Next, Lifecycle!Turn

LEMMA RetractMaps == ASSUME Mapped, RetractEffect PROVE Abstract
<1>. DEFINE lost == current_turn
            back == pending_cancel_turn
<1>1. /\ lost \in Turn /\ back \in Turn /\ lost # back /\ Live = {lost, back}
      /\ PhaseMap[lost] = "candidate" /\ PhaseMap[back] = "held"
  BY MappedFacts, Shadow DEF RetractEffect
<1>2. /\ Live' = {back} /\ turn_counter' = turn_counter /\ lost <= turn_counter
      /\ Cancelled(out') = {} /\ current_turn' = back
  BY <1>1, MappedFacts DEF RetractEffect, Live, TurnsOK, TurnStructure
<1>3. PhaseMap'[back] = "speaking"
  BY MappedFacts, <1>1, <1>2, PhasesNext DEF RetractEffect, FloorPhase
<1>4. PhaseMap'[lost] = "dropped"
  BY MappedFacts, <1>1, <1>2, Loser DEF RetractEffect
<1>5. \A u \in Turn : u # lost /\ u # back => PhaseMap'[u] = PhaseMap[u]
  BY MappedFacts, <1>1, <1>2, Bystander, Phases
<1>. HIDE DEF lost, back
<1>6. PhaseMap' = [PhaseMap EXCEPT ![lost] = "dropped", ![back] = "speaking"]
  BY <1>1, <1>3, <1>4, <1>5, TwoChange
<1>. QED
  BY <1>1, <1>6 DEF Lifecycle!Retract, Abstract, Lifecycle!Next, Lifecycle!Turn

LEMMA ReleaseMaps == ASSUME Mapped, ReleaseEffect PROVE Abstract
<1>. DEFINE over == current_turn
<1>1. /\ over \in Turn /\ Live = {over} /\ Live' = {} /\ turn_counter' = turn_counter
      /\ over <= turn_counter /\ Cancelled(out') = {}
  BY MappedFacts DEF ReleaseEffect, Live, TurnsOK, TurnStructure
<1>2. \A u \in Turn : u # over => PhaseMap'[u] = PhaseMap[u]
  BY MappedFacts, <1>1, Bystander, Phases
<1>3. CASE state = "AgentSpeaking"
  <2>1. PhaseMap[over] = "speaking" /\ PhaseMap'[over] = "finished"
    BY MappedFacts, <1>1, <1>3, Loser, Phases DEF ReleaseEffect, FloorPhase
  <2>. HIDE DEF over
  <2>2. Lifecycle!Finish(over)
    BY <1>1, <1>2, <2>1, MapIsFunction DEF Lifecycle!Finish
  <2>. QED
    BY <1>1, <2>2 DEF Abstract, Lifecycle!Next, Lifecycle!Turn
<1>4. CASE state # "AgentSpeaking"
  <2>1. PhaseMap[over] = "user" /\ PhaseMap'[over] = "dropped"
    BY MappedFacts, <1>1, <1>4, Loser, Phases DEF ReleaseEffect, FloorPhase
  <2>. HIDE DEF over
  <2>2. Lifecycle!Drop(over)
    BY <1>1, <1>2, <2>1, MapIsFunction DEF Lifecycle!Drop
  <2>. QED
    BY <1>1, <2>2 DEF Abstract, Lifecycle!Next, Lifecycle!Turn
<1>. QED
  BY <1>3, <1>4

LEMMA EndMaps == ASSUME Mapped, EndEffect PROVE Abstract
<1>1. /\ Live' = {} /\ turn_counter' = turn_counter
      /\ \A u \in Live : u <= turn_counter
  BY MappedFacts DEF EndEffect, Live, TurnsOK, TurnStructure
<1>2. ASSUME NEW u \in Turn
      PROVE  PhaseMap'[u] = Lifecycle!CutShort(PhaseMap[u])
  <2>1. CASE u \notin Live
    <3>1. PhaseMap'[u] = PhaseMap[u]
      BY MappedFacts, <1>1, <2>1, Bystander
    <3>. QED
      BY MappedFacts, <2>1, <3>1, QuietPhases, CutShortCases, Phases
  <2>2. CASE u \in Live
    <3>1. PhaseMap'[u] = IF u \in Cancelled(out') THEN "cancelled" ELSE "dropped"
      BY MappedFacts, <1>1, <2>2, Loser DEF EndEffect
    <3>2. CASE state = "Interrupting"
      <4>1. Cancelled(out') = {pending_cancel_turn}
        BY <3>2 DEF EndEffect, VoiceTurn
      <4>. QED
        BY MappedFacts, <2>2, <3>1, <3>2, <4>1, Shadow, CutShortCases
    <3>3. CASE state # "Interrupting"
      <4>1. u = current_turn
        BY <2>2, <3>3, MappedFacts DEF Live, TurnsOK, TurnStructure
      <4>2. Cancelled(out') = IF state = "AgentSpeaking" THEN {current_turn} ELSE {}
        BY <3>3 DEF EndEffect, VoiceTurn
      <4>3. PhaseMap[u] = IF state = "AgentSpeaking" THEN "speaking" ELSE "user"
        BY MappedFacts, <3>3, <4>1, Phases DEF FloorPhase
      <4>. QED
        BY <3>1, <4>1, <4>2, <4>3, CutShortCases
    <3>. QED
      BY <3>2, <3>3
  <2>. QED
    BY <2>1, <2>2
<1>3. Lifecycle!EndAll
  <2>. DEFINE after(u) == Lifecycle!CutShort(PhaseMap[u])
  <2>1. \A u \in Turn : PhaseMap'[u] = after(u)
    BY <1>2
  <2>. HIDE DEF after
  <2>2. PhaseMap' = [u \in Turn |-> after(u)]
    BY <2>1, MapIsFunction
  <2>. USE DEF after
  <2>. QED
    BY <2>2 DEF Lifecycle!EndAll, Lifecycle!Turn
<1>. QED
  BY <1>3 DEF Abstract, Lifecycle!Next

----------------------------------------------------------------------------

LEMMA EveryEffectMaps == ASSUME Mapped, TurnEffect PROVE Abstract
BY KeepMaps, BeginMaps, InterruptMaps, ConfirmMaps, RetractMaps, SpeakMaps,
   ReleaseMaps, EndMaps DEF TurnEffect

(* Every step of the observed machine is a step of the machine, observed. *)
LEMMA ObservedSteps == HNext => Next /\ ObserveTurns
<1>1. HTick => Next /\ ObserveTurns
  BY DEF HTick, Next, Tick
<1>2. HSessionStart => Next /\ ObserveTurns
  BY DEF HSessionStart, Next, Control
<1>3. ASSUME NEW t \in 1..turn_counter
      PROVE  HSubmitFailed(t) \/ HAgentTurnComplete(t) => Next /\ ObserveTurns
  BY DEF HSubmitFailed, HAgentTurnComplete, Next, Results
<1>4. HOther => Next /\ ObserveTurns
  BY DEF HOther, Next, Control, Results
<1>. QED
  BY <1>1, <1>2, <1>3, <1>4 DEF HNext

LEMMA MapsInit == HInit => Lifecycle!Init /\ TurnsOK /\ FateOK
<1>. SUFFICES ASSUME HInit PROVE Lifecycle!Init /\ TurnsOK /\ FateOK
  OBVIOUS
<1>1. TurnsOK
  BY InitTurns DEF HInit
<1>2. FateOK
  BY DEF HInit, Init, FateOK
<1>3. \A t \in Turn : PhaseOf(t) = "unborn"
  BY DEF HInit, Init, PhaseOf
<1>. QED
  BY <1>1, <1>2, <1>3 DEF Lifecycle!Init, Lifecycle!Turn, PhaseMap

LEMMA MapsStep ==
  ASSUME TurnsOK, FateOK, [HNext]_hvars
  PROVE  TurnsOK' /\ FateOK' /\ Abstract
<1>1. CASE HNext
  <2>1. Next /\ ObserveTurns
    BY <1>1, ObservedSteps
  <2>2. TurnsOK' /\ TurnEffect
    BY <2>1, TurnsStep, EveryStepHasEffect
  <2>3. FateOK'
    BY <2>1, <2>2, FateStep
  <2>. QED
    BY <2>1, <2>2, <2>3, EveryEffectMaps DEF Mapped
<1>2. CASE UNCHANGED hvars
  <2>1. UNCHANGED <<vars, fate>>
    BY <1>2 DEF hvars, history
  <2>2. TurnsOK'
    BY <2>1, TurnsStep
  <2>3. FateOK'
    BY <2>1 DEF FateOK, vars, machine, turnVars, Live
  <2>4. \A t \in Turn : PhaseOf(t)' = PhaseOf(t)
    BY <2>1 DEF PhaseOf, FloorPhase, vars, machine, turnVars
  <2>. QED
    BY <2>2, <2>3, <2>4 DEF Abstract, PhaseMap
<1>. QED
  BY <1>1, <1>2

(* The session machine implements TurnLifecycle: for any number of turns, any
   windows and any order of ticks, controls, detections and results, stale ones
   included, what handle does to the turns is what the abstract specification
   allows, and the cancellations it returns are the ones that tell a turn cut
   short from a turn that played out. *)
THEOREM SessionImplementsLifecycle == HSpec => ImplementsLifecycle
<1>1. HInit => Lifecycle!Init /\ TurnsOK /\ FateOK
  BY MapsInit
<1>2. TurnsOK /\ FateOK /\ [HNext]_hvars => TurnsOK' /\ FateOK' /\ [Lifecycle!Next]_PhaseMap
  BY MapsStep DEF Abstract
<1>. QED
  BY <1>1, <1>2, PTL DEF HSpec, ImplementsLifecycle, Lifecycle!Spec

----------------------------------------------------------------------------
(* The words of the turns: what is submitted, kept, failed and reported.  A
   step that changes the text does so in one of a few ways (WordStep), and each
   keeps the words of the turn that is answered. *)

(* The words a list of outputs hands to the agent. *)
Submitted(outs) == {o \in OutSet(outs) : o.kind = "SubmitUtterance"}

LEMMA ReturnSubmits ==
  ASSUME NEW outs \in Seq(Outputs), state' \in State, Return(outs)
  PROVE  Submitted(out') = Submitted(outs)
<1>. DEFINE emitted == IF state' # state THEN <<EmitState(state')>> ELSE <<>>
<1>1. emitted \in Seq(Outputs) /\ Submitted(emitted) = {}
  <2>1. EmitState(state') \in Outputs /\ EmitState(state').kind # "SubmitUtterance"
    BY DEF Outputs, EmitState
  <2>2. OutSet(<<>>) = {} /\ OutSet(<<EmitState(state')>>) = {EmitState(state')}
    BY OutSetSmall
  <2>. QED  BY <2>1, <2>2, NoOutputs DEF Submitted
<1>2. out' = outs \o emitted
  BY DEF Return
<1>. HIDE DEF emitted
<1>3. OutSet(outs \o emitted) = OutSet(outs) \cup OutSet(emitted)
  BY <1>1, OutSetConcat
<1>. QED  BY <1>1, <1>2, <1>3 DEF Submitted

LEMMA SubmittedConcat ==
  ASSUME NEW a \in Seq(Outputs), NEW b \in Seq(Outputs)
  PROVE  /\ a \o b \in Seq(Outputs)
         /\ Submitted(a \o b) = Submitted(a) \cup Submitted(b)
<1>1. OutSet(a \o b) = OutSet(a) \cup OutSet(b)
  BY OutSetConcat
<1>. QED  BY <1>1 DEF Submitted

(* The lists the handlers return, and what they submit. *)
LEMMA SubmittedLists ==
  /\ Submitted(<<>>) = {}
  /\ \A o \in Outputs : <<o>> \in Seq(Outputs)
                        /\ Submitted(<<o>>) = IF o.kind = "SubmitUtterance" THEN {o} ELSE {}
  /\ \A t \in Turn \cup {NoTurn} :
       CancelIfAny(t) \in Seq(Outputs) /\ Submitted(CancelIfAny(t)) = {}
  /\ <<CancelPlayback, FlushOutputBuffer>> \in Seq(Outputs)
  /\ Submitted(<<CancelPlayback, FlushOutputBuffer>>) = {}
<1>1. Submitted(<<>>) = {}
  BY OutSetSmall DEF Submitted
<1>2. ASSUME NEW o \in Outputs
      PROVE  /\ <<o>> \in Seq(Outputs)
             /\ Submitted(<<o>>) = IF o.kind = "SubmitUtterance" THEN {o} ELSE {}
  <2>1. OutSet(<<o>>) = {o}
    BY OutSetSmall
  <2>. QED  BY <2>1 DEF Submitted
<1>3. ASSUME NEW t \in Turn \cup {NoTurn}
      PROVE  CancelIfAny(t) \in Seq(Outputs) /\ Submitted(CancelIfAny(t)) = {}
  <2>1. CASE t = NoTurn
    BY <1>1, <2>1, NoOutputs DEF CancelIfAny
  <2>2. CASE t # NoTurn
    <3>1. CancelSynthesis(t) \in Outputs /\ CancelSynthesis(t).kind # "SubmitUtterance"
      BY <2>2 DEF CancelSynthesis, Outputs
    <3>. QED  BY <1>2, <2>2, <3>1 DEF CancelIfAny
  <2>. QED  BY <2>1, <2>2
<1>4. /\ <<CancelPlayback, FlushOutputBuffer>> \in Seq(Outputs)
      /\ Submitted(<<CancelPlayback, FlushOutputBuffer>>) = {}
  <2>1. /\ CancelPlayback \in Outputs /\ CancelPlayback.kind # "SubmitUtterance"
        /\ FlushOutputBuffer \in Outputs /\ FlushOutputBuffer.kind # "SubmitUtterance"
    BY OutputKinds DEF CancelPlayback, FlushOutputBuffer, Plain
  <2>2. OutSet(<<CancelPlayback, FlushOutputBuffer>>) = {CancelPlayback, FlushOutputBuffer}
    BY OutSetSmall
  <2>. QED  BY <2>1, <2>2 DEF Submitted
<1>. QED  BY <1>1, <1>2, <1>3, <1>4

----------------------------------------------------------------------------
(* What a step does to the words. *)

(* The states in which the words of the current turn have been submitted. *)
Answerable == {"Submitting", "AwaitingAgent", "AgentSpeaking"}

SubmitStep ==
  \E text \in Text :
    /\ state \in {"Finalizing", "Interrupting"}
    /\ state' = "Submitting"
    /\ UNCHANGED <<current_turn, turn_counter, last_failed_utterance>>
    /\ current_utterance' = text
    /\ Submitted(out') = {SubmitUtterance(current_turn, text)}

QuietStep ==
  /\ Submitted(out') = {}
  /\ state' = "Submitting" => state = "Submitting" /\ UNCHANGED <<current_turn, current_utterance>>
  /\ \/ current_turn' = current_turn /\ (state \in Answerable => state' \in Answerable)
     \/ current_turn' = NoTurn
     \/ current_turn' = turn_counter + 1
     \/ state' = "AgentSpeaking"
  /\ turn_counter' \in {turn_counter, turn_counter + 1}

WordStep == SubmitStep \/ QuietStep

LEMMA UnheardCalls ==
  ASSUME state' \in State, NEW outs \in Seq(Outputs), Submitted(outs) = {}, Return(outs)
  PROVE  Submitted(out') = {}
BY ReturnSubmits

LEMMA EndSessionWords == ASSUME TurnsOK, EndSession, state # "Idle" PROVE QuietStep
<1>. USE States DEF TurnsOK
<1>. DEFINE pause == <<CancelPlayback, FlushOutputBuffer>>
            cancel == CancelIfAny(VoiceTurn)
            silence == IF state \in {"AgentSpeaking", "Interrupting"} THEN pause \o cancel ELSE <<>>
            stop == <<StopCapture>>
<1>1. cancel \in Seq(Outputs) /\ Submitted(cancel) = {}
  BY SubmittedLists DEF VoiceTurn
<1>2. pause \in Seq(Outputs) /\ Submitted(pause) = {}
  BY SubmittedLists
<1>3. stop \in Seq(Outputs) /\ Submitted(stop) = {}
  <2>1. StopCapture \in Outputs /\ StopCapture.kind # "SubmitUtterance"
    BY OutputKinds DEF StopCapture, Plain
  <2>. QED  BY <2>1, SubmittedLists
<1>4. Return(silence \o stop) /\ state' = "Idle"
  BY DEF EndSession, EndSessionCancelling
<1>. HIDE DEF pause, cancel, stop
<1>5. silence \in Seq(Outputs) /\ Submitted(silence) = {}
  BY <1>1, <1>2, NoOutputs, SubmittedLists, SubmittedConcat
<1>. HIDE DEF silence
<1>6. silence \o stop \in Seq(Outputs) /\ Submitted(silence \o stop) = {}
  BY <1>3, <1>5, SubmittedConcat
<1>7. Submitted(out') = {}
  BY <1>4, <1>6, ReturnSubmits
<1>. QED
  BY <1>7 DEF EndSession, EndSessionCancelling, QuietStep

LEMMA QuietCalls ==
  ASSUME state' \in State, NEW outs \in Seq(Outputs), Submitted(outs) = {}, Return(outs),
         state' # "Submitting",
         \/ current_turn' = current_turn /\ (state \in Answerable => state' \in Answerable)
         \/ current_turn' = NoTurn
         \/ current_turn' = turn_counter + 1
         \/ state' = "AgentSpeaking",
         turn_counter' \in {turn_counter, turn_counter + 1}
  PROVE  QuietStep
BY ReturnSubmits DEF QuietStep

LEMMA TickWords ==
  ASSUME TurnsOK, NEW dt \in TickLengths, OnTick(dt)
  PROVE  WordStep
<1>. USE States DEF TurnsOK, WordStep, Answerable, turnVars
<1>0. CASE Ignored
  BY <1>0, SubmittedLists DEF Ignored, machine, wordVars, QuietStep
<1>1. CASE state \in Timed /\ TimePasses(dt)
  BY <1>1, NoOutputs, SubmittedLists, QuietCalls DEF TimePasses, Timed
<1>2. CASE state = "UserSpeaking" /\ ForceEndpoint
  BY <1>2, NoOutputs, SubmittedLists, QuietCalls DEF ForceEndpoint
<1>3. CASE state = "Listening" /\ EndSession
  BY <1>3, EndSessionWords
<1>4. CASE GiveUpOnTurn
  BY <1>4, NoOutputs, SubmittedLists, QuietCalls DEF GiveUpOnTurn, BackToListening
<1>5. CASE RetractBargeIn
  <2>. DEFINE outs == IF pending_cancel_turn = NoTurn THEN <<>>
                      ELSE <<ResumeSpeaking(pending_cancel_turn)>>
  <2>1. outs \in Seq(Outputs) /\ Submitted(outs) = {}
    <3>1. CASE pending_cancel_turn = NoTurn
      BY <3>1, NoOutputs, SubmittedLists
    <3>2. CASE pending_cancel_turn # NoTurn
      <4>1. /\ ResumeSpeaking(pending_cancel_turn) \in Outputs
            /\ ResumeSpeaking(pending_cancel_turn).kind # "SubmitUtterance"
        BY <3>2, OutputKinds DEF ResumeSpeaking
      <4>. QED  BY <3>2, <4>1, SubmittedLists
    <3>. QED  BY <3>1, <3>2
  <2>2. Return(outs) /\ state' = "AgentSpeaking" /\ turn_counter' = turn_counter
    BY <1>5 DEF RetractBargeIn
  <2>. QED  BY <2>1, <2>2, QuietCalls
<1>. QED  BY <1>0, <1>1, <1>2, <1>3, <1>4, <1>5 DEF OnTick

LEMMA ConfirmWords ==
  ASSUME TurnsOK, NEW next \in State, NEW extra \in Seq(Outputs),
         ConfirmGenuineBargeIn(next, extra)
  PROVE  Submitted(out') = Submitted(extra)
<1>. USE DEF TurnsOK
<1>. DEFINE cancel == CancelIfAny(pending_cancel_turn)
<1>1. cancel \in Seq(Outputs) /\ Submitted(cancel) = {}
  BY SubmittedLists
<1>2. Return(cancel \o extra) /\ state' \in State
  BY DEF ConfirmGenuineBargeIn
<1>. DEFINE outs == cancel \o extra
<1>. HIDE DEF cancel, TurnsOK
<1>3. outs \in Seq(Outputs) /\ Submitted(outs) = Submitted(extra)
  <2>1. outs \in Seq(Outputs) /\ Submitted(outs) = Submitted(cancel) \cup Submitted(extra)
    BY <1>1, SubmittedConcat
  <2>. QED  BY <1>1, <2>1
<1>4. Return(outs)
  BY <1>2
<1>. HIDE DEF outs
<1>. QED  BY <1>2, <1>3, <1>4, ReturnSubmits

LEMMA ControlWords ==
  ASSUME TurnsOK, Control \/ Detectors
  PROVE  WordStep
<1>. USE States DEF TurnsOK, WordStep, Answerable, turnVars
<1>0. CASE Ignored
  BY <1>0, SubmittedLists DEF Ignored, machine, wordVars, QuietStep
<1>1. CASE OnSessionStart
  <2>1. StartCapture \in Outputs /\ StartCapture.kind # "SubmitUtterance"
    BY OutputKinds DEF StartCapture, Plain
  <2>2. <<StartCapture>> \in Seq(Outputs) /\ Submitted(<<StartCapture>>) = {}
    BY <2>1, SubmittedLists
  <2>. QED  BY <1>0, <1>1, <2>2, QuietCalls DEF OnSessionStart
<1>2. CASE OnSessionEnd
  BY <1>0, <1>2, EndSessionWords DEF OnSessionEnd
<1>3. CASE OnSpeechStart
  BY <1>0, <1>3, NoOutputs, SubmittedLists, QuietCalls DEF OnSpeechStart, BeginUserTurn
<1>4. CASE state = "UserSpeaking" /\ Finalize
  BY <1>4, NoOutputs, SubmittedLists, QuietCalls DEF Finalize
<1>5. CASE OnBargeInConfirmed
  <2>1. CASE ~ Ignored
    <3>. DEFINE pause == <<CancelPlayback, FlushOutputBuffer>>
                replay == <<ReplayPreRoll(current_turn')>>
    <3>1. current_turn' = turn_counter + 1 /\ current_turn' \in Turn
          /\ turn_counter' = turn_counter + 1
          /\ state' = "Interrupting"
          /\ Return(<<CancelPlayback, FlushOutputBuffer, ReplayPreRoll(current_turn')>>)
      BY <1>5, <2>1, BoundsAssumption DEF OnBargeInConfirmed, BeginUserTurn
    <3>5. <<CancelPlayback, FlushOutputBuffer, ReplayPreRoll(current_turn')>> = pause \o replay
      OBVIOUS
    <3>2. pause \in Seq(Outputs) /\ Submitted(pause) = {}
      BY SubmittedLists
    <3>3. replay \in Seq(Outputs) /\ Submitted(replay) = {}
      <4>1. /\ ReplayPreRoll(current_turn') \in Outputs
            /\ ReplayPreRoll(current_turn').kind # "SubmitUtterance"
        BY <3>1, OutputKinds DEF ReplayPreRoll
      <4>. QED  BY <4>1, SubmittedLists
    <3>. HIDE DEF pause, replay
    <3>4. pause \o replay \in Seq(Outputs) /\ Submitted(pause \o replay) = {}
      BY <3>2, <3>3, SubmittedConcat
    <3>. QED  BY <3>1, <3>4, <3>5, QuietCalls
  <2>. QED  BY <1>0, <2>1
<1>6. ASSUME NEW outs \in Seq(Outputs), Submitted(outs) = {}, SeizeTurn(outs)
      PROVE  WordStep
  BY <1>6, QuietCalls DEF SeizeTurn, BeginUserTurn
<1>7. CASE OnPttPressed
  <2>1. CASE state = "AgentSpeaking"
    <3>. DEFINE pause == <<CancelPlayback, FlushOutputBuffer>>
                cancel == CancelIfAny(current_turn)
    <3>1. /\ pause \in Seq(Outputs) /\ Submitted(pause) = {}
          /\ cancel \in Seq(Outputs) /\ Submitted(cancel) = {}
      BY SubmittedLists
    <3>2. SeizeTurn(pause \o cancel)
      BY <1>7, <2>1 DEF OnPttPressed
    <3>. HIDE DEF pause, cancel
    <3>3. pause \o cancel \in Seq(Outputs) /\ Submitted(pause \o cancel) = {}
      BY <3>1, SubmittedConcat
    <3>. QED  BY <1>6, <3>2, <3>3
  <2>2. CASE state = "Interrupting"
    <3>1. ConfirmGenuineBargeIn("UserSpeaking", <<>>)
      BY <1>7, <2>2 DEF OnPttPressed
    <3>2. Submitted(out') = {}
      BY <3>1, NoOutputs, SubmittedLists, ConfirmWords
    <3>. QED  BY <2>2, <3>1, <3>2 DEF ConfirmGenuineBargeIn, QuietStep
  <2>3. CASE state \in {"Listening", "Finalizing", "Submitting", "AwaitingAgent"}
    BY <1>6, <1>7, <2>3, NoOutputs, SubmittedLists DEF OnPttPressed
  <2>. QED  BY <1>0, <1>7, <2>1, <2>2, <2>3 DEF OnPttPressed
<1>. QED
  BY <1>0, <1>1, <1>2, <1>3, <1>4, <1>5, <1>7 DEF Control, Detectors, OnSpeechEnd, OnPttReleased

LEMMA ResultWords ==
  ASSUME TurnsOK, NEW t \in 1..turn_counter, Results(t)
  PROVE  WordStep
<1>. USE States DEF TurnsOK, WordStep, Answerable, turnVars
<1>0. CASE Ignored
  BY <1>0, SubmittedLists DEF Ignored, machine, wordVars, QuietStep
<1>1. t \in Turn
  BY BoundsAssumption
<1>2. CASE OnPartialTranscript(t)
  <2>0. /\ <<ShowPartial>> \in Seq(Outputs) /\ Submitted(<<ShowPartial>>) = {}
    <3>1. ShowPartial \in Outputs /\ ShowPartial.kind # "SubmitUtterance"
      BY OutputKinds DEF ShowPartial, Plain
    <3>. QED  BY <3>1, SubmittedLists
  <2>1. CASE state = "Interrupting" /\ ConfirmGenuineBargeIn("UserSpeaking", <<ShowPartial>>)
    <3>1. Submitted(out') = {}
      BY <2>0, <2>1, ConfirmWords
    <3>. QED  BY <2>1, <3>1 DEF ConfirmGenuineBargeIn, QuietStep
  <2>2. CASE state = "UserSpeaking" /\ UNCHANGED machine /\ Return(<<ShowPartial>>)
    BY <2>0, <2>2, QuietCalls DEF machine
  <2>. QED  BY <1>0, <1>2, <2>1, <2>2 DEF OnPartialTranscript
<1>3. ASSUME NEW text \in Text, OnFinalTranscript(t, text)
      PROVE  WordStep
  <2>0. /\ <<SubmitUtterance(t, text)>> \in Seq(Outputs)
        /\ Submitted(<<SubmitUtterance(t, text)>>) = {SubmitUtterance(t, text)}
    <3>1. /\ SubmitUtterance(t, text) \in Outputs
          /\ SubmitUtterance(t, text).kind = "SubmitUtterance"
      BY <1>1, OutputKinds DEF SubmitUtterance
    <3>. QED  BY <3>1, SubmittedLists
  <2>1. CASE /\ IsCurrent(t) /\ state = "Finalizing" /\ state' = "Submitting"
             /\ current_utterance' = text
             /\ UNCHANGED <<turnVars, last_failed_utterance>>
             /\ Return(<<SubmitUtterance(t, text)>>)
    <3>1. Submitted(out') = {SubmitUtterance(t, text)}
      BY <2>0, <2>1, ReturnSubmits
    <3>. QED  BY <2>1, <3>1 DEF IsCurrent, SubmitStep
  <2>2. CASE /\ IsCurrent(t) /\ state = "Interrupting"
             /\ ConfirmGenuineBargeIn("Submitting", <<SubmitUtterance(t, text)>>)
             /\ current_utterance' = text
    <3>1. Submitted(out') = {SubmitUtterance(t, text)}
      BY <2>0, <2>2, ConfirmWords
    <3>. QED  BY <2>2, <3>1 DEF IsCurrent, SubmitStep, ConfirmGenuineBargeIn
  <2>. QED  BY <1>0, <1>3, <2>1, <2>2 DEF OnFinalTranscript, FinalTranscriptIn
<1>4. CASE OnFinalTranscriptRejected(t)
  BY <1>0, <1>4, NoOutputs, SubmittedLists, QuietCalls DEF OnFinalTranscriptRejected, BackToListening
<1>5. CASE OnSubmitSucceeded(t)
  BY <1>0, <1>5, NoOutputs, SubmittedLists, QuietCalls DEF OnSubmitSucceeded
<1>6. CASE OnSubmitFailed(t)
  BY <1>0, <1>6, NoOutputs, SubmittedLists, QuietCalls
  DEF OnSubmitFailed, SubmitFailedKeeping, BackToListening
<1>7. CASE OnAgentTextArrived(t)
  BY <1>0, <1>7, NoOutputs, SubmittedLists, QuietCalls DEF OnAgentTextArrived
<1>8. CASE OnAgentTurnComplete(t) \/ OnPlaybackDrained(t)
  BY <1>0, <1>8, NoOutputs, SubmittedLists, QuietCalls
  DEF OnAgentTurnComplete, OnPlaybackDrained, EndTurnReturnToListening, BackToListening
<1>. QED
  BY <1>2, <1>3, <1>4, <1>5, <1>6, <1>7, <1>8 DEF Results

(* Every call hands over the words of the current turn, or none. *)
LEMMA WordSteps == ASSUME TurnsOK, Next PROVE WordStep
<1>1. CASE PushFrame
  BY <1>1, SubmittedLists DEF PushFrame, wordVars, turnVars, WordStep, QuietStep
<1>. QED
  BY <1>1, TickWords, ControlWords, ResultWords DEF Next, Tick

----------------------------------------------------------------------------
(* What the history knows of the words: those of a turn that has begun, and of
   the current one only once they have been submitted. *)

SentOK ==
  /\ sent \in [Turn -> Text \cup {NoText}]
  /\ \A t \in Turn :
       sent[t] # NoText => t <= turn_counter /\ (t = current_turn => state \in Answerable)

FailureOK ==
  /\ state = "Submitting" =>
       current_utterance \in Text /\ current_utterance = sent[current_turn]
  /\ failed_turn # NoTurn =>
       /\ failed_turn \in Turn
       /\ sent[failed_turn] \in Text
       /\ last_failed_utterance = sent[failed_turn]

LEMMA SentAfterQuiet ==
  ASSUME ObserveTurns, SentOK, Submitted(out') = {}
  PROVE  sent' = sent
<1>1. \A t \in Turn, text \in Text : SubmitUtterance(t, text) \notin OutSet(out')
  BY DEF Submitted, SubmitUtterance
<1>2. \A t \in Turn : {text \in Text : SubmitUtterance(t, text) \in OutSet(out')} = {}
  BY <1>1
<1>. QED  BY <1>2 DEF ObserveTurns, SentOK

LEMMA SentAfterSubmit ==
  ASSUME ObserveTurns, SentOK, NEW u \in Turn, NEW w \in Text,
         Submitted(out') = {SubmitUtterance(u, w)}
  PROVE  sent' = [sent EXCEPT ![u] = w]
<1>1. \A t \in Turn, text \in Text :
        SubmitUtterance(t, text) \in OutSet(out') <=> t = u /\ text = w
  BY DEF Submitted, SubmitUtterance
<1>2. \A t \in Turn : {text \in Text : SubmitUtterance(t, text) \in OutSet(out')}
                       = IF t = u THEN {w} ELSE {}
  BY <1>1
<1>3. (CHOOSE text \in {w} : TRUE) = w
  OBVIOUS
<1>4. sent' = [t \in Turn |-> IF t = u THEN w ELSE sent[t]]
  <2>1. sent' = [t \in Turn |->
                  LET texts == {text \in Text : SubmitUtterance(t, text) \in OutSet(out')}
                  IN IF texts = {} THEN sent[t] ELSE CHOOSE text \in texts : TRUE]
    BY DEF ObserveTurns
  <2>2. \A t \in Turn :
          LET texts == {text \in Text : SubmitUtterance(t, text) \in OutSet(out')}
          IN (IF texts = {} THEN sent[t] ELSE CHOOSE text \in texts : TRUE)
             = IF t = u THEN w ELSE sent[t]
    BY <1>2, <1>3
  <2>. QED  BY <2>1, <2>2
<1>. QED  BY <1>4 DEF SentOK

LEMMA SentStep ==
  ASSUME TurnsOK, TurnsOK', SentOK, ObserveTurns, WordStep
  PROVE  SentOK'
<1>. USE BoundsAssumption, States DEF TurnsOK, TurnStructure
<1>1. CASE QuietStep
  <2>1. sent' = sent
    BY <1>1, SentAfterQuiet DEF QuietStep
  <2>. QED  BY <1>1, <2>1 DEF QuietStep, SentOK, Answerable
<1>2. CASE SubmitStep
  <2>1. PICK text \in Text :
          /\ current_turn \in Turn /\ current_turn' = current_turn /\ state' = "Submitting"
          /\ turn_counter' = turn_counter
          /\ Submitted(out') = {SubmitUtterance(current_turn, text)}
    BY <1>2 DEF SubmitStep
  <2>2. sent' = [sent EXCEPT ![current_turn] = text]
    BY <2>1, SentAfterSubmit
  <2>. QED  BY <2>1, <2>2 DEF SentOK, Answerable
<1>. QED  BY <1>1, <1>2 DEF WordStep

(* The words of the last failure change with a failure, or with the session. *)
FailureStep ==
  \/ UNCHANGED <<failed_turn, last_failed_utterance>>
  \/ failed_turn' = NoTurn /\ state' = "Listening"
  \/ /\ failed_turn' = current_turn
     /\ last_failed_utterance' = current_utterance
     /\ state = "Submitting"
     /\ state' = "Listening"

LEMMA FailureSteps == ASSUME TurnsOK, HNext PROVE FailureStep
<1>. USE DEF FailureStep
<1>0. CASE Ignored /\ failed_turn' = failed_turn
  BY <1>0 DEF Ignored, machine, wordVars
<1>1. CASE HTick
  <2>1. PICK dt \in TickLengths : OnTick(dt) /\ failed_turn' = failed_turn
    BY <1>1 DEF HTick
  <2>. QED
    BY <1>0, <2>1 DEF OnTick, TimePasses, ForceEndpoint, GiveUpOnTurn, RetractBargeIn,
                      EndSession, EndSessionCancelling, wordVars
<1>2. CASE HSessionStart
  BY <1>0, <1>2 DEF HSessionStart, OnSessionStart, Ignored, machine
<1>3. ASSUME NEW t \in 1..turn_counter, HSubmitFailed(t)
      PROVE  FailureStep
  BY <1>0, <1>3
  DEF HSubmitFailed, OnSubmitFailed, SubmitFailedKeeping, IsCurrent, BackToListening,
      Ignored, machine
<1>4. ASSUME NEW t \in 1..turn_counter, HAgentTurnComplete(t)
      PROVE  FailureStep
  BY <1>0, <1>4 DEF HAgentTurnComplete, OnAgentTurnComplete, EndTurnReturnToListening, wordVars
<1>5. CASE HOther
  <2>1. failed_turn' = failed_turn
    BY <1>5 DEF HOther
  <2>2. CASE OnSessionEnd \/ OnPttPressed \/ OnPttReleased \/ Detectors \/ PushFrame
    BY <1>0, <2>1, <2>2
    DEF OnSessionEnd, EndSession, EndSessionCancelling, OnPttPressed, OnPttReleased, SeizeTurn,
        ConfirmGenuineBargeIn, Finalize, Detectors, OnSpeechStart, OnSpeechEnd,
        OnBargeInConfirmed, PushFrame, wordVars
  <2>3. ASSUME NEW t \in 1..turn_counter,
               \/ OnPartialTranscript(t)
               \/ \E text \in Text : OnFinalTranscript(t, text)
               \/ OnFinalTranscriptRejected(t)
               \/ OnSubmitSucceeded(t)
               \/ OnAgentTextArrived(t)
               \/ OnPlaybackDrained(t)
        PROVE  FailureStep
    BY <1>0, <2>1, <2>3
    DEF OnPartialTranscript, OnFinalTranscript, FinalTranscriptIn, ConfirmGenuineBargeIn,
        OnFinalTranscriptRejected, OnSubmitSucceeded, OnAgentTextArrived, OnPlaybackDrained,
        EndTurnReturnToListening, machine, wordVars
  <2>. QED  BY <1>5, <2>2, <2>3 DEF HOther
<1>. QED  BY <1>1, <1>2, <1>3, <1>4, <1>5 DEF HNext

LEMMA FailuresStep ==
  ASSUME TurnsOK, SentOK, FailureOK, ObserveTurns, WordStep, FailureStep
  PROVE  FailureOK'
<1>. USE TextAssumption, BoundsAssumption, States DEF TurnsOK, TurnStructure
<1>1. CASE QuietStep
  <2>1. sent' = sent
    BY <1>1, SentAfterQuiet DEF QuietStep
  <2>. QED  BY <1>1, <2>1 DEF QuietStep, FailureStep, FailureOK
<1>2. CASE SubmitStep
  <2>1. PICK text \in Text :
          /\ current_turn \in Turn /\ current_turn' = current_turn /\ state' = "Submitting"
          /\ state \in {"Finalizing", "Interrupting"}
          /\ current_utterance' = text
          /\ Submitted(out') = {SubmitUtterance(current_turn, text)}
    BY <1>2 DEF SubmitStep
  <2>2. sent' = [sent EXCEPT ![current_turn] = text]
    BY <2>1, SentAfterSubmit
  <2>3. sent[current_turn] = NoText
    BY <2>1 DEF SentOK, Answerable
  <2>4. UNCHANGED <<failed_turn, last_failed_utterance>>
    BY <2>1 DEF FailureStep
  <2>. QED  BY <2>1, <2>2, <2>3, <2>4 DEF FailureOK, SentOK
<1>. QED  BY <1>1, <1>2 DEF WordStep

----------------------------------------------------------------------------
(* The agent's report that a turn is complete. *)

ReportOK ==
  agent_turn_complete /\ state \in {"AgentSpeaking", "Interrupting"} => VoiceTurn \in heard

FinishedOK == \A t \in Turn : fate[t] = "finished" => t \in heard

(* The flag is set while the agent has the floor only by a report on the turn
   whose voice it is, and outlives neither the voice nor the turn. *)
LEMMA ReportSteps ==
  ASSUME TurnsOK, HNext,
         agent_turn_complete', state' \in {"AgentSpeaking", "Interrupting"}
  PROVE  \/ /\ agent_turn_complete /\ state \in {"AgentSpeaking", "Interrupting"}
            /\ VoiceTurn' = VoiceTurn
         \/ VoiceTurn' \in heard'
<1>. USE States DEF TurnsOK, VoiceTurn, turnVars
<1>0. CASE Ignored
  BY <1>0 DEF Ignored, machine
<1>1. CASE HTick
  <2>1. PICK dt \in TickLengths : OnTick(dt)
    BY <1>1 DEF HTick
  <2>. QED
    BY <1>0, <2>1 DEF OnTick, TimePasses, ForceEndpoint, GiveUpOnTurn, RetractBargeIn,
                      BackToListening, EndSession, EndSessionCancelling
<1>2. CASE HSessionStart
  BY <1>0, <1>2 DEF HSessionStart, OnSessionStart
<1>3. ASSUME NEW t \in 1..turn_counter, HSubmitFailed(t)
      PROVE  state = state'
  BY <1>3 DEF HSubmitFailed, OnSubmitFailed, SubmitFailedKeeping, BackToListening, Ignored, machine
<1>4. ASSUME NEW t \in 1..turn_counter, HSubmitFailed(t)
      PROVE  Ignored
  BY <1>3, <1>4 DEF HSubmitFailed, OnSubmitFailed, SubmitFailedKeeping, BackToListening
<1>5. ASSUME NEW t \in 1..turn_counter, HAgentTurnComplete(t), ~ Ignored
      PROVE  VoiceTurn' \in heard'
  BY <1>5 DEF HAgentTurnComplete, OnAgentTurnComplete, EndTurnReturnToListening, BackToListening,
              IsCurrent
<1>6. CASE HOther
  <2>1. CASE OnSessionEnd \/ OnPttPressed \/ OnPttReleased \/ Detectors \/ PushFrame
    BY <1>0, <2>1
    DEF OnSessionEnd, EndSession, EndSessionCancelling, OnPttPressed, OnPttReleased, SeizeTurn,
        ConfirmGenuineBargeIn, Finalize, Detectors, OnSpeechStart, OnSpeechEnd,
        OnBargeInConfirmed, PushFrame
  <2>2. ASSUME NEW t \in 1..turn_counter,
               \/ OnPartialTranscript(t)
               \/ \E text \in Text : OnFinalTranscript(t, text)
               \/ OnFinalTranscriptRejected(t)
               \/ OnSubmitSucceeded(t)
               \/ OnAgentTextArrived(t)
               \/ OnPlaybackDrained(t)
        PROVE  Ignored
    BY <2>2
    DEF OnPartialTranscript, OnFinalTranscript, FinalTranscriptIn, ConfirmGenuineBargeIn,
        OnFinalTranscriptRejected, OnSubmitSucceeded, OnAgentTextArrived, OnPlaybackDrained,
        EndTurnReturnToListening, BackToListening, machine
  <2>. QED  BY <1>0, <1>6, <2>1, <2>2 DEF HOther
<1>. QED  BY <1>0, <1>1, <1>2, <1>4, <1>5, <1>6 DEF HNext

(* Only a drained buffer takes the agent from its speech to the end of its turn,
   and only when the agent is complete. *)
LEMMA DrainNeedsReport ==
  ASSUME Next, state = "AgentSpeaking", state' = "Listening"
  PROVE  agent_turn_complete
<1>1. ~ PushFrame /\ ~ Control /\ ~ Detectors /\ ~ Ignored
  BY DEF PushFrame, Control, Detectors, OnSessionStart, OnSessionEnd, EndSession,
         EndSessionCancelling, OnPttPressed, OnPttReleased, SeizeTurn, OnSpeechStart, OnSpeechEnd,
         OnBargeInConfirmed, Ignored, machine
<1>2. ASSUME NEW dt \in TickLengths, OnTick(dt)
      PROVE  FALSE
  BY <1>1, <1>2 DEF OnTick, TimePasses, Timed
<1>3. ASSUME NEW t \in 1..turn_counter, Results(t)
      PROVE  agent_turn_complete
  BY <1>1, <1>3
  DEF Results, OnPartialTranscript, OnFinalTranscript, FinalTranscriptIn,
      OnFinalTranscriptRejected, OnSubmitSucceeded, OnSubmitFailed, SubmitFailedKeeping,
      OnAgentTextArrived, OnAgentTurnComplete, OnPlaybackDrained
<1>. QED  BY <1>1, <1>2, <1>3 DEF Next, Tick

LEMMA HeardGrows == HNext => heard \subseteq heard'
BY DEF HNext, HTick, HSessionStart, HOther, HSubmitFailed, HAgentTurnComplete

LEMMA FinishedStep ==
  ASSUME TurnsOK, ReportOK, FinishedOK, HNext
  PROVE  FinishedOK'
<1>1. Next /\ ObserveTurns
  BY ObservedSteps
<1>. SUFFICES ASSUME NEW t \in Turn, fate'[t] = "finished" PROVE t \in heard'
  BY DEF FinishedOK
<1>2. CASE fate'[t] = fate[t]
  BY <1>2, HeardGrows DEF FinishedOK
<1>3. CASE t \in Live \ Live' /\ state = "AgentSpeaking" /\ state' = "Listening"
  <2>1. agent_turn_complete
    BY <1>1, <1>3, DrainNeedsReport
  <2>2. t = current_turn /\ VoiceTurn = current_turn
    BY <1>3 DEF Live, VoiceTurn, TurnsOK, TurnStructure
  <2>. QED  BY <1>3, <2>1, <2>2, HeardGrows DEF ReportOK
<1>. QED
  BY <1>1, <1>2, <1>3, FateOfTurns

LEMMA ReportStep ==
  ASSUME TurnsOK, ReportOK, HNext
  PROVE  ReportOK'
BY ReportSteps, HeardGrows DEF ReportOK

----------------------------------------------------------------------------

WordsInv == TurnsOK /\ SentOK /\ FailureOK /\ ReportOK /\ FinishedOK

LEMMA WordsInvInit == HInit => WordsInv
<1>. SUFFICES ASSUME HInit PROVE WordsInv
  OBVIOUS
<1>1. TurnsOK
  BY InitTurns DEF HInit
<1>2. SentOK /\ FailureOK /\ ReportOK /\ FinishedOK
  BY DEF HInit, Init, SentOK, FailureOK, ReportOK, FinishedOK
<1>. QED  BY <1>1, <1>2 DEF WordsInv

LEMMA WordsInvStep == ASSUME WordsInv, [HNext]_hvars PROVE WordsInv'
<1>1. CASE HNext
  <2>1. Next /\ ObserveTurns
    BY <1>1, ObservedSteps
  <2>2. TurnsOK' /\ WordStep /\ FailureStep
    BY <1>1, <2>1, TurnsStep, WordSteps, FailureSteps DEF WordsInv
  <2>3. SentOK' /\ FailureOK' /\ ReportOK' /\ FinishedOK'
    BY <1>1, <2>1, <2>2, SentStep, FailuresStep, ReportStep, FinishedStep DEF WordsInv
  <2>. QED  BY <2>2, <2>3 DEF WordsInv
<1>2. CASE UNCHANGED hvars
  <2>1. UNCHANGED <<vars, fate, sent, failed_turn, heard>>
    BY <1>2 DEF hvars, history
  <2>. QED
    BY <2>1, TurnsStep
    DEF WordsInv, SentOK, FailureOK, ReportOK, FinishedOK, VoiceTurn, vars, machine, turnVars,
        wordVars
<1>. QED  BY <1>1, <1>2

(* Whatever is answered, fails, times out or is interrupted, and in whatever
   order: the words of a submission are there until it is answered, and those
   of the last failure are the ones it was asked with. *)
THEOREM WordsSurvive == HSpec => []WordsAreKept
<1>1. WordsInv => WordsAreKept
  BY TextAssumption DEF WordsInv, FailureOK, WordsAreKept
<1>. QED
  BY <1>1, WordsInvInit, WordsInvStep, PTL DEF HSpec

(* The agent's turn never plays out before the agent itself said of that very
   turn that it is complete, however many were interrupted before it. *)
THEOREM EndsAreReported == HSpec => []NoPrematureEnd
<1>1. WordsInv => NoPrematureEnd
  BY DEF WordsInv, FinishedOK, NoPrematureEnd
<1>. QED
  BY <1>1, WordsInvInit, WordsInvStep, PTL DEF HSpec

(* A second final transcript, a late one or one of an abandoned turn never
   submits words again. *)
THEOREM WordsGoOnce == HSpec => SubmittedOnce
<1>1. ASSUME WordsInv, HNext, NEW t \in Turn, NEW text \in Text,
             SubmitUtterance(t, text) \in OutSet(out')
      PROVE  sent[t] = NoText
  <2>1. WordStep
    BY <1>1, ObservedSteps, WordSteps DEF WordsInv
  <2>2. SubmitUtterance(t, text) \in Submitted(out')
    BY <1>1 DEF Submitted, SubmitUtterance
  <2>3. SubmitStep
    BY <2>1, <2>2 DEF WordStep, QuietStep
  <2>4. PICK words \in Text : SubmitUtterance(t, text) = SubmitUtterance(current_turn, words)
    BY <2>2, <2>3 DEF SubmitStep
  <2>5. t = current_turn
    BY <2>4 DEF SubmitUtterance
  <2>. QED  BY <1>1, <2>3, <2>5 DEF SubmitStep, WordsInv, SentOK, Answerable
<1>2. WordsInv /\ [HNext]_hvars =>
        [\A t \in Turn, text \in Text :
           SubmitUtterance(t, text) \in OutSet(out') => sent[t] = NoText]_hvars
  BY <1>1
<1>. QED
  BY <1>2, WordsInvInit, WordsInvStep, PTL DEF HSpec, SubmittedOnce
----------------------------------------------------------------------------
(* What the detectors are between two calls. *)
EndpointDetectors == [phase : {"Silence", "Confirming", "Active", "Hangover"}, frames : Nat]
BargeInDetectors ==
  [voiced : Seq(BOOLEAN), shapes : Seq(Shape), active : BOOLEAN, silent : Nat, warmup : Nat]

(* While the agent speaks, the strict detector waits for a confirmation, and
   holds no more shapes than frames were voiced without a break. *)
StrictOK ==
  /\ bargein \in BargeInDetectors /\ run \in Nat
  /\ Len(bargein.shapes) <= ConfirmWindow
  /\ state = "AgentSpeaking" => ~ bargein.active /\ Len(bargein.shapes) <= run

(* In Listening the permissive one waits for speech; in a turn opened by the
   voice it has heard it, and counts the silence since. *)
PermissiveOK ==
  /\ endpoint \in EndpointDetectors /\ quiet \in Nat
  /\ state = "Listening" => endpoint.phase \in {"Silence", "Confirming"}
  /\ state = "UserSpeaking" /\ opening = "voice" =>
       /\ endpoint.phase \in {"Active", "Hangover"}
       /\ endpoint.phase = "Active" => quiet = 0 /\ endpoint.frames = 0
       /\ endpoint.phase = "Hangover" => quiet = endpoint.frames /\ quiet < SilenceNeeded

DetectionInv == TurnsOK /\ StrictOK /\ PermissiveOK

LEMMA DetectionInitInv == DetectionInit => DetectionInv
<1>. SUFFICES ASSUME DetectionInit PROVE DetectionInv
  OBVIOUS
<1>1. TurnsOK
  BY InitTurns DEF DetectionInit
<1>2. StrictOK
  BY DetectorAssumption DEF DetectionInit, StrictOK, BargeInReset, BargeInDetectors, Init
<1>3. PermissiveOK
  BY DEF DetectionInit, PermissiveOK, EndpointReset, InPhase, EndpointDetectors, Init
<1>. QED  BY <1>1, <1>2, <1>3 DEF DetectionInv

(* Every step of the composition is a step of the session machine. *)
LEMMA IgnoredIsAStep == Ignored => Next
BY DEF Next, Detectors, OnSpeechStart, OnBargeInConfirmed

LEMMA DetectionStepsMachine == [DetectionNext]_allVars => [Next]_vars
<1>1. CASE FrameArrives
  <2>1. CASE PushFrame
    BY <2>1 DEF Next
  <2>2. CASE UNCHANGED machine /\ out' = <<>>
    BY <2>2, IgnoredIsAStep DEF Ignored
  <2>. QED  BY <1>1, <2>1, <2>2 DEF FrameArrives
<1>2. CASE FrameHeard
  <2>1. OnBargeInConfirmed \/ OnSpeechStart \/ OnSpeechEnd \/ Ignored
    BY <1>2 DEF FrameHeard, FrameToBargeIn, FrameToEndpoint, FrameToNobody
  <2>. QED  BY <2>1, IgnoredIsAStep DEF Next, Detectors
<1>3. CASE OtherInput
  BY <1>3 DEF OtherInput, Next
<1>4. CASE UNCHANGED allVars
  BY <1>4 DEF allVars
<1>. QED  BY <1>1, <1>2, <1>3, <1>4 DEF DetectionNext

(* The agent starts or resumes speaking only in ways the detectors hear of. *)
LEMMA SpeakingIsAnnounced ==
  ASSUME TurnsOK, Tick \/ Control \/ \E t \in 1..turn_counter : Results(t),
         state' = "AgentSpeaking", state # "AgentSpeaking"
  PROVE  SpeechResumes
<1>1. CASE state = "AwaitingAgent"
  BY <1>1 DEF SpeechResumes, Becomes
<1>2. CASE state # "AwaitingAgent"
  <2>1. ~ Ignored
    BY DEF Ignored, machine
  <2>2. ~ Control
    BY <2>1 DEF Control, OnSessionStart, OnSessionEnd, EndSession, EndSessionCancelling,
       OnPttPressed, OnPttReleased, SeizeTurn, ConfirmGenuineBargeIn, Finalize
  <2>3. ASSUME NEW t \in 1..turn_counter, Results(t)
        PROVE  FALSE
    BY <2>1, <2>3, <1>2 DEF Results, OnPartialTranscript, OnFinalTranscript, FinalTranscriptIn,
       OnFinalTranscriptRejected, OnSubmitSucceeded, OnSubmitFailed, SubmitFailedKeeping,
       OnAgentTextArrived, OnAgentTurnComplete, OnPlaybackDrained, EndTurnReturnToListening,
       BackToListening, ConfirmGenuineBargeIn, machine
  <2>4. PICK dt \in TickLengths : OnTick(dt)
    BY <2>2, <2>3 DEF Tick
  <2>5. state = "Interrupting" /\ RetractBargeIn
    BY <2>1, <2>4 DEF OnTick, TimePasses, EndSession, EndSessionCancelling, ForceEndpoint,
       GiveUpOnTurn, BackToListening
  <2>6. pending_cancel_turn # NoTurn
    BY <2>5 DEF TurnsOK, TurnStructure
  <2>7. out' = <<ResumeSpeaking(pending_cancel_turn)>> \o <<EmitState("AgentSpeaking")>>
    BY <2>5, <2>6 DEF RetractBargeIn, Return
  <2>8. Len(out') = 2 /\ out'[1] = ResumeSpeaking(pending_cancel_turn)
    BY <2>7
  <2>9. out'[1].kind = "ResumeSpeaking" /\ 1 \in 1..Len(out')
    BY <2>8 DEF ResumeSpeaking
  <2>. QED  BY <2>9 DEF SpeechResumes
<1>. QED  BY <1>1, <1>2

----------------------------------------------------------------------------
(* The strict detector. *)
LEMMA HeardStrictly ==
  ASSUME NEW d \in BargeInDetectors, NEW f \in Frames, Len(d.shapes) <= ConfirmWindow
  PROVE  LET h == BargeInHears(d, f)
         IN  /\ h.detector \in BargeInDetectors
             /\ Len(h.detector.shapes) <= ConfirmWindow
             /\ Len(h.detector.shapes) <= IF f.voiced THEN Len(d.shapes) + 1 ELSE 0
             /\ h.event = "SpeechStart" => Len(h.detector.shapes) >= ConfirmWindow
             /\ ~ d.active /\ h.event # "SpeechStart" => ~ h.detector.active
<1>. DEFINE h == HearBargeIn(d, f)
            silent == IF f.voiced THEN 0 ELSE d.silent + 1
            kept == IF Len(d.shapes) >= ConfirmWindow THEN Tail(d.shapes) ELSE d.shapes
            shapes == IF f.voiced THEN Append(kept, f.shape) ELSE <<>>
<1>1. /\ ConfirmWindow \in Nat \ {0} /\ WarmupFrames \in Nat
      /\ f.voiced \in BOOLEAN /\ f.shape \in Shape
      /\ d.voiced \in Seq(BOOLEAN) /\ d.shapes \in Seq(Shape) /\ d.active \in BOOLEAN
      /\ d.silent \in Nat /\ d.warmup \in Nat
  BY DetectorAssumption DEF Frames, BargeInDetectors
<1>2. /\ shapes \in Seq(Shape) /\ Len(shapes) <= ConfirmWindow
      /\ Len(shapes) <= IF f.voiced THEN Len(d.shapes) + 1 ELSE 0
  <2>. DEFINE q == d.shapes
  <2>1. q \in Seq(Shape) /\ Len(q) \in Nat /\ Len(q) <= ConfirmWindow
    BY <1>1
  <2>. HIDE DEF q
  <2>2. CASE Len(q) >= ConfirmWindow
    <3>1. kept = Tail(q) /\ q # <<>>
      BY <2>1, <2>2, <1>1 DEF q
    <3>. HIDE DEF kept
    <3>2. kept \in Seq(Shape) /\ Len(kept) = Len(q) - 1
      BY <3>1, <2>1
    <3>3. Append(kept, f.shape) \in Seq(Shape) /\ Len(Append(kept, f.shape)) = Len(kept) + 1
      BY <3>2, <1>1
    <3>. QED  BY <3>2, <3>3, <2>1, <1>1 DEF q
  <2>3. CASE ~ (Len(q) >= ConfirmWindow)
    <3>1. kept = q
      BY <2>3 DEF q
    <3>. HIDE DEF kept
    <3>2. Append(kept, f.shape) \in Seq(Shape) /\ Len(Append(kept, f.shape)) = Len(q) + 1
      BY <3>1, <2>1, <1>1
    <3>. QED  BY <3>2, <2>1, <2>3, <1>1 DEF q
  <2>. QED  BY <2>2, <2>3
<1>3. PushCapped(d.voiced, f.voiced) \in Seq(BOOLEAN)
  <2>. DEFINE q == d.voiced
  <2>1. q \in Seq(BOOLEAN) /\ Len(q) \in Nat /\ (Len(q) >= ConfirmWindow => q # <<>>)
    BY <1>1
  <2>. HIDE DEF q
  <2>2. q # <<>> => Tail(q) \in Seq(BOOLEAN)
    BY <2>1
  <2>. QED  BY <2>1, <2>2, <1>1 DEF PushCapped, q
<1>4. h = [d EXCEPT !.warmup = IF d.warmup > 0 THEN d.warmup - 1 ELSE 0,
                    !.voiced = PushCapped(d.voiced, f.voiced), !.shapes = shapes]
  BY DEF HearBargeIn, PushCapped
<1>. HIDE DEF shapes, h
<1>5. (IF d.warmup > 0 THEN d.warmup - 1 ELSE 0) \in Nat
  BY <1>1
<1>6. h \in BargeInDetectors /\ h.shapes = shapes /\ h.active = d.active
  BY <1>3, <1>2, <1>4, <1>5 DEF BargeInDetectors
<1>7. silent \in Nat
  BY <1>1
<1>. HIDE DEF silent
<1>8. \/ BargeInHears(d, f) = Heard([h EXCEPT !.silent = silent], "SpeechContinue") /\ d.active
      \/ BargeInHears(d, f) = Heard([h EXCEPT !.active = FALSE, !.silent = 0], "SpeechEnd")
      \/ /\ BargeInHears(d, f) = Heard([h EXCEPT !.active = TRUE, !.silent = 0], "SpeechStart")
         /\ Len(h.shapes) >= ConfirmWindow
      \/ BargeInHears(d, f) = Heard(h, "Idle")
  BY <1>1, <1>7 DEF BargeInHears, SpectralVariation, h, silent
<1>9. /\ [h EXCEPT !.silent = silent] \in BargeInDetectors
      /\ [h EXCEPT !.active = FALSE, !.silent = 0] \in BargeInDetectors
      /\ [h EXCEPT !.active = TRUE, !.silent = 0] \in BargeInDetectors
      /\ [h EXCEPT !.silent = silent].shapes = shapes
      /\ [h EXCEPT !.active = FALSE, !.silent = 0].shapes = shapes
      /\ [h EXCEPT !.active = TRUE, !.silent = 0].shapes = shapes
      /\ ~ [h EXCEPT !.active = FALSE, !.silent = 0].active
  BY <1>6, <1>7 DEF BargeInDetectors
<1>. DEFINE b == BargeInHears(d, f)
<1>. HIDE DEF b
<1>10. /\ b.detector \in BargeInDetectors /\ b.detector.shapes = shapes
       /\ b.event = "SpeechStart" => Len(shapes) >= ConfirmWindow
       /\ ~ d.active /\ b.event # "SpeechStart" => ~ b.detector.active
  <2>1. CASE b = Heard([h EXCEPT !.silent = silent], "SpeechContinue") /\ d.active
    BY <2>1, <1>9 DEF Heard
  <2>2. CASE b = Heard([h EXCEPT !.active = FALSE, !.silent = 0], "SpeechEnd")
    BY <2>2, <1>9 DEF Heard
  <2>3. CASE /\ b = Heard([h EXCEPT !.active = TRUE, !.silent = 0], "SpeechStart")
             /\ Len(h.shapes) >= ConfirmWindow
    BY <2>3, <1>6, <1>9 DEF Heard
  <2>4. CASE b = Heard(h, "Idle")
    BY <2>4, <1>6 DEF Heard
  <2>. QED  BY <2>1, <2>2, <2>3, <2>4, <1>8 DEF b
<1>. QED  BY <1>2, <1>10, Zenon DEF b

LEMMA StrictStep ==
  ASSUME TurnsOK, StrictOK, [DetectionNext]_allVars
  PROVE  /\ StrictOK'
         /\ state = "AgentSpeaking" /\ state' = "Interrupting" /\ ~ UNCHANGED allVars
              => run' >= ConfirmWindow \/ ~ FrameHeard
<1>. DEFINE cap == ConfirmWindow + MinVoicedFrames
<1>1. /\ bargein \in BargeInDetectors /\ run \in Nat /\ Len(bargein.shapes) <= ConfirmWindow
      /\ state = "AgentSpeaking" => ~ bargein.active /\ Len(bargein.shapes) <= run
      /\ ConfirmWindow \in Nat \ {0} /\ cap \in Nat /\ WarmupFrames \in Nat /\ ConfirmWindow <= cap
  BY DetectorAssumption DEF StrictOK
<1>2. /\ BargeInReset \in BargeInDetectors /\ Len(BargeInReset.shapes) = 0 /\ ~ BargeInReset.active
  BY DEF BargeInReset, BargeInDetectors
<1>3. ASSUME NEW d \in BargeInDetectors, Len(d.shapes) <= ConfirmWindow
      PROVE  /\ PlaybackStopped(d) \in BargeInDetectors
             /\ PlaybackStopped(d).shapes = d.shapes /\ PlaybackStopped(d).active = d.active
  BY <1>3 DEF PlaybackStopped, BargeInDetectors
<1>4. CASE UNCHANGED << bargein, run, state >>
  BY <1>4, <1>1 DEF StrictOK
<1>5. ASSUME NEW f \in Frames, FrameToBargeIn(f)
      PROVE  /\ StrictOK'
             /\ state = "AgentSpeaking" /\ state' = "Interrupting" => run' >= ConfirmWindow
  <2>. DEFINE h == BargeInHears(bargein, f)  d == h.detector
  <2>1. state = "AgentSpeaking"
    BY <1>5, States, TurnsOK DEF FrameToBargeIn, ListenersOf, TurnsOK
  <2>2. /\ d \in BargeInDetectors /\ Len(d.shapes) <= ConfirmWindow
        /\ Len(d.shapes) <= IF f.voiced THEN Len(bargein.shapes) + 1 ELSE 0
        /\ h.event = "SpeechStart" => Len(d.shapes) >= ConfirmWindow
        /\ h.event # "SpeechStart" => ~ d.active
    BY <1>1, <2>1, HeardStrictly
  <2>3. /\ IF h.event = "SpeechStart" THEN OnBargeInConfirmed ELSE Ignored
        /\ BargeInFollows(d)
        /\ run' = IF f.voiced THEN CountUpTo(cap, run) ELSE 0
    BY <1>5 DEF FrameToBargeIn, ObserveFrame
  <2>. HIDE DEF h, d
  <2>4. Len(d.shapes) \in Nat /\ Len(bargein.shapes) \in Nat
    BY <2>2, <1>1 DEF BargeInDetectors
  <2>5. run' \in Nat /\ Len(d.shapes) <= run'
    <3>1. CASE f.voiced
      <4>1. run' = IF run < cap THEN run + 1 ELSE run
        BY <2>3, <3>1 DEF CountUpTo
      <4>2. Len(d.shapes) <= run + 1 /\ Len(d.shapes) <= cap
        BY <2>1, <2>2, <2>4, <3>1, <1>1
      <4>. HIDE DEF cap
      <4>. QED  BY <4>1, <4>2, <1>1, <2>4
    <3>2. CASE ~ f.voiced
      BY <2>2, <2>3, <2>4, <3>2
    <3>. QED  BY <3>1, <3>2
  <2>6. CASE h.event = "SpeechStart"
    <3>1. state' = "Interrupting"
      BY <2>1, <2>3, <2>6 DEF OnBargeInConfirmed
    <3>2. bargein' \in BargeInDetectors /\ Len(bargein'.shapes) <= ConfirmWindow
      BY <2>2, <2>3, <3>1, <1>2, <1>3, <1>1 DEF BargeInFollows
    <3>. QED  BY <2>2, <2>4, <2>5, <2>6, <3>1, <3>2, <1>1 DEF StrictOK
  <2>7. CASE h.event # "SpeechStart"
    <3>1. state' = state
      BY <2>3, <2>7 DEF Ignored, machine
    <3>2. bargein' = d \/ bargein' = BargeInReset
      BY <2>3, <3>1 DEF BargeInFollows, Becomes
    <3>. QED  BY <2>1, <2>2, <2>5, <2>7, <3>1, <3>2, <1>1, <1>2 DEF StrictOK
  <2>. QED  BY <2>6, <2>7
<1>6. ASSUME NEW f \in Frames, FrameToEndpoint(f)
      PROVE  StrictOK' /\ state # "AgentSpeaking"
  <2>1. state \in {"Listening", "UserSpeaking"}
    BY <1>6, States DEF FrameToEndpoint, ListenersOf, TurnsOK
  <2>2. OnSpeechStart \/ OnSpeechEnd \/ Ignored
    BY <1>6 DEF FrameToEndpoint
  <2>3. state' # "AgentSpeaking"
    BY <2>1, <2>2 DEF OnSpeechStart, OnSpeechEnd, Finalize, Ignored, machine
  <2>4. BargeInFollows(bargein) /\ run' = IF f.voiced THEN CountUpTo(cap, run) ELSE 0
    BY <1>6 DEF FrameToEndpoint, ObserveFrame
  <2>5. run' \in Nat
    BY <2>4, <1>1 DEF CountUpTo
  <2>6. bargein' \in BargeInDetectors /\ Len(bargein'.shapes) <= ConfirmWindow
    BY <2>4, <1>1, <1>2, <1>3 DEF BargeInFollows
  <2>. QED  BY <2>1, <2>3, <2>5, <2>6 DEF StrictOK
<1>7. CASE FrameToNobody
  <2>1. UNCHANGED << bargein, run, state >>
    BY <1>7 DEF FrameToNobody, observed, Ignored, machine
  <2>. QED  BY <2>1, <1>4
<1>8. CASE FrameArrives
  <2>1. UNCHANGED << bargein, run, state >>
    BY <1>8 DEF FrameArrives, observed, PushFrame, machine
  <2>. QED  BY <2>1, <1>4
<1>9. CASE OtherInput
  <2>1. /\ Tick \/ Control \/ \E t \in 1..turn_counter : Results(t)
        /\ BargeInFollows(bargein)
        /\ run' = IF SpeechResumes \/ Becomes("Listening") THEN 0 ELSE run
    BY <1>9 DEF OtherInput, ObserveInput
  <2>2. run' \in Nat /\ (run' = 0 \/ run' = run)
    BY <2>1, <1>1
  <2>3. bargein' \in BargeInDetectors /\ Len(bargein'.shapes) <= ConfirmWindow
    BY <2>1, <1>1, <1>2, <1>3 DEF BargeInFollows
  <2>4. ASSUME state' = "AgentSpeaking"
        PROVE  ~ bargein'.active /\ Len(bargein'.shapes) <= run'
    <3>1. CASE SpeechResumes
      BY <2>1, <3>1, <1>2, <2>2 DEF BargeInFollows
    <3>2. CASE ~ SpeechResumes
      <4>1. state = "AgentSpeaking"
        BY <2>1, <2>4, <3>2, SpeakingIsAnnounced
      <4>2. bargein' = bargein /\ run' = run
        BY <2>1, <2>4, <3>2 DEF BargeInFollows, Becomes
      <4>. QED  BY <4>1, <4>2, <1>1
    <3>. QED  BY <3>1, <3>2
  <2>5. ~ FrameHeard
    BY <1>9 DEF OtherInput, FrameHeard
  <2>. QED  BY <2>2, <2>3, <2>4, <2>5 DEF StrictOK
<1>10. CASE FrameHeard
  <2>1. CASE FrameToNobody
    <3>1. state' = state
      BY <2>1 DEF FrameToNobody, Ignored, machine
    <3>. QED  BY <2>1, <3>1, <1>7
  <2>. QED  BY <2>1, <1>5, <1>6, <1>10 DEF FrameHeard
<1>11. CASE UNCHANGED allVars
  BY <1>11, <1>4 DEF allVars, vars, machine, detectors, observed
<1>. QED  BY <1>8, <1>9, <1>10, <1>11 DEF DetectionNext

(* Only the strict detector interrupts the agent. *)
LEMMA OnlyHeardInterrupts ==
  ASSUME state = "AgentSpeaking", state' = "Interrupting", [DetectionNext]_allVars
  PROVE  FrameHeard
<1>1. ~ Ignored /\ state' # state
  BY DEF Ignored, machine
<1>2. ~ FrameArrives
  BY <1>1 DEF FrameArrives, PushFrame, machine
<1>3. ~ UNCHANGED allVars
  BY <1>1 DEF allVars, vars, machine
<1>4. ASSUME OtherInput
      PROVE  FALSE
  <2>1. ~ Control
    BY <1>1 DEF Control, OnSessionStart, OnSessionEnd, EndSession, EndSessionCancelling,
       OnPttPressed, OnPttReleased, SeizeTurn, ConfirmGenuineBargeIn, Finalize
  <2>2. ~ Tick
    BY <1>1 DEF Tick, OnTick, Timed, TimePasses
  <2>3. ASSUME NEW t \in 1..turn_counter, Results(t)
        PROVE  FALSE
    BY <1>1, <2>3 DEF Results, OnPartialTranscript, OnFinalTranscript, FinalTranscriptIn,
       OnFinalTranscriptRejected, OnSubmitSucceeded, OnSubmitFailed, SubmitFailedKeeping,
       OnAgentTextArrived, OnAgentTurnComplete, OnPlaybackDrained, EndTurnReturnToListening,
       BackToListening, machine
  <2>. QED  BY <2>1, <2>2, <2>3, <1>4 DEF OtherInput
<1>. QED  BY <1>2, <1>3, <1>4 DEF DetectionNext

(* The permissive detector. *)
LEMMA HeardPermissively ==
  ASSUME NEW d \in EndpointDetectors, NEW f \in Frames
  PROVE  LET h == EndpointHears(d, f)
         IN  /\ h.detector \in EndpointDetectors
             /\ d.phase \in {"Silence", "Confirming"} =>
                  IF h.event = "SpeechStart"
                    THEN h.detector.phase = "Active" /\ h.detector.frames = 0
                    ELSE h.detector.phase \in {"Silence", "Confirming"} /\ h.event = "Idle"
             /\ d.phase \in {"Active", "Hangover"} =>
                  IF f.voiced
                    THEN h.event = "SpeechContinue" /\ h.detector.phase = "Active"
                         /\ h.detector.frames = 0
                    ELSE \/ h.event = "SpeechEnd" /\ d.phase = "Hangover"
                         \/ /\ h.event = "SpeechContinue" /\ h.detector.phase = "Hangover"
                            /\ h.detector.frames = d.frames + 1
                            /\ d.phase = "Hangover" => d.frames + 1 < HangoverFrames
<1>1. /\ d.phase \in {"Silence", "Confirming", "Active", "Hangover"} /\ d.frames \in Nat
      /\ f.voiced \in BOOLEAN /\ MinVoicedFrames \in Nat /\ HangoverFrames \in Nat
  BY DetectorAssumption DEF EndpointDetectors, Frames
<1>. DEFINE h == EndpointHears(d, f)  n == d.frames
<1>2. /\ EndpointReset.phase = "Silence" /\ EndpointReset.frames = 0
      /\ \A p, k : InPhase(p, k).phase = p /\ InPhase(p, k).frames = k
      /\ \A x, e : Heard(x, e).detector = x /\ Heard(x, e).event = e
      /\ EndpointReset \in EndpointDetectors
      /\ \A p \in {"Silence", "Confirming", "Active", "Hangover"} : \A k \in Nat :
            InPhase(p, k) \in EndpointDetectors
  BY DEF EndpointReset, InPhase, Heard, EndpointDetectors
<1>3. CASE d.phase \in {"Silence", "Confirming"} /\ f.voiced
  <2>1. h = Confirm(1) \/ h = Confirm(n + 1)
    BY <1>1, <1>3 DEF EndpointHears, EndpointHearing
  <2>2. \A k \in Nat : \/ Confirm(k) = Heard(InPhase("Active", 0), "SpeechStart")
                       \/ Confirm(k) = Heard(InPhase("Confirming", k), "Idle")
    BY DEF Confirm
  <2>3. PICK k \in Nat : \/ h = Heard(InPhase("Active", 0), "SpeechStart")
                         \/ h = Heard(InPhase("Confirming", k), "Idle")
    BY <2>1, <2>2, <1>1
  <2>. HIDE DEF h
  <2>4. CASE h = Heard(InPhase("Active", 0), "SpeechStart")
    <3>1. h.event = "SpeechStart" /\ h.detector = InPhase("Active", 0)
      BY <2>4, <1>2
    <3>. QED  BY <3>1, <1>2, <1>3 DEF h
  <2>5. CASE h = Heard(InPhase("Confirming", k), "Idle")
    <3>1. h.event = "Idle" /\ h.detector = InPhase("Confirming", k)
      BY <2>5, <1>2
    <3>. QED  BY <3>1, <1>2, <1>3 DEF h
  <2>. QED  BY <2>3, <2>4, <2>5
<1>4. CASE d.phase \in {"Silence", "Confirming"} /\ ~ f.voiced
  <2>1. h = Heard(EndpointReset, "Idle")
    BY <1>4 DEF EndpointHears, EndpointHearing
  <2>. HIDE DEF h
  <2>2. h.event = "Idle" /\ h.detector = EndpointReset
    BY <2>1, <1>2
  <2>. QED  BY <2>2, <1>2, <1>4 DEF h
<1>5. CASE d.phase \in {"Active", "Hangover"} /\ f.voiced
  <2>1. h = Heard(InPhase("Active", 0), "SpeechContinue")
    BY <1>5 DEF EndpointHears, EndpointHearing
  <2>. HIDE DEF h
  <2>2. h.event = "SpeechContinue" /\ h.detector = InPhase("Active", 0)
    BY <2>1, <1>2
  <2>. QED  BY <2>2, <1>2, <1>5 DEF h
<1>6. CASE d.phase = "Hangover" /\ ~ f.voiced /\ n + 1 >= HangoverFrames
  <2>1. h = Heard(EndpointReset, "SpeechEnd")
    BY <1>1, <1>6 DEF EndpointHears, EndpointHearing
  <2>. HIDE DEF h
  <2>2. h.event = "SpeechEnd" /\ h.detector = EndpointReset
    BY <2>1, <1>2
  <2>. QED  BY <2>2, <1>2, <1>6 DEF h
<1>7. CASE d.phase \in {"Active", "Hangover"} /\ ~ f.voiced
           /\ (d.phase = "Hangover" => n + 1 < HangoverFrames)
  <2>1. h = Heard(InPhase("Hangover", n + 1), "SpeechContinue")
    BY <1>1, <1>7 DEF EndpointHears, EndpointHearing
  <2>. HIDE DEF h
  <2>2. h.event = "SpeechContinue" /\ h.detector = InPhase("Hangover", n + 1) /\ n + 1 \in Nat
    BY <2>1, <1>1, <1>2
  <2>. QED  BY <2>2, <1>2, <1>7 DEF h
<1>8. d.phase = "Hangover" => (n + 1 >= HangoverFrames \/ n + 1 < HangoverFrames)
  BY <1>1
<1>. QED  BY <1>1, <1>3, <1>4, <1>5, <1>6, <1>7, <1>8

LEMMA PermissiveStep ==
  ASSUME TurnsOK, PermissiveOK, [DetectionNext]_allVars
  PROVE  PermissiveOK'
<1>1. /\ endpoint \in EndpointDetectors /\ quiet \in Nat
      /\ SilenceNeeded \in Nat /\ SilenceNeeded >= 2 /\ SilenceNeeded >= HangoverFrames
      /\ HangoverFrames \in Nat
  BY DetectorAssumption DEF PermissiveOK, SilenceNeeded
<1>2. /\ EndpointReset \in EndpointDetectors /\ EndpointReset.phase = "Silence"
  BY DEF EndpointReset, InPhase, EndpointDetectors
<1>3. SilenceNeeded' = SilenceNeeded
  BY DEF SilenceNeeded
<1>4. CASE UNCHANGED << endpoint, quiet, opening, state >>
  BY <1>3, <1>4 DEF PermissiveOK
<1>5. ASSUME NEW d \in EndpointDetectors, EndpointFollows(d),
             state' = "Listening" => state # "Listening" \/ d.phase \in {"Silence", "Confirming"}
      PROVE  /\ endpoint' \in EndpointDetectors
             /\ state' = "Listening" => endpoint'.phase \in {"Silence", "Confirming"}
             /\ state' = "UserSpeaking" => endpoint' = d
  BY <1>2, <1>5 DEF EndpointFollows, Becomes
<1>6. ASSUME NEW f \in Frames, FrameToBargeIn(f)
      PROVE  PermissiveOK'
  <2>1. state = "AgentSpeaking"
    BY <1>6, States DEF FrameToBargeIn, ListenersOf, TurnsOK
  <2>2. state' \in {"AgentSpeaking", "Interrupting"}
    BY <1>6, <2>1 DEF FrameToBargeIn, OnBargeInConfirmed, Ignored, machine
  <2>3. EndpointFollows(endpoint) /\ quiet' \in Nat
    BY <1>6, <1>1 DEF FrameToBargeIn, ObserveFrame, CountUpTo
  <2>. QED  BY <2>2, <2>3, <1>1, <1>2, <1>5 DEF PermissiveOK
<1>7. ASSUME NEW f \in Frames, FrameToEndpoint(f), frame_pushed
      PROVE  PermissiveOK'
  <2>. DEFINE h == EndpointHears(endpoint, f)  d == h.detector
  <2>1. state \in {"Listening", "UserSpeaking"}
    BY <1>7, States DEF FrameToEndpoint, ListenersOf, TurnsOK
  <2>2. /\ CASE h.event = "SpeechStart" -> OnSpeechStart
              [] h.event = "SpeechEnd" -> OnSpeechEnd
              [] OTHER -> Ignored
        /\ EndpointFollows(d) /\ Opening
        /\ quiet' = IF Becomes("UserSpeaking") \/ f.voiced THEN 0 ELSE CountUpTo(SilenceNeeded, quiet)
    BY <1>7 DEF FrameToEndpoint, ObserveFrame
  <2>3. /\ d \in EndpointDetectors
        /\ endpoint.phase \in {"Silence", "Confirming"} =>
             IF h.event = "SpeechStart" THEN d.phase = "Active" /\ d.frames = 0
             ELSE d.phase \in {"Silence", "Confirming"} /\ h.event = "Idle"
        /\ endpoint.phase \in {"Active", "Hangover"} =>
             IF f.voiced
               THEN h.event = "SpeechContinue" /\ d.phase = "Active" /\ d.frames = 0
               ELSE \/ h.event = "SpeechEnd" /\ endpoint.phase = "Hangover"
                    \/ /\ h.event = "SpeechContinue" /\ d.phase = "Hangover"
                       /\ d.frames = endpoint.frames + 1
                       /\ endpoint.phase = "Hangover" => endpoint.frames + 1 < HangoverFrames
    BY <1>1, HeardPermissively
  <2>. HIDE DEF h, d
  <2>4. quiet' \in Nat
    BY <2>2, <1>1 DEF CountUpTo
  <2>5. CASE state = "Listening"
    <3>1. endpoint.phase \in {"Silence", "Confirming"}
      BY <2>5 DEF PermissiveOK
    <3>2. CASE h.event = "SpeechStart"
      <4>1. state' = "UserSpeaking" /\ d.phase = "Active" /\ d.frames = 0
        BY <2>2, <2>3, <2>5, <3>1, <3>2 DEF OnSpeechStart
      <4>2. quiet' = 0 /\ endpoint' = d
        BY <2>2, <2>3, <2>5, <4>1, <1>5 DEF Becomes
      <4>. QED  BY <2>3, <2>4, <4>1, <4>2 DEF PermissiveOK
    <3>3. CASE h.event # "SpeechStart"
      <4>1. state' = "Listening" /\ d.phase \in {"Silence", "Confirming"}
        BY <2>2, <2>3, <2>5, <3>1, <3>3 DEF Ignored, machine
      <4>. QED  BY <2>2, <2>3, <2>4, <4>1, <1>5 DEF PermissiveOK
    <3>. QED  BY <3>2, <3>3
  <2>6. CASE state = "UserSpeaking"
    <3>1. state' \in {"UserSpeaking", "Finalizing"}
          /\ (h.event = "SpeechEnd" => state' = "Finalizing")
      BY <2>2, <2>6 DEF OnSpeechStart, OnSpeechEnd, Finalize, Ignored, machine
    <3>2. CASE state' = "Finalizing"
      BY <2>2, <2>3, <2>4, <3>2, <1>5 DEF PermissiveOK
    <3>3. CASE state' = "UserSpeaking" /\ opening' = "voice"
      <4>1. opening = "voice" /\ h.event # "SpeechEnd" /\ endpoint' = d
        BY <2>2, <2>3, <2>6, <3>1, <3>3, <1>5 DEF Opening, Becomes
      <4>2. /\ endpoint.phase \in {"Active", "Hangover"}
            /\ endpoint.phase = "Active" => quiet = 0 /\ endpoint.frames = 0
            /\ endpoint.phase = "Hangover" => quiet = endpoint.frames /\ quiet < SilenceNeeded
        BY <2>6, <4>1 DEF PermissiveOK
      <4>3. quiet' = IF f.voiced THEN 0 ELSE CountUpTo(SilenceNeeded, quiet)
        BY <2>2, <2>6 DEF Becomes
      <4>4. CASE f.voiced
        BY <2>3, <2>4, <3>3, <4>1, <4>2, <4>3, <4>4, <1>3 DEF PermissiveOK
      <4>5. CASE ~ f.voiced
        <5>1. /\ d.phase = "Hangover" /\ d.frames = endpoint.frames + 1
              /\ endpoint.phase = "Hangover" => endpoint.frames + 1 < HangoverFrames
          BY <2>3, <4>1, <4>2, <4>5
        <5>2. quiet = endpoint.frames /\ quiet < SilenceNeeded /\ quiet + 1 < SilenceNeeded
          BY <4>2, <5>1, <1>1
        <5>3. quiet' = quiet + 1
          BY <4>3, <4>5, <5>2 DEF CountUpTo
        <5>. QED  BY <2>3, <2>4, <3>3, <4>1, <5>1, <5>2, <5>3, <1>3 DEF PermissiveOK
      <4>. QED  BY <4>4, <4>5
    <3>4. CASE state' = "UserSpeaking" /\ opening' # "voice"
      BY <2>2, <2>3, <2>4, <2>6, <3>4, <1>5 DEF PermissiveOK
    <3>. QED  BY <3>1, <3>2, <3>3, <3>4
  <2>. QED  BY <2>1, <2>5, <2>6
<1>8. CASE FrameToNobody
  <2>1. UNCHANGED << endpoint, quiet, opening, state >>
    BY <1>8 DEF FrameToNobody, observed, Ignored, machine
  <2>. QED  BY <2>1, <1>4
<1>9. CASE FrameArrives
  <2>1. UNCHANGED << endpoint, quiet, opening, state >>
    BY <1>9 DEF FrameArrives, observed, PushFrame, machine
  <2>. QED  BY <2>1, <1>4
<1>10. CASE OtherInput
  <2>1. /\ EndpointFollows(endpoint) /\ Opening /\ ~ frame_pushed
        /\ quiet' = IF Becomes("UserSpeaking") THEN 0 ELSE quiet
    BY <1>10 DEF OtherInput, ObserveInput
  <2>2. quiet' \in Nat
    BY <2>1, <1>1
  <2>3. /\ endpoint' \in EndpointDetectors
        /\ state' = "Listening" => endpoint'.phase \in {"Silence", "Confirming"}
        /\ state' = "UserSpeaking" => endpoint' = endpoint
    BY <2>1, <1>1, <1>5 DEF PermissiveOK
  <2>4. state' = "UserSpeaking" /\ opening' = "voice" =>
          state = "UserSpeaking" /\ opening = "voice" /\ quiet' = quiet
    BY <2>1 DEF Opening, Becomes
  <2>. QED  BY <2>2, <2>3, <2>4, <1>3 DEF PermissiveOK
<1>11. CASE UNCHANGED allVars
  BY <1>11, <1>4 DEF allVars, vars, machine, detectors, observed
<1>. QED  BY <1>6, <1>7, <1>8, <1>9, <1>10, <1>11 DEF DetectionNext, FrameHeard

LEMMA DetectionInvStep == DetectionInv /\ [DetectionNext]_allVars => DetectionInv'
BY DetectionStepsMachine, TurnsStep, StrictStep, PermissiveStep DEF DetectionInv

(* Neither detector is deaf: the strict one is clear while the agent speaks,
   the permissive one while the session listens, for every window of either
   and whatever the engines and the agent do in between. *)
THEOREM DetectorsListen == DetectionSpec => []NeitherIsDeaf
<1>1. DetectionInv => NeitherIsDeaf
  BY DEF DetectionInv, StrictOK, PermissiveOK, NeitherIsDeaf
<1>. QED  BY <1>1, DetectionInitInv, DetectionInvStep, PTL DEF DetectionSpec

(* A turn opened by the voice is over after SilenceNeeded silent frames in a
   row, for every hangover. *)
THEOREM SilenceEndsTurns == DetectionSpec => []SilenceEndsSpokenTurn
<1>1. DetectionInv => SilenceEndsSpokenTurn
  BY DetectorAssumption DEF DetectionInv, PermissiveOK, SilenceEndsSpokenTurn, SilenceNeeded
<1>. QED  BY <1>1, DetectionInitInv, DetectionInvStep, PTL DEF DetectionSpec

(* The agent is interrupted only by ConfirmWindow voiced frames without a
   break, heard since it last started or resumed. *)
THEOREM InterruptionsAreUnbroken == DetectionSpec => InterruptedByUnbrokenSpeech
<1>1. DetectionInv /\ [DetectionNext]_allVars =>
        [state = "AgentSpeaking" /\ state' = "Interrupting" => run' >= ConfirmWindow]_allVars
  BY StrictStep, OnlyHeardInterrupts DEF DetectionInv
<1>. QED
  BY <1>1, DetectionInitInv, DetectionInvStep, PTL DEF DetectionSpec, InterruptedByUnbrokenSpeech
=============================================================================
