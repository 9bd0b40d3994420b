---------------------------- MODULE SessionProofs ----------------------------
(* Proofs about the session machine, for every bound, window and vocabulary. *)
EXTENDS Session, TLAPS

USE DEF NoTurn, Turn

(* Every timed state has a window of at least one unit of time. *)
LEMMA WindowsPositive == \A s \in Timed : Timeout[s] \in Nat \ {0}
BY TimeAssumption DEF Timeout, Timed

(* What handle returns is a list of outputs. *)
LEMMA ReturnsOutputs ==
  ASSUME NEW outs \in Seq(Outputs), state' \in State, Return(outs)
  PROVE  out' \in Seq(Outputs)
<1>1. <<EmitState(state')>> \in Seq(Outputs)
  BY DEF Outputs, EmitState
<1>2. <<>> \in Seq(Outputs)
  OBVIOUS
<1>. QED
  BY <1>1, <1>2 DEF Return

LEMMA CancelsAreOutputs ==
  ASSUME NEW t \in Turn \cup {NoTurn}
  PROVE  CancelIfAny(t) \in Seq(Outputs)
<1>1. CASE t = NoTurn
  BY <1>1 DEF CancelIfAny
<1>2. CASE t # NoTurn
  <2>1. CancelSynthesis(t) \in Outputs
    BY <1>2 DEF Outputs, CancelSynthesis
  <2>. QED  BY <1>2, <2>1 DEF CancelIfAny
<1>. QED  BY <1>1, <1>2

(* The outputs of the machine are outputs. *)
LEMMA OutputKinds ==
  /\ \A o \in {StartCapture, StopCapture, CancelPlayback, FlushOutputBuffer, ShowPartial} :
       o \in Outputs
  /\ \A t \in Turn : {CancelSynthesis(t), ResumeSpeaking(t), ReplayPreRoll(t)} \subseteq Outputs
  /\ \A t \in Turn, text \in Text : SubmitUtterance(t, text) \in Outputs
BY DEF Outputs, StartCapture, StopCapture, CancelPlayback, FlushOutputBuffer, ShowPartial,
       Plain, CancelSynthesis, ResumeSpeaking, ReplayPreRoll, SubmitUtterance

----------------------------------------------------------------------------
(* Who holds the turn, and in which phase. *)

LEMMA States ==
  State = {"Idle", "Listening", "UserSpeaking", "Finalizing", "Submitting",
           "AwaitingAgent", "AgentSpeaking", "Interrupting"}
BY DEF State, Timed

TurnsOK ==
  /\ state \in State
  /\ current_turn \in Turn \cup {NoTurn}
  /\ pending_cancel_turn \in Turn \cup {NoTurn}
  /\ turn_counter \in 0..MaxTurn
  /\ TurnStructure

LEMMA InitTurns == Init => TurnsOK
BY BoundsAssumption, States DEF Init, TurnsOK, TurnStructure

(* Every call of the machine keeps the turn structure: a turn is begun only
   where none is parked, parked only on entering Interrupting, and dropped
   whenever the machine goes back to Listening or Idle. *)
LEMMA TurnsStep == ASSUME TurnsOK, [Next]_vars PROVE TurnsOK'
<1>. USE BoundsAssumption, States DEF TurnsOK, TurnStructure, turnVars
<1>0. CASE Ignored
  BY <1>0 DEF Ignored, machine
<1>1. CASE OnSessionStart
  BY <1>0, <1>1 DEF OnSessionStart
<1>2. CASE EndSession
  BY <1>2 DEF EndSession, EndSessionCancelling
<1>3. CASE OnSessionEnd
  BY <1>0, <1>2, <1>3 DEF OnSessionEnd
<1>4. CASE OnSpeechStart
  BY <1>0, <1>4 DEF OnSpeechStart, BeginUserTurn
<1>5. CASE state = "UserSpeaking" /\ Finalize
  BY <1>5 DEF Finalize
<1>6. CASE OnSpeechEnd \/ OnPttReleased
  BY <1>0, <1>5, <1>6 DEF OnSpeechEnd, OnPttReleased
<1>7. CASE OnBargeInConfirmed
  BY <1>0, <1>7 DEF OnBargeInConfirmed, BeginUserTurn
<1>8. CASE OnPttPressed
  <2>1. ASSUME NEW outs, SeizeTurn(outs), state # "Interrupting"
        PROVE  TurnsOK'
    BY <2>1 DEF SeizeTurn, BeginUserTurn
  <2>2. CASE state = "Interrupting" /\ ConfirmGenuineBargeIn("UserSpeaking", <<>>)
    BY <2>2 DEF ConfirmGenuineBargeIn
  <2>. QED
    BY <1>0, <1>8, <2>1, <2>2 DEF OnPttPressed
<1>9. ASSUME NEW dt \in TickLengths, OnTick(dt)
      PROVE  TurnsOK'
  <2>1. CASE TimePasses(dt)
    BY <2>1 DEF TimePasses
  <2>2. CASE state = "UserSpeaking" /\ ForceEndpoint
    BY <2>2 DEF ForceEndpoint
  <2>3. CASE state \in {"Finalizing", "AwaitingAgent"} /\ GiveUpOnTurn
    BY <2>3 DEF GiveUpOnTurn, BackToListening
  <2>4. CASE state = "Interrupting" /\ RetractBargeIn
    BY <2>4 DEF RetractBargeIn
  <2>. QED
    BY <1>0, <1>2, <1>9, <2>1, <2>2, <2>3, <2>4 DEF OnTick
<1>10. CASE PushFrame
  BY <1>10 DEF PushFrame
<1>11. ASSUME NEW t \in 1..turn_counter, Results(t)
       PROVE  TurnsOK'
  <2>1. CASE OnPartialTranscript(t)
    BY <1>0, <2>1 DEF OnPartialTranscript, ConfirmGenuineBargeIn, machine
  <2>2. ASSUME NEW text \in Text, OnFinalTranscript(t, text)
        PROVE  TurnsOK'
    BY <1>0, <2>2 DEF OnFinalTranscript, FinalTranscriptIn, ConfirmGenuineBargeIn
  <2>3. CASE OnFinalTranscriptRejected(t)
    BY <1>0, <2>3 DEF OnFinalTranscriptRejected, BackToListening
  <2>4. CASE OnSubmitSucceeded(t)
    BY <1>0, <2>4 DEF OnSubmitSucceeded
  <2>5. CASE OnSubmitFailed(t)
    BY <1>0, <2>5 DEF OnSubmitFailed, SubmitFailedKeeping, BackToListening
  <2>6. CASE OnAgentTextArrived(t)
    BY <1>0, <2>6 DEF OnAgentTextArrived
  <2>7. CASE OnAgentTurnComplete(t)
    BY <1>0, <2>7 DEF OnAgentTurnComplete, EndTurnReturnToListening, BackToListening
  <2>8. CASE OnPlaybackDrained(t)
    BY <1>0, <2>8 DEF OnPlaybackDrained, EndTurnReturnToListening, BackToListening
  <2>. QED
    BY <1>11, <2>1, <2>2, <2>3, <2>4, <2>5, <2>6, <2>7, <2>8 DEF Results
<1>12. CASE UNCHANGED vars
  BY <1>12 DEF vars, machine
<1>. QED
  BY <1>1, <1>3, <1>4, <1>6, <1>7, <1>8, <1>9, <1>10, <1>11, <1>12
  DEF Next, Tick, Control, Detectors

(* Whoever drives the machine, and however late, early or stale the results it
   is fed: the phase and the turns it names always agree. *)
THEOREM TurnsAreStructured == Spec => []TurnStructure
<1>1. TurnsOK => TurnStructure
  BY DEF TurnsOK
<1>. QED
  BY <1>1, InitTurns, TurnsStep, PTL DEF Spec

----------------------------------------------------------------------------
(* Clocks: every step restarts some, leaves all alone, or adds a tick to the
   clock of the current state that does not reach its window. *)

ClocksOK ==
  /\ elapsed \in [Timed -> Nat]
  /\ \A s \in Timed : elapsed[s] < Timeout[s]

ClockStep ==
  \/ \E S \in SUBSET State : elapsed' = Restart(S)
  \/ elapsed' = elapsed
  \/ \E dt \in TickLengths :
       state \in Timed /\ ~ Expired(dt) /\ elapsed' = [elapsed EXCEPT ![state] = @ + dt]

LEMMA ClockSteps == ASSUME state \in State, [Next]_vars PROVE ClockStep
<1>. USE States DEF ClockStep
<1>0. CASE Ignored \/ UNCHANGED vars \/ PushFrame
  BY <1>0 DEF Ignored, machine, vars, PushFrame
<1>1. Timed \subseteq State
  BY DEF State
<1>2. CASE EndSession \/ (OnSessionStart /\ ~ Ignored)
  BY <1>1, <1>2 DEF EndSession, EndSessionCancelling, OnSessionStart
<1>3. CASE Finalize
  BY <1>3 DEF Finalize
<1>4. CASE Detectors
  BY <1>0, <1>3, <1>4 DEF Detectors, OnSpeechStart, OnSpeechEnd, OnBargeInConfirmed
<1>5. ASSUME NEW next, NEW extra, ConfirmGenuineBargeIn(next, extra)
      PROVE  ClockStep
  BY <1>5 DEF ConfirmGenuineBargeIn
<1>6. CASE Control
  BY <1>0, <1>2, <1>3, <1>5, <1>6
  DEF Control, OnSessionStart, OnSessionEnd, OnPttPressed, OnPttReleased, SeizeTurn
<1>7. ASSUME NEW S \in SUBSET State, BackToListening(S)
      PROVE  ClockStep
  BY <1>7 DEF BackToListening
<1>8. ASSUME NEW dt \in TickLengths, OnTick(dt)
      PROVE  ClockStep
  BY <1>0, <1>2, <1>7, <1>8
  DEF OnTick, TimePasses, ForceEndpoint, GiveUpOnTurn, RetractBargeIn
<1>9. ASSUME NEW t \in 1..turn_counter, Results(t)
      PROVE  ClockStep
  <2>1. CASE OnPartialTranscript(t)
    BY <1>0, <1>5, <2>1 DEF OnPartialTranscript, machine
  <2>2. ASSUME NEW text \in Text, OnFinalTranscript(t, text)
        PROVE  ClockStep
    BY <1>0, <1>5, <2>2 DEF OnFinalTranscript, FinalTranscriptIn
  <2>3. CASE OnFinalTranscriptRejected(t) \/ OnSubmitFailed(t)
    BY <1>0, <1>7, <2>3 DEF OnFinalTranscriptRejected, OnSubmitFailed, SubmitFailedKeeping
  <2>4. CASE OnSubmitSucceeded(t) \/ OnAgentTextArrived(t)
    BY <1>0, <2>4 DEF OnSubmitSucceeded, OnAgentTextArrived
  <2>5. CASE OnAgentTurnComplete(t) \/ OnPlaybackDrained(t)
    BY <1>0, <1>7, <2>5 DEF OnAgentTurnComplete, OnPlaybackDrained, EndTurnReturnToListening
  <2>. QED
    BY <1>9, <2>1, <2>2, <2>3, <2>4, <2>5 DEF Results
<1>. QED
  BY <1>0, <1>4, <1>6, <1>8, <1>9 DEF Next, Tick

LEMMA ClocksStep == ASSUME ClocksOK, ClockStep PROVE ClocksOK'
<1>. USE WindowsPositive DEF ClocksOK
<1>0. Timeout' = Timeout
  BY DEF Timeout, Timed
<1>1. CASE \E S \in SUBSET State : elapsed' = Restart(S)
  BY <1>0, <1>1 DEF Restart
<1>2. CASE elapsed' = elapsed
  BY <1>0, <1>2
<1>3. ASSUME NEW dt \in TickLengths, state \in Timed, ~ Expired(dt),
             elapsed' = [elapsed EXCEPT ![state] = @ + dt]
      PROVE  ClocksOK'
  <2>1. dt \in Nat
    BY TimeAssumption
  <2>2. elapsed[state] + dt < Timeout[state]
    BY <1>3, <2>1 DEF Expired
  <2>. QED
    BY <1>0, <1>3, <2>1, <2>2
<1>. QED
  BY <1>1, <1>2, <1>3 DEF ClockStep

----------------------------------------------------------------------------
(* The ring of recent frames: emptied, pushed to, or left alone, and left
   alone only by steps that do not enter Idle. *)

FramesOK ==
  /\ session \in 0..MaxSession
  /\ preroll \in Seq(0..MaxSession)
  /\ PreRollOfThisSession

FrameStep ==
  \/ preroll' = <<>> /\ session' \in 0..MaxSession
  \/ UNCHANGED audioVars /\ (state' = "Idle" => state = "Idle")
  \/ PushFrame

LEMMA FrameSteps ==
  ASSUME state \in State, session \in 0..MaxSession, [Next]_vars
  PROVE  FrameStep
<1>. USE States, BoundsAssumption DEF FrameStep
<1>0. CASE Ignored \/ UNCHANGED vars
  BY <1>0 DEF Ignored, machine, vars
<1>1. CASE EndSession
  BY <1>1 DEF EndSession, EndSessionCancelling
<1>2. CASE OnSessionStart
  BY <1>0, <1>2 DEF OnSessionStart
<1>3. CASE Detectors
  BY <1>0, <1>3 DEF Detectors, OnSpeechStart, OnSpeechEnd, OnBargeInConfirmed, Finalize
<1>4. CASE Control
  BY <1>0, <1>1, <1>2, <1>4
  DEF Control, OnSessionEnd, OnPttPressed, OnPttReleased, SeizeTurn, Finalize,
      ConfirmGenuineBargeIn
<1>5. ASSUME NEW dt \in TickLengths, OnTick(dt)
      PROVE  FrameStep
  BY <1>0, <1>1, <1>5
  DEF OnTick, TimePasses, ForceEndpoint, GiveUpOnTurn, RetractBargeIn, BackToListening
<1>6. ASSUME NEW t \in 1..turn_counter, Results(t)
      PROVE  FrameStep
  <2>1. CASE OnPartialTranscript(t)
    BY <1>0, <2>1 DEF OnPartialTranscript, ConfirmGenuineBargeIn, machine
  <2>2. ASSUME NEW text \in Text, OnFinalTranscript(t, text)
        PROVE  FrameStep
    BY <1>0, <2>2 DEF OnFinalTranscript, FinalTranscriptIn, ConfirmGenuineBargeIn
  <2>3. CASE OnFinalTranscriptRejected(t) \/ OnSubmitFailed(t)
    BY <1>0, <2>3
    DEF OnFinalTranscriptRejected, OnSubmitFailed, SubmitFailedKeeping, BackToListening
  <2>4. CASE OnSubmitSucceeded(t) \/ OnAgentTextArrived(t)
    BY <1>0, <2>4 DEF OnSubmitSucceeded, OnAgentTextArrived
  <2>5. CASE OnAgentTurnComplete(t) \/ OnPlaybackDrained(t)
    BY <1>0, <2>5
    DEF OnAgentTurnComplete, OnPlaybackDrained, EndTurnReturnToListening, BackToListening
  <2>. QED
    BY <1>6, <2>1, <2>2, <2>3, <2>4, <2>5 DEF Results
<1>. QED
  BY <1>0, <1>3, <1>4, <1>5, <1>6 DEF Next, Tick

LEMMA FramesStep == ASSUME FramesOK, FrameStep PROVE FramesOK'
<1>. USE TimeAssumption DEF FramesOK, PreRollOfThisSession
<1>1. CASE preroll' = <<>> /\ session' \in 0..MaxSession
  BY <1>1
<1>2. CASE UNCHANGED audioVars /\ (state' = "Idle" => state = "Idle")
  BY <1>2 DEF audioVars
<1>3. CASE PushFrame
  <2>. DEFINE kept == IF Len(preroll) = PreRollFrames THEN Tail(preroll) ELSE preroll
  <2>1. /\ kept \in Seq(0..MaxSession)
        /\ Len(kept) < PreRollFrames
        /\ \A i \in 1..Len(kept) : kept[i] = session
    <3>1. CASE Len(preroll) = PreRollFrames
      <4>1. preroll # <<>>
        BY <3>1
      <4>. QED
        BY <3>1, <4>1
    <3>2. CASE Len(preroll) # PreRollFrames
      BY <3>2
    <3>. QED
      BY <3>1, <3>2
  <2>2. preroll' = Append(kept, session) /\ session' = session /\ state' # "Idle"
    BY <1>3 DEF PushFrame
  <2>. HIDE DEF kept
  <2>3. /\ preroll' \in Seq(0..MaxSession)
        /\ Len(preroll') = Len(kept) + 1
        /\ \A i \in 1..Len(preroll') : preroll'[i] = session
    BY <2>1, <2>2
  <2>. QED
    BY <2>1, <2>2, <2>3
<1>. QED
  BY <1>1, <1>2, <1>3 DEF FrameStep

(* Only frames of the running session can ever be replayed. *)
THEOREM FramesOfOneSession == Spec => []PreRollOfThisSession
<1>1. Init => TurnsOK /\ FramesOK
  BY InitTurns, BoundsAssumption, TimeAssumption DEF Init, FramesOK, PreRollOfThisSession
<1>2. TurnsOK /\ FramesOK /\ [Next]_vars => TurnsOK' /\ FramesOK'
  BY TurnsStep, FrameSteps, FramesStep DEF TurnsOK, FramesOK
<1>3. FramesOK => PreRollOfThisSession
  BY DEF FramesOK
<1>. QED
  BY <1>1, <1>2, <1>3, PTL DEF Spec

----------------------------------------------------------------------------
(* The words, and the list of outputs.  A call returns either nothing, or a
   list the handler composed followed by the new phase. *)

WordsOK ==
  /\ current_utterance \in Text \cup {NoText}
  /\ last_failed_utterance \in Text \cup {NoText}
  /\ agent_turn_complete \in BOOLEAN

Emits(outs) == outs \in Seq(Outputs) /\ Return(outs)
CallStep == WordsOK' /\ (out' \in {out, <<>>} \/ \E outs : Emits(outs))

LEMMA NoOutputs == <<>> \in Seq(Outputs)
OBVIOUS

LEMMA CallSteps ==
  ASSUME TurnsOK, WordsOK, [Next]_vars
  PROVE  CallStep
<1>. USE States, NoOutputs DEF WordsOK, CallStep, Emits, TurnsOK
<1>0. CASE Ignored \/ PushFrame \/ UNCHANGED vars
  BY <1>0 DEF Ignored, machine, wordVars, PushFrame, vars
<1>1. CASE EndSession
  <2>. DEFINE outs ==
         (IF state \in {"AgentSpeaking", "Interrupting"}
            THEN <<CancelPlayback, FlushOutputBuffer>> \o CancelIfAny(VoiceTurn)
            ELSE <<>>) \o <<StopCapture>>
  <2>1. CancelIfAny(VoiceTurn) \in Seq(Outputs)
    BY CancelsAreOutputs DEF VoiceTurn
  <2>2. /\ <<CancelPlayback, FlushOutputBuffer>> \in Seq(Outputs)
        /\ <<StopCapture>> \in Seq(Outputs)
    BY OutputKinds
  <2>3. outs \in Seq(Outputs)
    BY <2>1, <2>2
  <2>4. Return(outs) /\ WordsOK'
    BY <1>1 DEF EndSession, EndSessionCancelling, wordVars
  <2>. QED
    BY <2>3, <2>4
<1>2. CASE OnSessionStart
  <2>1. <<StartCapture>> \in Seq(Outputs)
    BY OutputKinds
  <2>. QED
    BY <1>0, <1>2, <2>1 DEF OnSessionStart
<1>3. CASE Finalize
  BY <1>3 DEF Finalize, wordVars
<1>4. CASE OnSpeechStart
  BY <1>0, <1>4 DEF OnSpeechStart, BeginUserTurn
<1>5. CASE OnBargeInConfirmed
  <2>1. CASE Ignored
    BY <1>0, <2>1
  <2>2. CASE ~ Ignored
    <3>1. current_turn' \in Turn
      BY <1>5, <2>2, BoundsAssumption DEF OnBargeInConfirmed, BeginUserTurn
    <3>2. <<CancelPlayback, FlushOutputBuffer, ReplayPreRoll(current_turn')>> \in Seq(Outputs)
      BY <3>1, OutputKinds
    <3>. QED
      BY <1>5, <2>2, <3>2 DEF OnBargeInConfirmed, BeginUserTurn
  <2>. QED
    BY <2>1, <2>2
<1>6. ASSUME NEW next, NEW extra \in Seq(Outputs), ConfirmGenuineBargeIn(next, extra),
             current_utterance' \in Text \cup {NoText}
      PROVE  CallStep
  <2>1. CancelIfAny(pending_cancel_turn) \o extra \in Seq(Outputs)
    BY CancelsAreOutputs
  <2>. QED
    BY <1>6, <2>1 DEF ConfirmGenuineBargeIn
<1>7. ASSUME NEW outs \in Seq(Outputs), SeizeTurn(outs)
      PROVE  CallStep
  BY <1>7 DEF SeizeTurn, BeginUserTurn
<1>8. CASE OnPttPressed
  <2>1. CASE state = "AgentSpeaking"
    <3>1. /\ <<CancelPlayback, FlushOutputBuffer>> \in Seq(Outputs)
          /\ CancelIfAny(current_turn) \in Seq(Outputs)
      BY OutputKinds, CancelsAreOutputs
    <3>2. <<CancelPlayback, FlushOutputBuffer>> \o CancelIfAny(current_turn) \in Seq(Outputs)
      BY <3>1
    <3>. QED
      BY <1>0, <1>7, <1>8, <2>1, <3>2 DEF OnPttPressed
  <2>. QED
    BY <1>0, <1>6, <1>7, <1>8, <2>1 DEF OnPttPressed
<1>9. ASSUME NEW dt \in TickLengths, OnTick(dt)
      PROVE  CallStep
  <2>1. CASE RetractBargeIn
    <3>. DEFINE outs == IF pending_cancel_turn = NoTurn THEN <<>>
                        ELSE <<ResumeSpeaking(pending_cancel_turn)>>
    <3>1. outs \in Seq(Outputs)
      BY OutputKinds
    <3>2. Return(outs) /\ WordsOK'
      BY <2>1 DEF RetractBargeIn, wordVars
    <3>. QED
      BY <3>1, <3>2
  <2>2. CASE TimePasses(dt) \/ ForceEndpoint \/ GiveUpOnTurn
    BY <2>2 DEF TimePasses, ForceEndpoint, GiveUpOnTurn, wordVars
  <2>. QED
    BY <1>0, <1>1, <1>9, <2>1, <2>2 DEF OnTick
<1>10. ASSUME NEW t \in 1..turn_counter, Results(t)
       PROVE  CallStep
  <2>0. t \in Turn
    BY BoundsAssumption
  <2>1. CASE OnPartialTranscript(t)
    <3>1. <<ShowPartial>> \in Seq(Outputs)
      BY OutputKinds
    <3>2. CASE ConfirmGenuineBargeIn("UserSpeaking", <<ShowPartial>>)
                 /\ UNCHANGED current_utterance
      BY <1>6, <3>1, <3>2
    <3>. QED
      BY <1>0, <2>1, <3>1, <3>2 DEF OnPartialTranscript, machine, wordVars
  <2>2. ASSUME NEW text \in Text, OnFinalTranscript(t, text)
        PROVE  CallStep
    <3>1. <<SubmitUtterance(t, text)>> \in Seq(Outputs)
      BY <2>0, OutputKinds
    <3>2. CASE ConfirmGenuineBargeIn("Submitting", <<SubmitUtterance(t, text)>>)
                 /\ current_utterance' = text
      BY <1>6, <3>1, <3>2
    <3>. QED
      BY <1>0, <2>2, <3>1, <3>2 DEF OnFinalTranscript, FinalTranscriptIn
  <2>3. CASE OnFinalTranscriptRejected(t) \/ OnSubmitFailed(t)
    BY <1>0, <2>3
    DEF OnFinalTranscriptRejected, OnSubmitFailed, SubmitFailedKeeping, wordVars
  <2>4. CASE OnSubmitSucceeded(t) \/ OnAgentTextArrived(t)
    BY <1>0, <2>4 DEF OnSubmitSucceeded, OnAgentTextArrived, wordVars
  <2>5. CASE OnAgentTurnComplete(t) \/ OnPlaybackDrained(t)
    BY <1>0, <2>5
    DEF OnAgentTurnComplete, OnPlaybackDrained, EndTurnReturnToListening, wordVars
  <2>. QED
    BY <1>10, <2>1, <2>2, <2>3, <2>4, <2>5 DEF Results
<1>. QED
  BY <1>0, <1>1, <1>2, <1>3, <1>4, <1>5, <1>8, <1>9, <1>10
  DEF Next, Tick, Control, Detectors, OnSessionEnd, OnSpeechEnd, OnPttReleased

LEMMA OutputsStep ==
  ASSUME TurnsOK, WordsOK, out \in Seq(Outputs), [Next]_vars
  PROVE  WordsOK' /\ out' \in Seq(Outputs)
<1>1. CallStep
  BY CallSteps
<1>2. state' \in State
  BY TurnsStep DEF TurnsOK
<1>. QED
  BY <1>1, <1>2, NoOutputs, ReturnsOutputs DEF CallStep, Emits

(* Every variable of the machine keeps its type, every clock stays within its
   window and every output is well formed, whatever the machine is fed. *)
THEOREM SessionTypeOK == Spec => []TypeOK
<1>. DEFINE IInv == TurnsOK /\ ClocksOK /\ FramesOK /\ WordsOK /\ out \in Seq(Outputs)
<1>1. Init => IInv
  <2>. SUFFICES ASSUME Init  PROVE IInv
    OBVIOUS
  <2>1. ClocksOK
    BY WindowsPositive DEF Init, ClocksOK
  <2>2. FramesOK
    BY BoundsAssumption, TimeAssumption DEF Init, FramesOK, PreRollOfThisSession
  <2>3. WordsOK /\ out \in Seq(Outputs)
    BY NoOutputs DEF Init, WordsOK
  <2>. QED
    BY InitTurns, <2>1, <2>2, <2>3
<1>2. IInv /\ [Next]_vars => IInv'
  <2>1. ASSUME IInv, [Next]_vars
        PROVE  ClockStep /\ FrameStep
    BY <2>1, ClockSteps, FrameSteps DEF TurnsOK, FramesOK
  <2>. QED
    BY <2>1, TurnsStep, ClocksStep, FramesStep, OutputsStep
<1>3. IInv => TypeOK
  BY DEF TypeOK, TurnsOK, ClocksOK, FramesOK, WordsOK
<1>. QED
  BY <1>1, <1>2, <1>3, PTL DEF Spec

----------------------------------------------------------------------------
(* What a step may never do. *)

(* The turn ids held before and after a step: a step may hold on to a turn, let
   it go, or take up the newest id, never one it let go before. *)
LEMMA NoTurnReturns ==
  ASSUME TurnsOK, [Next]_vars,
         NEW t \in 1..turn_counter, t \notin {current_turn, pending_cancel_turn}
  PROVE  t \notin {current_turn', pending_cancel_turn'}
<1>. DEFINE Held == {current_turn, pending_cancel_turn, NoTurn}
<1>. USE States, BoundsAssumption DEF TurnsOK, turnVars
<1>1. \/ {current_turn', pending_cancel_turn'} \subseteq Held
      \/ BeginUserTurn /\ pending_cancel_turn' \in Held
  <2>0. CASE Ignored \/ UNCHANGED vars \/ PushFrame
    BY <2>0 DEF Ignored, machine, vars, PushFrame
  <2>1. CASE EndSession \/ OnSessionStart
    BY <2>0, <2>1 DEF EndSession, EndSessionCancelling, OnSessionStart
  <2>2. CASE Detectors
    BY <2>0, <2>2 DEF Detectors, OnSpeechStart, OnSpeechEnd, OnBargeInConfirmed, Finalize
  <2>3. CASE Control
    BY <2>0, <2>1, <2>3
    DEF Control, OnSessionEnd, OnPttPressed, OnPttReleased, SeizeTurn, Finalize,
        ConfirmGenuineBargeIn
  <2>4. ASSUME NEW dt \in TickLengths, OnTick(dt)
        PROVE  {current_turn', pending_cancel_turn'} \subseteq Held
    BY <2>0, <2>1, <2>4
    DEF OnTick, EndSession, EndSessionCancelling, TimePasses, ForceEndpoint, GiveUpOnTurn,
        RetractBargeIn, BackToListening, Ignored, machine
  <2>5. ASSUME NEW u \in 1..turn_counter, Results(u)
        PROVE  {current_turn', pending_cancel_turn'} \subseteq Held
    BY <2>5
    DEF Results, OnPartialTranscript, OnFinalTranscript, FinalTranscriptIn,
        ConfirmGenuineBargeIn, OnFinalTranscriptRejected, OnSubmitSucceeded, OnSubmitFailed,
        SubmitFailedKeeping, OnAgentTextArrived, OnAgentTurnComplete, OnPlaybackDrained,
        EndTurnReturnToListening, BackToListening, Ignored, machine
  <2>. QED
    BY <2>0, <2>2, <2>3, <2>4, <2>5 DEF Next, Tick
<1>2. CASE {current_turn', pending_cancel_turn'} \subseteq Held
  BY <1>2
<1>3. CASE BeginUserTurn /\ pending_cancel_turn' \in Held
  BY <1>3 DEF BeginUserTurn
<1>. QED
  BY <1>1, <1>2, <1>3

(* No order of inputs brings an abandoned turn back. *)
THEOREM AbandonedStaysAbandoned == Spec => AbandonedTurnNeverReturns
<1>1. TurnsOK /\ [Next]_vars =>
        [\A t \in 1..turn_counter :
           t \notin {current_turn, pending_cancel_turn}
             => t \notin {current_turn', pending_cancel_turn'}]_vars
  BY NoTurnReturns
<1>. QED
  BY <1>1, InitTurns, TurnsStep, PTL DEF Spec, AbandonedTurnNeverReturns

(* A step that enters a timed state starts the clock of that state. *)
LEMMA EntryStartsClock ==
  ASSUME TurnsOK, [Next]_vars,
         NEW s \in Timed, state' = s, state # s
  PROVE  elapsed'[s] = 0
<1>. USE States DEF TurnsOK, Timed, Restart
<1>1. ~ Ignored /\ ~ UNCHANGED vars /\ ~ PushFrame /\ ~ EndSession
  BY DEF Ignored, machine, vars, PushFrame, EndSession, EndSessionCancelling
<1>2. CASE OnSessionStart
  BY <1>1, <1>2 DEF OnSessionStart
<1>3. CASE Finalize
  BY <1>3 DEF Finalize
<1>4. CASE Detectors
  BY <1>1, <1>3, <1>4 DEF Detectors, OnSpeechStart, OnSpeechEnd, OnBargeInConfirmed
<1>5. ASSUME NEW outs, SeizeTurn(outs)
      PROVE  elapsed'[s] = 0
  BY <1>5 DEF SeizeTurn
<1>6. ASSUME NEW next \in {"UserSpeaking", "Submitting"}, NEW extra,
             ConfirmGenuineBargeIn(next, extra)
      PROVE  elapsed'[s] = 0
  BY <1>6 DEF ConfirmGenuineBargeIn
<1>7. CASE Control
  BY <1>1, <1>2, <1>3, <1>5, <1>6, <1>7
  DEF Control, OnSessionEnd, OnPttPressed, OnPttReleased
<1>8. ASSUME NEW S, BackToListening(S)
      PROVE  elapsed'[s] = 0
  BY <1>8 DEF BackToListening
<1>9. ASSUME NEW dt \in TickLengths, OnTick(dt)
      PROVE  elapsed'[s] = 0
  BY <1>1, <1>8, <1>9 DEF OnTick, TimePasses, ForceEndpoint, GiveUpOnTurn, RetractBargeIn
<1>10. ASSUME NEW t \in 1..turn_counter, Results(t)
       PROVE  elapsed'[s] = 0
  <2>1. CASE OnPartialTranscript(t)
    BY <1>1, <1>6, <2>1 DEF OnPartialTranscript, machine
  <2>2. ASSUME NEW text \in Text, OnFinalTranscript(t, text)
        PROVE  elapsed'[s] = 0
    BY <1>1, <1>6, <2>2 DEF OnFinalTranscript, FinalTranscriptIn
  <2>3. CASE OnFinalTranscriptRejected(t) \/ OnSubmitFailed(t)
    BY <1>1, <1>8, <2>3 DEF OnFinalTranscriptRejected, OnSubmitFailed, SubmitFailedKeeping
  <2>4. CASE OnSubmitSucceeded(t) \/ OnAgentTextArrived(t)
    BY <1>1, <2>4 DEF OnSubmitSucceeded, OnAgentTextArrived
  <2>5. CASE OnAgentTurnComplete(t) \/ OnPlaybackDrained(t)
    BY <1>1, <1>8, <2>5 DEF OnAgentTurnComplete, OnPlaybackDrained, EndTurnReturnToListening
  <2>. QED
    BY <1>10, <2>1, <2>2, <2>3, <2>4, <2>5 DEF Results
<1>. QED
  BY <1>1, <1>4, <1>7, <1>9, <1>10 DEF Next, Tick

(* No window is shortened by an earlier visit to the state. *)
THEOREM TimersAreFresh == Spec => TimersStartFresh
<1>1. TurnsOK /\ [Next]_vars =>
        [\A s \in Timed : state' = s /\ state # s => elapsed'[s] = 0]_vars
  BY EntryStartsClock
<1>. QED
  BY <1>1, InitTurns, TurnsStep, PTL DEF Spec, TimersStartFresh

=============================================================================
