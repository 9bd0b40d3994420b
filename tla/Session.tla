------------------------------- MODULE Session -------------------------------
(***************************************************************************)
(* The conversation state machine of buzztalk-session (machine.rs): one    *)
(* value that is fed inputs one at a time (SessionMachine::handle) and     *)
(* returns, for each, the list of outputs its caller must act on.          *)
(*                                                                         *)
(* One action per input handler.  `out` holds the list returned by the     *)
(* last call.  An input the handler ignores (its early returns) is the     *)
(* disjunct Ignored: nothing but `out` changes.                            *)
(*                                                                         *)
(* A turn id is the number the code allocates, 1, 2, ...; 0 is None.       *)
(* A frame of audio is reduced to the number of the session it was         *)
(* captured in, an utterance to a member of Text.                          *)
(***************************************************************************)
EXTENDS Naturals, Sequences

CONSTANTS
  MaxTurn,               \* bound: turns begun
  MaxSession,            \* bound: sessions started
  Text,                  \* the words an utterance can be
  NoText,                \* None for an utterance
  TickLengths,           \* the durations a Tick can carry
  IdleTimeout, MaxUtterance, FinalizeTimeout,
  AgentResponseTimeout, RetractionWindow,  \* the windows of types.rs
  PreRollFrames          \* capacity of the pre-roll ring

ASSUME BoundsAssumption == MaxTurn \in Nat /\ MaxSession \in Nat
ASSUME TextAssumption == NoText \notin Text
ASSUME TimeAssumption ==
  /\ TickLengths \subseteq Nat
  /\ {IdleTimeout, MaxUtterance, FinalizeTimeout, AgentResponseTimeout,
      RetractionWindow, PreRollFrames} \subseteq Nat \ {0}

VARIABLES
  state,                 \* SessionState
  current_turn,          \* the turn in flight, or NoTurn
  pending_cancel_turn,   \* the agent turn parked by a barge-in, or NoTurn
  turn_counter,          \* the last id allocated
  current_utterance,     \* words submitted and not yet answered for
  last_failed_utterance, \* words of the last submission that failed
  agent_turn_complete,   \* the agent said it has no more text
  elapsed,               \* time accumulated in each timed state
  preroll,               \* the ring of recent frames
  session,               \* ghost: how many sessions have started
  out                    \* outputs returned by the last call on the machine

turnVars == <<current_turn, pending_cancel_turn, turn_counter>>
wordVars == <<current_utterance, last_failed_utterance>>
audioVars == <<preroll, session>>
machine == <<state, turnVars, wordVars, agent_turn_complete, elapsed, audioVars>>
vars == <<machine, out>>

NoTurn == 0
Turn == 1..MaxTurn

(* The states that keep a timer, and the window after which each gives up. *)
Timed == {"Listening", "UserSpeaking", "Finalizing", "AwaitingAgent", "Interrupting"}
State == Timed \cup {"Idle", "Submitting", "AgentSpeaking"}
Timeout == [s \in Timed |->
  CASE s = "Listening"     -> IdleTimeout
    [] s = "UserSpeaking"  -> MaxUtterance
    [] s = "Finalizing"    -> FinalizeTimeout
    [] s = "AwaitingAgent" -> AgentResponseTimeout
    [] s = "Interrupting"  -> RetractionWindow]

(* The outputs. *)
Plain(kind) == [kind |-> kind]
StartCapture == Plain("StartCapture")
StopCapture == Plain("StopCapture")
CancelPlayback == Plain("CancelPlayback")
FlushOutputBuffer == Plain("FlushOutputBuffer")
ShowPartial == Plain("ShowPartial")
CancelSynthesis(t) == [kind |-> "CancelSynthesis", turn |-> t]
ResumeSpeaking(t) == [kind |-> "ResumeSpeaking", turn |-> t]
ReplayPreRoll(t) == [kind |-> "ReplayPreRoll", turn |-> t]
SubmitUtterance(t, text) == [kind |-> "SubmitUtterance", turn |-> t, text |-> text]
EmitState(s) == [kind |-> "EmitState", state |-> s]

(* handle: the handler's outputs, with the new state last when it changed. *)
Return(outs) ==
  out' = outs \o (IF state' # state THEN <<EmitState(state')>> ELSE <<>>)

Ignored == out' = <<>> /\ UNCHANGED machine

(* The outputs of cancelling a parked turn, if there is one. *)
CancelIfAny(t) == IF t = NoTurn THEN <<>> ELSE <<CancelSynthesis(t)>>

(* The timers with those of the states S started afresh. *)
Restart(S) == [s \in Timed |-> IF s \in S THEN 0 ELSE elapsed[s]]

IsCurrent(t) == current_turn = t

----------------------------------------------------------------------------
(* The lifecycle of a turn. *)

(* A fresh user utterance: the next id, current from this moment on. *)
BeginUserTurn ==
  /\ turn_counter < MaxTurn
  /\ turn_counter' = turn_counter + 1
  /\ current_turn' = turn_counter + 1
  /\ current_utterance' = NoText

(* Every way back to Listening: no turn, the idle clock from zero. *)
BackToListening(restarted) ==
  /\ current_turn' = NoTurn
  /\ state' = "Listening"
  /\ elapsed' = Restart({"Listening"} \cup restarted)

----------------------------------------------------------------------------
(* Session start and end. *)

OnSessionStart ==
  \/ /\ state = "Idle"
     /\ session < MaxSession
     /\ session' = session + 1
     /\ state' = "Listening"
     /\ current_turn' = NoTurn
     /\ pending_cancel_turn' = NoTurn
     /\ current_utterance' = NoText
     /\ last_failed_utterance' = NoText
     /\ agent_turn_complete' = FALSE
     /\ elapsed' = Restart(Timed)
     /\ preroll' = <<>>
     /\ Return(<<StartCapture>>)
     /\ UNCHANGED turn_counter
  \/ state # "Idle" /\ Ignored

(* The agent turn whose voice is playing or parked. *)
VoiceTurn == IF state = "Interrupting" THEN pending_cancel_turn ELSE current_turn

EndSessionCancelling(voice) ==
  /\ state' = "Idle"
  /\ current_turn' = NoTurn
  /\ pending_cancel_turn' = NoTurn
  /\ agent_turn_complete' = FALSE
  /\ elapsed' = Restart(Timed)
  /\ preroll' = <<>>
  /\ Return((IF state \in {"AgentSpeaking", "Interrupting"}
               THEN <<CancelPlayback, FlushOutputBuffer>> \o CancelIfAny(voice)
               ELSE <<>>)
            \o <<StopCapture>>)
  /\ UNCHANGED <<turn_counter, wordVars, session>>

(* Mutated form: the candidate is cancelled instead of the agent turn parked
   behind it. *)
EndSessionCancelsCurrent == EndSessionCancelling(current_turn)

EndSession == EndSessionCancelling(VoiceTurn)

OnSessionEnd ==
  \/ state # "Idle" /\ EndSession
  \/ state = "Idle" /\ Ignored

----------------------------------------------------------------------------
(* The voice activity detectors. *)

OnSpeechStart ==
  \/ /\ state = "Listening"
     /\ BeginUserTurn
     /\ state' = "UserSpeaking"
     /\ elapsed' = Restart({"UserSpeaking"})
     /\ Return(<<>>)
     /\ UNCHANGED <<pending_cancel_turn, last_failed_utterance, agent_turn_complete, audioVars>>
  \/ state # "Listening" /\ Ignored

(* The user's words are over: the recognizer has FinalizeTimeout to answer. *)
Finalize ==
  /\ state' = "Finalizing"
  /\ elapsed' = Restart({"Finalizing"})
  /\ Return(<<>>)
  /\ UNCHANGED <<turnVars, wordVars, agent_turn_complete, audioVars>>

OnSpeechEnd ==
  \/ state = "UserSpeaking" /\ Finalize
  \/ state # "UserSpeaking" /\ Ignored

(* The agent's turn is parked and a candidate user turn takes its place. *)
OnBargeInConfirmed ==
  \/ /\ state = "AgentSpeaking"
     /\ pending_cancel_turn' = current_turn
     /\ BeginUserTurn
     /\ state' = "Interrupting"
     /\ elapsed' = Restart({"UserSpeaking", "Interrupting"})
     /\ Return(<<CancelPlayback, FlushOutputBuffer, ReplayPreRoll(current_turn')>>)
     /\ UNCHANGED <<last_failed_utterance, agent_turn_complete, audioVars>>
  \/ state # "AgentSpeaking" /\ Ignored

----------------------------------------------------------------------------
(* Transcripts. *)

(* Mutated form: the parked turn is cancelled but stays parked. *)
ConfirmWithoutTaking(next, extra) ==
  /\ state' = next
  /\ elapsed' = Restart({"UserSpeaking"})
  /\ Return(CancelIfAny(pending_cancel_turn) \o extra)
  /\ UNCHANGED <<turnVars, last_failed_utterance, agent_turn_complete, audioVars>>

(* The interruption was real: the parked turn is cancelled for good. *)
ConfirmGenuineBargeIn(next, extra) ==
  /\ pending_cancel_turn' = NoTurn
  /\ state' = next
  /\ elapsed' = Restart({"UserSpeaking"})
  /\ Return(CancelIfAny(pending_cancel_turn) \o extra)
  /\ UNCHANGED <<current_turn, turn_counter, last_failed_utterance, agent_turn_complete, audioVars>>

OnPartialTranscript(t) ==
  \/ /\ IsCurrent(t)
     /\ state = "UserSpeaking"
     /\ UNCHANGED machine
     /\ Return(<<ShowPartial>>)
  \/ /\ IsCurrent(t)
     /\ state = "Interrupting"
     /\ ConfirmGenuineBargeIn("UserSpeaking", <<ShowPartial>>)
     /\ UNCHANGED current_utterance
  \/ /\ ~ (IsCurrent(t) /\ state \in {"UserSpeaking", "Interrupting"})
     /\ Ignored

FinalTranscriptIn(awaitingFinal, t, text) ==
  \/ /\ IsCurrent(t)
     /\ state \in awaitingFinal
     /\ current_utterance' = text
     /\ state' = "Submitting"
     /\ Return(<<SubmitUtterance(t, text)>>)
     /\ UNCHANGED <<turnVars, last_failed_utterance, agent_turn_complete, elapsed, audioVars>>
  \/ /\ IsCurrent(t)
     /\ state = "Interrupting"
     /\ ConfirmGenuineBargeIn("Submitting", <<SubmitUtterance(t, text)>>)
     /\ current_utterance' = text
  \/ /\ ~ (IsCurrent(t) /\ state \in awaitingFinal \cup {"Interrupting"})
     /\ Ignored

(* Mutated form: a second final for a turn already submitted is taken again. *)
OnFinalTranscriptAnyState(t, text) ==
  FinalTranscriptIn({"Finalizing", "Submitting", "AwaitingAgent"}, t, text)

OnFinalTranscript(t, text) == FinalTranscriptIn({"Finalizing"}, t, text)

(* The caller declined to submit the final transcript. *)
OnFinalTranscriptRejected(t) ==
  \/ /\ IsCurrent(t)
     /\ state = "Finalizing"
     /\ BackToListening({"Finalizing"})
     /\ Return(<<>>)
     /\ UNCHANGED <<pending_cancel_turn, turn_counter, wordVars, agent_turn_complete, audioVars>>
  \/ ~ (IsCurrent(t) /\ state = "Finalizing") /\ Ignored

----------------------------------------------------------------------------
(* Submission. *)

OnSubmitSucceeded(t) ==
  \/ /\ IsCurrent(t)
     /\ state = "Submitting"
     /\ current_utterance' = NoText
     /\ elapsed' = Restart({"AwaitingAgent"})
     /\ state' = "AwaitingAgent"
     /\ Return(<<>>)
     /\ UNCHANGED <<turnVars, last_failed_utterance, agent_turn_complete, audioVars>>
  \/ ~ (IsCurrent(t) /\ state = "Submitting") /\ Ignored

SubmitFailedKeeping(kept, t) ==
  \/ /\ IsCurrent(t)
     /\ state = "Submitting"
     /\ last_failed_utterance' = kept
     /\ current_utterance' = NoText
     /\ BackToListening({})
     /\ Return(<<>>)
     /\ UNCHANGED <<pending_cancel_turn, turn_counter, agent_turn_complete, audioVars>>
  \/ ~ (IsCurrent(t) /\ state = "Submitting") /\ Ignored

(* Mutated form: the words of the failed submission are dropped. *)
OnSubmitFailedLosingWords(t) == SubmitFailedKeeping(last_failed_utterance, t)

OnSubmitFailed(t) == SubmitFailedKeeping(current_utterance, t)

----------------------------------------------------------------------------
(* The agent. *)

(* Mutated form: the flag of an earlier, interrupted answer is not cleared. *)
OnAgentTextArrivedKeepingFlag(t) ==
  \/ /\ IsCurrent(t)
     /\ state = "AwaitingAgent"
     /\ elapsed' = Restart({"AwaitingAgent"})
     /\ state' = "AgentSpeaking"
     /\ Return(<<>>)
     /\ UNCHANGED <<turnVars, wordVars, agent_turn_complete, audioVars>>
  \/ ~ (IsCurrent(t) /\ state = "AwaitingAgent") /\ Ignored

OnAgentTextArrived(t) ==
  \/ /\ IsCurrent(t)
     /\ state = "AwaitingAgent"
     /\ elapsed' = Restart({"AwaitingAgent"})
     /\ agent_turn_complete' = FALSE
     /\ state' = "AgentSpeaking"
     /\ Return(<<>>)
     /\ UNCHANGED <<turnVars, wordVars, audioVars>>
  \/ ~ (IsCurrent(t) /\ state = "AwaitingAgent") /\ Ignored

EndTurnReturnToListening ==
  /\ agent_turn_complete' = FALSE
  /\ BackToListening({})
  /\ Return(<<>>)
  /\ UNCHANGED <<pending_cancel_turn, turn_counter, wordVars, audioVars>>

OnAgentTurnComplete(t) ==
  \/ /\ IsCurrent(t)
     /\ state = "AwaitingAgent"
     /\ EndTurnReturnToListening
  \/ /\ IsCurrent(t)
     /\ state = "AgentSpeaking"
     /\ agent_turn_complete' = TRUE
     /\ UNCHANGED <<state, turnVars, wordVars, elapsed, audioVars>>
     /\ Return(<<>>)
  \/ /\ ~ (IsCurrent(t) /\ state \in {"AwaitingAgent", "AgentSpeaking"})
     /\ Ignored

(* A dry output buffer ends the turn only once the agent is complete. *)
OnPlaybackDrained(t) ==
  \/ /\ IsCurrent(t)
     /\ state = "AgentSpeaking"
     /\ agent_turn_complete
     /\ EndTurnReturnToListening
  \/ /\ ~ (IsCurrent(t) /\ state = "AgentSpeaking" /\ agent_turn_complete)
     /\ Ignored

----------------------------------------------------------------------------
(* Push to talk. *)

SeizeTurn(outs) ==
  /\ BeginUserTurn
  /\ state' = "UserSpeaking"
  /\ elapsed' = Restart({"UserSpeaking"})
  /\ Return(outs)
  /\ UNCHANGED <<pending_cancel_turn, last_failed_utterance, agent_turn_complete, audioVars>>

OnPttPressed ==
  \/ state \in {"Idle", "UserSpeaking"} /\ Ignored
  \/ /\ state = "AgentSpeaking"
     /\ SeizeTurn(<<CancelPlayback, FlushOutputBuffer>> \o CancelIfAny(current_turn))
  \/ /\ state = "Interrupting"
     /\ ConfirmGenuineBargeIn("UserSpeaking", <<>>)
     /\ current_utterance' = NoText
  \/ /\ state \in {"Listening", "Finalizing", "Submitting", "AwaitingAgent"}
     /\ SeizeTurn(<<>>)

OnPttReleased ==
  \/ state = "UserSpeaking" /\ Finalize
  \/ state # "UserSpeaking" /\ Ignored

----------------------------------------------------------------------------
(* Time.  What each timed state does when its window has passed. *)

Expired(dt) == elapsed[state] + dt >= Timeout[state]

(* Interrupting: no transcript proved the barge-in, the parked turn resumes. *)
RetractBargeIn ==
  /\ state' = "AgentSpeaking"
  /\ current_turn' = pending_cancel_turn
  /\ pending_cancel_turn' = NoTurn
  /\ elapsed' = Restart({"Interrupting"})
  /\ Return(IF pending_cancel_turn = NoTurn THEN <<>>
            ELSE <<ResumeSpeaking(pending_cancel_turn)>>)
  /\ UNCHANGED <<turn_counter, wordVars, agent_turn_complete, audioVars>>

ForceEndpoint ==
  /\ state' = "Finalizing"
  /\ elapsed' = Restart({"UserSpeaking", "Finalizing"})
  /\ Return(<<>>)
  /\ UNCHANGED <<turnVars, wordVars, agent_turn_complete, audioVars>>

GiveUpOnTurn ==
  /\ BackToListening({state})
  /\ Return(<<>>)
  /\ UNCHANGED <<pending_cancel_turn, turn_counter, wordVars, agent_turn_complete, audioVars>>

TimePasses(dt) ==
  /\ elapsed' = [elapsed EXCEPT ![state] = @ + dt]
  /\ UNCHANGED <<state, turnVars, wordVars, agent_turn_complete, audioVars>>
  /\ Return(<<>>)

(* Mutated form: an unproved barge-in is never retracted. *)
OnTickNeverRetracting(dt) ==
  \/ state \in Timed /\ ~ Expired(dt) /\ TimePasses(dt)
  \/ state = "Listening" /\ Expired(dt) /\ EndSession
  \/ state = "UserSpeaking" /\ Expired(dt) /\ ForceEndpoint
  \/ state \in {"Finalizing", "AwaitingAgent"} /\ Expired(dt) /\ GiveUpOnTurn
  \/ (state \notin Timed \/ (state = "Interrupting" /\ Expired(dt))) /\ Ignored

OnTick(dt) ==
  \/ state \in Timed /\ ~ Expired(dt) /\ TimePasses(dt)
  \/ state = "Listening" /\ Expired(dt) /\ EndSession
  \/ state = "UserSpeaking" /\ Expired(dt) /\ ForceEndpoint
  \/ state \in {"Finalizing", "AwaitingAgent"} /\ Expired(dt) /\ GiveUpOnTurn
  \/ state = "Interrupting" /\ Expired(dt) /\ RetractBargeIn
  \/ state \notin Timed /\ Ignored

----------------------------------------------------------------------------
(* push_frame: the ring drops its oldest frame when full.  It returns nothing. *)

PushFrame ==
  /\ state # "Idle"
  /\ preroll' = Append(IF Len(preroll) = PreRollFrames THEN Tail(preroll) ELSE preroll, session)
  /\ out' = <<>>
  /\ UNCHANGED <<state, turnVars, wordVars, agent_turn_complete, elapsed, session>>

----------------------------------------------------------------------------

Init ==
  /\ state = "Idle"
  /\ current_turn = NoTurn
  /\ pending_cancel_turn = NoTurn
  /\ turn_counter = 0
  /\ current_utterance = NoText
  /\ last_failed_utterance = NoText
  /\ agent_turn_complete = FALSE
  /\ elapsed = [s \in Timed |-> 0]
  /\ preroll = <<>>
  /\ session = 0
  /\ out = <<>>

Tick == \E dt \in TickLengths : OnTick(dt)

Control == OnSessionStart \/ OnSessionEnd \/ OnPttPressed \/ OnPttReleased
Detectors == OnSpeechStart \/ OnSpeechEnd \/ OnBargeInConfirmed

(* Results of asynchronous work may name any turn ever begun, stale or not. *)
Results(t) ==
  \/ OnPartialTranscript(t)
  \/ \E text \in Text : OnFinalTranscript(t, text)
  \/ OnFinalTranscriptRejected(t)
  \/ OnSubmitSucceeded(t)
  \/ OnSubmitFailed(t)
  \/ OnAgentTextArrived(t)
  \/ OnAgentTurnComplete(t)
  \/ OnPlaybackDrained(t)

Next == Tick \/ Control \/ Detectors \/ PushFrame \/ \E t \in 1..turn_counter : Results(t)

Spec == Init /\ [][Next]_vars

----------------------------------------------------------------------------
(* Properties. *)

Outputs ==
  [kind : {"StartCapture", "StopCapture", "CancelPlayback", "FlushOutputBuffer", "ShowPartial"}]
  \cup [kind : {"CancelSynthesis", "ResumeSpeaking", "ReplayPreRoll"}, turn : Turn]
  \cup [kind : {"SubmitUtterance"}, turn : Turn, text : Text]
  \cup [kind : {"EmitState"}, state : State]

(* Every variable has its type.  The clock of a timed state is always short of
   its window: no tick, however long, leaves a timer past its limit. *)
TypeOK ==
  /\ state \in State
  /\ current_turn \in Turn \cup {NoTurn}
  /\ pending_cancel_turn \in Turn \cup {NoTurn}
  /\ turn_counter \in 0..MaxTurn
  /\ current_utterance \in Text \cup {NoText}
  /\ last_failed_utterance \in Text \cup {NoText}
  /\ agent_turn_complete \in BOOLEAN
  /\ elapsed \in [Timed -> Nat]
  /\ \A s \in Timed : elapsed[s] < Timeout[s]
  /\ preroll \in Seq(0..MaxSession)
  /\ session \in 0..MaxSession
  /\ out \in Seq(Outputs)

(* Who holds the turn agrees with the phase: there is a current turn exactly
   outside Idle and Listening, a parked one exactly while Interrupting, and it
   is older than the candidate that shadows it.  While the user or the agent's
   answer is being waited for, the current turn is the newest one. *)
TurnStructure ==
  /\ current_turn <= turn_counter
  /\ current_turn = NoTurn <=> state \in {"Idle", "Listening"}
  /\ pending_cancel_turn # NoTurn <=> state = "Interrupting"
  /\ state = "Interrupting" => pending_cancel_turn < current_turn
  /\ state \in {"UserSpeaking", "Finalizing", "Submitting", "AwaitingAgent", "Interrupting"}
       => current_turn = turn_counter

(* Audio of one session is never replayed into another: whatever the ring
   holds was captured in the session that is running, and none outside one. *)
PreRollOfThisSession ==
  /\ Len(preroll) <= PreRollFrames
  /\ \A i \in 1..Len(preroll) : preroll[i] = session
  /\ state = "Idle" => preroll = <<>>

(* A turn that is neither current nor parked is over for good: no input, in
   any order, makes it current or parked again, so a result that comes late
   can never be taken for one that is expected. *)
AbandonedTurnNeverReturns ==
  [][\A t \in 1..turn_counter :
       t \notin {current_turn, pending_cancel_turn}
         => t \notin {current_turn', pending_cancel_turn'}]_vars

(* A timed state is entered with its clock at zero, by whatever path: time
   spent in an earlier visit never shortens the window of this one. *)
TimersStartFresh ==
  [][\A s \in Timed : state' = s /\ state # s => elapsed'[s] = 0]_vars

(* A turn that began is settled in the end, unless it is waiting for something
   that has no timer: the answer to a submission, or the agent's speech. *)
TurnsAreSettled ==
  \A t \in Turn :
    current_turn = t ~> (current_turn # t \/ state \in {"Submitting", "AgentSpeaking"})
=============================================================================
