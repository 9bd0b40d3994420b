------------------------------ MODULE Pipeline ------------------------------
(***************************************************************************)
(* The conversation pipeline of buzztalk-pipeline: the orchestration       *)
(* thread (pipeline.rs, Orchestrator) around the session machine, the      *)
(* recognizer and synthesizer worker threads (stt_worker.rs, tts_worker.rs)*)
(* and the agent behind the AgentBackend trait (agent.rs).                 *)
(*                                                                         *)
(* The orchestrator is one thread that goes round a loop (`phase`).        *)
(* `agenda` is what its call stack still has to do: the outputs of a       *)
(* dispatch that act has not reached, and the statements that follow a     *)
(* nested dispatch.  While it works through the agenda the other threads   *)
(* go on.                                                                  *)
(*                                                                         *)
(* An utterance is the set of turns whose audio it was decoded from; {} is *)
(* a transcript without words.  A phrase of the agent's comes back from    *)
(* the synthesizer as some number of pieces of audio, and the lead and the *)
(* engine's ring are counted in pieces.  Time is abstracted to whether a   *)
(* tick ends the current window.                                           *)
(***************************************************************************)
EXTENDS Session, Integers, FiniteSets

CONSTANTS
  SttCapacity,        \* AUDIO_QUEUE_CAPACITY
  Lead,               \* JIT_LEAD_FRAMES, in pieces of audio
  DeadCaptureFinals,  \* DEAD_CAPTURE_EMPTY_FINALS
  MaxChunks,          \* bound: text chunks of one reply
  MaxPhrases,         \* bound: phrases of one text chunk
  Pieces,             \* how many pieces of audio a phrase can be
  MaxBehind,          \* bound: pieces the device plays beyond what it was given
  Hazards             \* what may go wrong, out of AllHazards

AllHazards == {"barge-in",          \* the user talks over the agent
               "late reply",        \* text after the agent said it was complete
               "synthesis error",   \* a phrase cannot be synthesized
               "stt missing", "tts missing",   \* an engine could not be loaded
              "stt dies", "tts dies",
               "device"}            \* the device watchdog asks for a rebuild

ASSUME UtteranceAssumption == Text = SUBSET Turn
ASSUME PipelineAssumption ==
  /\ {SttCapacity, Lead, DeadCaptureFinals, MaxChunks, MaxPhrases} \subseteq Nat \ {0}
  /\ Pieces \subseteq Nat \ {0}
  /\ MaxBehind \in Nat
  /\ Hazards \subseteq AllHazards

VARIABLES
  phase, agenda,                       \* the loop and its call stack
  capturing, stt_active_turn, consecutive_empty_finals,
  playback,                            \* PlaybackState
  pushed, ahead,                       \* the JIT feeder: since its anchor, pieces given
                                       \* less pieces of time
  ring,                                \* what the engine really holds
  tts_pending,                         \* phrases sent and not come back, per turn
  stt, stt_requests, hearing, stt_results,           \* the recognizer worker
  tts, tts_requests, tts_cancelled, tts_results,     \* the synthesizer worker
  asked, complete, chunks, agent_events,             \* the agent
  unheard                              \* ghost: phrases asked for, not yet wholly in the ring

loopVars == <<phase, agenda>>
captureVars == <<capturing, stt_active_turn, consecutive_empty_finals>>
feedVars == <<pushed, ahead, ring>>
playVars == <<playback, feedVars, tts_pending>>
sttVars == <<stt, stt_requests, hearing, stt_results>>
ttsVars == <<tts, tts_requests, tts_cancelled, tts_results>>
agentVars == <<asked, complete, chunks, agent_events>>
pvars == <<vars, loopVars, captureVars, playVars, sttVars, ttsVars, agentVars, unheard>>

PB == INSTANCE Playback

(* The statements an agenda can hold besides the outputs of the machine. *)
Dispatch(input, t) == [kind |-> "Dispatch", input |-> input, turn |-> t]
DispatchFinal(t, text) == [kind |-> "DispatchFinal", turn |-> t, text |-> text]
Detect == Plain("Detect")
Transcribe == Plain("Transcribe")
ResetStt == Plain("ResetStt")
Synthesize(t) == [kind |-> "Synthesize", turn |-> t]
FinishIfSilent(t) == [kind |-> "FinishIfSilent", turn |-> t]

Audio(t, of) == [kind |-> "PushAudio", turn |-> t, of |-> of]
Finish(t) == [kind |-> "FinishUtterance", turn |-> t]
Partial(t) == [kind |-> "Partial", turn |-> t]
Final(t, text) == [kind |-> "Final", turn |-> t, text |-> text]

Phrase(t) == [kind |-> "Synthesize", turn |-> t]
Cancel(t) == [kind |-> "Cancel", turn |-> t]

Idling == agenda = <<>>
Rest == Tail(agenda)

(* The orchestrator does something that is not a call of the machine. *)
NoCall == out' = <<>> /\ UNCHANGED machine

(* A call of the machine has been made: act on its outputs, then on the rest. *)
ActOnOutputsThen(rest) == agenda' = out' \o rest

----------------------------------------------------------------------------
(* The recognizer worker as the orchestrator uses it. *)

SttIdle == UNCHANGED sttVars

(* push_audio: the audio is dropped when the queue is full. *)
TrySendStt(request) ==
  /\ stt_requests' = IF stt = "running" /\ Len(stt_requests) < SttCapacity
                     THEN Append(stt_requests, request) ELSE stt_requests
  /\ UNCHANGED <<stt, hearing, stt_results>>

(* A blocking send: it waits for room; nothing is sent to a dead worker, nor
   without one. *)
SendStt(request) ==
  /\ IF stt = "running"
     THEN Len(stt_requests) < SttCapacity /\ stt_requests' = Append(stt_requests, request)
     ELSE UNCHANGED stt_requests
  /\ UNCHANGED <<stt, hearing, stt_results>>

(* The request channel of the synthesizer is unbounded. *)
SendTts(requests) ==
  /\ tts_requests' = IF tts = "running" THEN tts_requests \o requests ELSE tts_requests
  /\ UNCHANGED <<tts, tts_cancelled, tts_results>>

----------------------------------------------------------------------------
(* act: what the orchestrator does with each output. *)

ActCapture(o) ==
  /\ o.kind \in {"StartCapture", "StopCapture"}
  /\ capturing' = (o.kind = "StartCapture")
  /\ agenda' = Rest
  /\ NoCall
  /\ UNCHANGED <<phase, stt_active_turn, consecutive_empty_finals, playVars, sttVars, ttsVars,
                 agentVars, unheard>>

(* The outputs that only change what may be heard. *)
ActPlayback(o) ==
  /\ \/ o.kind = "ShowPartial" /\ UNCHANGED playback
     \/ o.kind = "CancelPlayback" /\ playback' = PB!CancelPlayback(playback)
     \/ o.kind = "FlushOutputBuffer" /\ playback' = PB!Flush(playback)
     \/ o.kind = "ResumeSpeaking" /\ playback' = PB!Resume(playback, o.turn)
  /\ agenda' = Rest
  /\ NoCall
  /\ UNCHANGED <<phase, captureVars, feedVars, tts_pending, sttVars, ttsVars,
                 agentVars, unheard>>

ActCancelSynthesis(o) ==
  /\ o.kind = "CancelSynthesis"
  /\ playback' = PB!CancelSynthesis(playback, o.turn)
  /\ SendTts(<<Cancel(o.turn)>>)
  /\ agenda' = Rest
  /\ NoCall
  /\ UNCHANGED <<phase, captureVars, feedVars, tts_pending, sttVars, agentVars, unheard>>

(* The backend's submit returns at once and is reported as a success, before
   the outputs that follow are acted on. *)
ActSubmit(o) ==
  /\ o.kind = "SubmitUtterance"
  /\ asked' = asked \cup {o.turn}
  /\ OnSubmitSucceeded(o.turn)
  /\ ActOnOutputsThen(Rest)
  /\ UNCHANGED <<phase, captureVars, playVars, sttVars, ttsVars, complete, chunks, agent_events,
                 unheard>>

(* The ring of recent audio goes to the recognizer as the candidate's, all of
   it, although it may hold the end of the turn before (Recognition): what is
   said of whose words were submitted is said without barge-ins. *)
ActReplay(o) ==
  /\ o.kind = "ReplayPreRoll"
  /\ IF preroll # <<>> THEN SendStt(Audio(o.turn, o.turn)) ELSE SttIdle
  /\ stt_active_turn' = o.turn
  /\ agenda' = Rest
  /\ NoCall
  /\ UNCHANGED <<phase, capturing, consecutive_empty_finals, playVars, ttsVars, agentVars,
                 unheard>>

(* Whose audio is transcribed: nobody's once the machine listens or is idle,
   and a new speaker's only if it is nobody's. *)
NextSttTurn(s) ==
  CASE s \in {"Listening", "Idle"} -> NoTurn
    [] s = "UserSpeaking" /\ stt_active_turn = NoTurn -> current_turn
    [] OTHER -> stt_active_turn

ActStateResetting(o, atIdle) ==
  /\ o.kind = "EmitState"
  /\ stt_active_turn' = NextSttTurn(o.state)
  /\ IF o.state = "Finalizing" /\ current_turn # NoTurn THEN SendStt(Finish(current_turn))
     ELSE IF o.state = "Idle" THEN atIdle ELSE SttIdle
  /\ agenda' = Rest
  /\ NoCall
  /\ UNCHANGED <<phase, capturing, consecutive_empty_finals, playVars, ttsVars, agentVars,
                 unheard>>

(* Mutated form: what the recognizer has buffered outlives the session. *)
ActStateWithoutReset(o) == ActStateResetting(o, SttIdle)

(* on_state_changed. *)
ActState(o) == ActStateResetting(o, SendStt(Plain("Reset")))

----------------------------------------------------------------------------
(* The statements after a dispatch. *)

(* A nested call of the machine. *)
CallMachine(o) ==
  /\ \/ o.kind = "Dispatch" /\ o.input = "SessionEnd" /\ OnSessionEnd
     \/ o.kind = "Dispatch" /\ o.input = "SessionStart" /\ OnSessionStart
     \/ o.kind = "Dispatch" /\ o.input = "Rejected" /\ OnFinalTranscriptRejected(o.turn)
     \/ o.kind = "DispatchFinal" /\ OnFinalTranscript(o.turn, o.text)
  /\ ActOnOutputsThen(Rest)
  /\ UNCHANGED <<phase, captureVars, playVars, sttVars, ttsVars, agentVars, unheard>>

(* Mutated form: the chunk is counted instead of its phrases. *)
CountChunk(t, n) == tts_pending' = [tts_pending EXCEPT ![t] = @ + 1]

CountPhrases(t, n) == tts_pending' = [tts_pending EXCEPT ![t] = @ + n]

(* The phrases of the chunk that has arrived go to the synthesizer. *)
SynthesizeChunk(o) ==
  /\ o.kind = "Synthesize"
  /\ IF tts = "lost" THEN UNCHANGED <<ttsVars, tts_pending, unheard>>
     ELSE \E n \in 0..MaxPhrases :
            /\ SendTts([i \in 1..n |-> Phrase(o.turn)])
            /\ CountPhrases(o.turn, n)
            /\ unheard' = [unheard EXCEPT ![o.turn] = @ + n]
  /\ agenda' = Rest
  /\ NoCall
  /\ UNCHANGED <<phase, captureVars, playback, feedVars, sttVars, agentVars>>

(* The estimate of what the ring still holds. *)
Resident == IF ahead < 0 THEN 0 ELSE ahead

NothingLeftToPlay(t) ==
  \/ ~ PB!Recognises(playback, t)
  \/ /\ tts_pending[t] = 0
     /\ PB!IsLive(playback, t)
     /\ playback.live = <<>>
     /\ Resident = 0

SignalDrained(t, rest) ==
  /\ tts_pending' = [tts_pending EXCEPT ![t] = 0]
  /\ OnPlaybackDrained(t)
  /\ ActOnOutputsThen(rest)

(* The end of a reply that has no audio, or none left, ends the turn here. *)
FinishTurnIfSilent(o) ==
  /\ o.kind = "FinishIfSilent"
  /\ IF NothingLeftToPlay(o.turn) THEN SignalDrained(o.turn, Rest)
     ELSE agenda' = Rest /\ NoCall /\ UNCHANGED tts_pending
  /\ UNCHANGED <<phase, captureVars, playback, feedVars, sttVars, ttsVars, agentVars,
                 unheard>>

ResetRecognizer(o) ==
  /\ o.kind = "ResetStt"
  /\ SendStt(Plain("Reset"))
  /\ agenda' = Rest
  /\ NoCall
  /\ UNCHANGED <<phase, captureVars, playVars, ttsVars, agentVars, unheard>>

(* process_frame: the detector of the state hears the frame. *)
DetectSpeech(o) ==
  /\ o.kind = "Detect"
  /\ \/ /\ state = "AgentSpeaking" /\ "barge-in" \in Hazards
        /\ OnBargeInConfirmed
     \/ /\ state \in {"Listening", "UserSpeaking"}
        /\ OnSpeechStart \/ OnSpeechEnd
     \/ NoCall
  /\ ActOnOutputsThen(Rest)
  /\ UNCHANGED <<phase, captureVars, playVars, sttVars, ttsVars, agentVars, unheard>>

(* ... and the frame is the recognizer's while the user is heard. *)
TranscribeFrame(o) ==
  /\ o.kind = "Transcribe"
  /\ IF stt_active_turn # NoTurn /\ state \in {"UserSpeaking", "Interrupting"}
     THEN TrySendStt(Audio(stt_active_turn, current_turn)) ELSE SttIdle
  /\ agenda' = Rest
  /\ NoCall
  /\ UNCHANGED <<phase, captureVars, playVars, ttsVars, agentVars, unheard>>

Act ==
  /\ agenda # <<>>
  /\ LET o == Head(agenda) IN
       \/ ActCapture(o) \/ ActPlayback(o) \/ ActCancelSynthesis(o) \/ ActSubmit(o)
       \/ ActReplay(o) \/ ActState(o)
       \/ CallMachine(o) \/ SynthesizeChunk(o) \/ FinishTurnIfSilent(o) \/ ResetRecognizer(o)
       \/ DetectSpeech(o) \/ TranscribeFrame(o)

----------------------------------------------------------------------------
(* The loop: control messages and the tick, one frame of audio, the device
   watchdog, then the results of the workers and the agent, then the feeder.
   Each phase drains its source before the next begins. *)

LoopOnly == UNCHANGED <<captureVars, playVars, sttVars, ttsVars, agentVars, unheard>>

DrainControl ==
  /\ phase = "control" /\ Idling
  /\ OnSessionStart \/ OnSessionEnd \/ OnPttPressed \/ OnPttReleased
  /\ ActOnOutputsThen(<<>>)
  /\ LoopOnly /\ UNCHANGED phase

(* Shutdown: the loop is left and the session ended. *)
Shutdown ==
  /\ phase = "control" /\ Idling
  /\ phase' = "stopped"
  /\ OnSessionEnd
  /\ ActOnOutputsThen(<<>>)
  /\ LoopOnly

TickMachine ==
  /\ phase = "control" /\ Idling
  /\ phase' = "audio"
  /\ Tick
  /\ ActOnOutputsThen(<<>>)
  /\ LoopOnly

(* process_frame, once for each frame that waits. *)
PumpFrame ==
  /\ phase = "audio" /\ Idling
  /\ IF capturing /\ state # "Idle" THEN PushFrame ELSE NoCall
  /\ agenda' = <<Detect, Transcribe>>
  /\ LoopOnly /\ UNCHANGED phase

NoFrame ==
  /\ phase = "audio" /\ Idling
  /\ phase' = "device"
  /\ NoCall
  /\ LoopOnly /\ UNCHANGED agenda

(* rebuild_engine: it opens a new engine and restarts the session, or fails and
   leaves everything as it is, `count` empty finals included. *)
RebuildEngine(count, rest) ==
  \/ /\ session < MaxSession
     /\ stt_active_turn' = NoTurn
     /\ pushed' = FALSE
     /\ ahead' = 0
     /\ ring' = 0
     /\ consecutive_empty_finals' = 0
     /\ agenda' = <<ResetStt, Dispatch("SessionEnd", NoTurn), Dispatch("SessionStart", NoTurn)>>
                  \o rest
  \/ /\ consecutive_empty_finals' = count
     /\ agenda' = rest
     /\ UNCHANGED <<stt_active_turn, feedVars>>

KeepEngine(count, rest) ==
  /\ consecutive_empty_finals' = count
  /\ agenda' = rest
  /\ UNCHANGED <<stt_active_turn, feedVars>>

CheckDevice ==
  /\ phase = "device" /\ Idling
  /\ phase' = "stt"
  /\ NoCall
  /\ \/ "device" \in Hazards /\ RebuildEngine(consecutive_empty_finals, <<>>)
     \/ KeepEngine(consecutive_empty_finals, <<>>)
  /\ UNCHANGED <<capturing, playback, tts_pending, sttVars, ttsVars, agentVars, unheard>>

(* A partial goes straight to the machine. *)
HandlePartial(r) ==
  /\ r.kind = "Partial"
  /\ OnPartialTranscript(r.turn)
  /\ ActOnOutputsThen(<<>>)
  /\ UNCHANGED <<captureVars, feedVars>>

(* A final without words, or with too few of them, counts towards a rebuild;
   so does one that the fragment filter drops.  Both judge words and durations,
   so either may hold of any final that has words.  The count saturates: it is
   only ever compared with DeadCaptureFinals. *)
HandleFinal(r) ==
  /\ r.kind = "Final"
  /\ \E fragment \in {FALSE, r.text # {}}, clears \in {FALSE, r.text # {}} :
       LET submit == <<IF fragment THEN Dispatch("Rejected", r.turn)
                       ELSE DispatchFinal(r.turn, r.text)>>
           count == IF clears /\ ~ fragment THEN 0
                    ELSE IF consecutive_empty_finals = DeadCaptureFinals THEN DeadCaptureFinals
                    ELSE consecutive_empty_finals + 1
       IN IF count = DeadCaptureFinals THEN RebuildEngine(count, submit)
          ELSE KeepEngine(count, submit)
  /\ NoCall
  /\ UNCHANGED capturing

DrainStt ==
  /\ phase = "stt" /\ Idling
  /\ stt_results # <<>>
  /\ HandlePartial(Head(stt_results)) \/ HandleFinal(Head(stt_results))
  /\ stt_results' = Tail(stt_results)
  /\ UNCHANGED <<phase, playback, tts_pending, stt, stt_requests, hearing, ttsVars, agentVars,
                 unheard>>

SttDrained ==
  /\ phase = "stt" /\ Idling
  /\ stt_results = <<>>
  /\ phase' = "agent"
  /\ stt' = IF stt = "dead" THEN "lost" ELSE stt
  /\ NoCall
  /\ UNCHANGED <<agenda, captureVars, playVars, stt_requests, hearing, stt_results, ttsVars,
                 agentVars, unheard>>

(* Text for a turn that is neither current nor heard is dropped; the first of
   a turn makes it the one that is heard. *)
HandleTextChunk(t) ==
  LET started == PB!Recognises(playback, t) IN
  \/ /\ ~ started /\ current_turn # t
     /\ NoCall
     /\ UNCHANGED <<agenda, playback>>
  \/ /\ started \/ current_turn = t
     /\ playback' = IF started THEN playback ELSE PB!Start(playback, t)
     /\ OnAgentTextArrived(t)
     /\ ActOnOutputsThen(<<Synthesize(t)>>)

DrainAgent ==
  /\ phase = "agent" /\ Idling
  /\ agent_events # <<>>
  /\ LET e == Head(agent_events) IN
       \/ e.kind = "TextChunk" /\ HandleTextChunk(e.turn)
       \/ /\ e.kind = "TurnComplete"
          /\ OnAgentTurnComplete(e.turn)
          /\ ActOnOutputsThen(<<FinishIfSilent(e.turn)>>)
          /\ UNCHANGED playback
  /\ agent_events' = Tail(agent_events)
  /\ UNCHANGED <<phase, captureVars, feedVars, tts_pending, sttVars, ttsVars,
                 asked, complete, chunks, unheard>>

AgentDrained ==
  /\ phase = "agent" /\ Idling
  /\ agent_events = <<>>
  /\ phase' = "tts"
  /\ NoCall
  /\ LoopOnly /\ UNCHANGED agenda

(* The pieces of a phrase that has been synthesized; `last` ends the phrase. *)
PiecesOf(t, k) == [i \in 1..k |-> [turn |-> t, last |-> i = k]]

(* Mutated form: a phrase that has come back is still counted. *)
CameBackUncounted(t) == UNCHANGED tts_pending

CameBack(t) == tts_pending' = [tts_pending EXCEPT ![t] = IF @ = 0 THEN 0 ELSE @ - 1]

(* Mutated form: a chunk of an abandoned turn is not told from any other. *)
RouteAnyChunk(t) ==
  \E k \in Pieces : playback' = [playback EXCEPT !.live = @ \o PiecesOf(t, k)]

RouteChunk(t) ==
  \E k \in Pieces : playback' = PB!RouteSynthesized(playback, t, PiecesOf(t, k))

DrainTts ==
  /\ phase = "tts" /\ Idling
  /\ tts_results # <<>>
  /\ CameBack(Head(tts_results).turn)
  /\ RouteChunk(Head(tts_results).turn)
  /\ tts_results' = Tail(tts_results)
  /\ NoCall
  /\ UNCHANGED <<phase, agenda, captureVars, feedVars, sttVars, tts, tts_requests, tts_cancelled,
                 agentVars, unheard>>

(* Without a synthesizer nothing is in flight any more. *)
TtsDrained ==
  /\ phase = "tts" /\ Idling
  /\ tts_results = <<>>
  /\ phase' = "feed"
  /\ IF tts = "dead" THEN tts' = "lost" /\ tts_pending' = [t \in Turn |-> 0]
     ELSE UNCHANGED <<tts, tts_pending>>
  /\ NoCall
  /\ UNCHANGED <<agenda, captureVars, playback, feedVars, sttVars, tts_requests, tts_cancelled,
                 tts_results, agentVars, unheard>>

(* feed_playback: the ring is topped up to the lead by the estimate, made
   before this round's push, of what it still holds.  Once that and the live
   queue are dry the turn that was heard has drained, unless phrases of it are
   still being made. *)
FedCount ==
  IF Len(playback.live) < Lead - Resident THEN Len(playback.live) ELSE Lead - Resident
Fed == SubSeq(playback.live, 1, FedCount)
Finished(t) == Cardinality({i \in 1..FedCount : Fed[i].turn = t /\ Fed[i].last})
RunsDry ==
  /\ pushed \/ playback.live # <<>>
  /\ FedCount = Len(playback.live) /\ Resident = 0

FeedEndingIf(mayEnd) ==
  LET t == playback.live_turn IN
  /\ playback' = PB!TakeLive(playback, FedCount)
  /\ ring' = ring + FedCount
  /\ unheard' = [u \in Turn |-> unheard[u] - Finished(u)]
  /\ pushed' = ((pushed \/ FedCount > 0) /\ ~ RunsDry)
  /\ ahead' = IF RunsDry THEN 0 ELSE ahead + FedCount
  /\ IF RunsDry /\ t # NoTurn /\ mayEnd THEN SignalDrained(t, <<>>)
     ELSE NoCall /\ UNCHANGED <<agenda, tts_pending>>

(* Mutated form: phrases still being made do not hold the turn. *)
FeedIgnoringPending == FeedEndingIf(TRUE)

Feed == FeedEndingIf(tts_pending[playback.live_turn] = 0)

FeedPlayback ==
  /\ phase = "feed" /\ Idling
  /\ phase' = "control"
  /\ Feed
  /\ UNCHANGED <<captureVars, sttVars, ttsVars, agentVars>>

Stopped ==
  /\ phase = "stopped" /\ Idling
  /\ UNCHANGED pvars

Orchestrate ==
  \/ Act
  \/ DrainControl \/ Shutdown \/ TickMachine \/ PumpFrame \/ NoFrame \/ CheckDevice
  \/ DrainStt \/ SttDrained \/ DrainAgent \/ AgentDrained \/ DrainTts \/ TtsDrained
  \/ FeedPlayback

----------------------------------------------------------------------------
(* The other threads. *)

OrchestratorIdle == UNCHANGED <<vars, loopVars, captureVars, playback, pushed, tts_pending,
                                unheard>>

(* Partials are made for some pushes only; a bound keeps the results few. *)
DecodeAudio(r) ==
  /\ r.kind = "PushAudio"
  /\ hearing' = hearing \cup {r.of}
  /\ \/ UNCHANGED stt_results
     \/ Len(stt_results) < SttCapacity /\ stt_results' = Append(stt_results, Partial(r.turn))

(* An utterance is finished with the words heard, or without any. *)
FinishUtterance(r) ==
  /\ r.kind = "FinishUtterance"
  /\ hearing' = {}
  /\ \E text \in {hearing, {}} : stt_results' = Append(stt_results, Final(r.turn, text))

SttWork ==
  /\ stt = "running" /\ stt_requests # <<>>
  /\ LET r == Head(stt_requests) IN
       \/ DecodeAudio(r)
       \/ FinishUtterance(r)
       \/ r.kind = "Reset" /\ hearing' = {} /\ UNCHANGED stt_results
  /\ stt_requests' = Tail(stt_requests)
  /\ OrchestratorIdle /\ UNCHANGED <<stt, ttsVars, agentVars, ahead, ring>>

SttDies ==
  /\ "stt dies" \in Hazards /\ stt = "running"
  /\ stt' = "dead"
  /\ stt_requests' = <<>>
  /\ OrchestratorIdle /\ UNCHANGED <<hearing, stt_results, ttsVars, agentVars, ahead, ring>>

(* A phrase of a cancelled turn is skipped, one that cannot be synthesized is
   passed over: neither has a result. *)
TtsWork ==
  /\ tts = "running" /\ tts_requests # <<>>
  /\ LET r == Head(tts_requests) IN
       \/ /\ r.kind = "Cancel"
          /\ tts_cancelled' = tts_cancelled \cup {r.turn}
          /\ UNCHANGED tts_results
       \/ /\ r.kind = "Synthesize"
          /\ r.turn \in tts_cancelled \/ "synthesis error" \in Hazards
          /\ UNCHANGED <<tts_cancelled, tts_results>>
       \/ /\ r.kind = "Synthesize"
          /\ r.turn \notin tts_cancelled
          /\ tts_results' = Append(tts_results, r)
          /\ UNCHANGED tts_cancelled
  /\ tts_requests' = Tail(tts_requests)
  /\ OrchestratorIdle /\ UNCHANGED <<tts, sttVars, agentVars, ahead, ring>>

TtsDies ==
  /\ "tts dies" \in Hazards /\ tts = "running"
  /\ tts' = "dead"
  /\ tts_requests' = <<>>
  /\ OrchestratorIdle /\ UNCHANGED <<tts_cancelled, tts_results, sttVars, agentVars, ahead, ring>>

(* The agent answers a turn it was asked with chunks of text, then says that it
   is complete; a backend that tells the end from a silence may be wrong. *)
AgentSays(t) ==
  /\ chunks[t] < MaxChunks
  /\ t \notin complete \/ "late reply" \in Hazards
  /\ chunks' = [chunks EXCEPT ![t] = @ + 1]
  /\ agent_events' = Append(agent_events, [kind |-> "TextChunk", turn |-> t])
  /\ UNCHANGED complete

AgentEnds(t) ==
  /\ t \notin complete
  /\ complete' = complete \cup {t}
  /\ agent_events' = Append(agent_events, [kind |-> "TurnComplete", turn |-> t])
  /\ UNCHANGED chunks

AgentWork ==
  /\ \E t \in asked : AgentSays(t) \/ AgentEnds(t)
  /\ OrchestratorIdle /\ UNCHANGED <<asked, sttVars, ttsVars, ahead, ring>>

(* Time passes for the device, which plays what is in its ring, and for the
   feeder's anchor, whether or not there was something to play. *)
PlayOut ==
  /\ ring > 0 \/ (pushed /\ ahead > - MaxBehind)
  /\ ahead' = IF pushed /\ ahead > - MaxBehind THEN ahead - 1 ELSE ahead
  /\ ring' = IF ring = 0 THEN 0 ELSE ring - 1
  /\ OrchestratorIdle /\ UNCHANGED <<sttVars, ttsVars, agentVars>>

PInit ==
  /\ Init
  /\ phase = "control" /\ agenda = <<>>
  /\ capturing = FALSE /\ stt_active_turn = NoTurn /\ consecutive_empty_finals = 0
  /\ playback = PB!Empty /\ pushed = FALSE /\ ahead = 0 /\ ring = 0
  /\ tts_pending = [t \in Turn |-> 0]
  /\ stt \in {"running"} \cup (IF "stt missing" \in Hazards THEN {"lost"} ELSE {})
  /\ stt_requests = <<>> /\ hearing = {} /\ stt_results = <<>>
  /\ tts \in {"running"} \cup (IF "tts missing" \in Hazards THEN {"lost"} ELSE {})
  /\ tts_requests = <<>> /\ tts_cancelled = {} /\ tts_results = <<>>
  /\ asked = {} /\ complete = {} /\ chunks = [t \in Turn |-> 0] /\ agent_events = <<>>
  /\ unheard = [t \in Turn |-> 0]

PNext ==
  \/ Orchestrate \/ Stopped
  \/ SttWork \/ SttDies \/ TtsWork \/ TtsDies \/ AgentWork \/ PlayOut

PSpec == PInit /\ [][PNext]_pvars

(* Each thread is scheduled, the device plays, and it does not capture frames
   faster than they are processed: those that wait in a round run out. *)
PFairSpec ==
  /\ PSpec
  /\ WF_pvars(Orchestrate) /\ WF_pvars(SttWork) /\ WF_pvars(TtsWork)
  /\ WF_pvars(AgentWork) /\ WF_pvars(PlayOut)
  /\ SF_pvars(NoFrame)

----------------------------------------------------------------------------
(* Properties. *)

(* Between two statements of the loop, what the engines are set to agrees with
   the conversation: the turn that can be heard is the one that is speaking; a
   turn is parked exactly while a barge-in is unproved, and silent; no turn that
   is speaking or parked has been abandoned; and the microphone is open exactly
   during a session. *)
EnginesFollowSession ==
  Idling =>
    /\ state = "AgentSpeaking" => PB!IsLive(playback, current_turn)
    /\ playback.paused_turn = pending_cancel_turn
    /\ state = "Interrupting" => playback.live_turn = NoTurn
    /\ {current_turn, pending_cancel_turn} \cap playback.abandoned = {}
    /\ capturing <=> state # "Idle"

(* Only the agent whose turn it is is heard: audio is given to the engine while
   the machine is AgentSpeaking, and it is the current turn's.  A turn that was
   cancelled, by a barge-in, by push to talk or by the end of the session, is
   not heard again, whatever is still on its way from the synthesizer. *)
SpokenWithTheFloor ==
  [][phase = "feed" /\ playback' # playback
       => state = "AgentSpeaking" /\ \A i \in 1..FedCount : Fed[i].turn = current_turn]_pvars

(* Whoever waits for a transcript has asked for it: while the machine is
   Finalizing and the recognizer runs, the request to finish that utterance or
   its answer is on its way, so it is not for the window to end the wait. *)
FinalIsOnItsWay ==
  Idling /\ state = "Finalizing" /\ stt = "running" =>
    \/ \E i \in DOMAIN stt_requests : stt_requests[i] = Finish(current_turn)
    \/ \E i \in DOMAIN stt_results :
         stt_results[i].kind = "Final" /\ stt_results[i].turn = current_turn

(* A reply is never cut short by its own end: when the agent's turn ends because
   playback drained, each phrase of it that was asked for has been given whole
   to the engine, however chunks, results and the agent's end interleave. *)
WholeReplyHeard ==
  [][state = "AgentSpeaking" /\ state' = "Listening" => unheard'[current_turn] = 0]_pvars

(* Phrases of t somewhere between the orchestrator and its feeder. *)
InFlight(t) ==
  Cardinality({i \in DOMAIN tts_requests : tts_requests[i] = Phrase(t)})
  + Cardinality({i \in DOMAIN tts_results : tts_results[i] = Phrase(t)})

(* What tts_pending says of a turn that can still be heard is never less than
   what is on its way for it: the count that holds the end of a turn open. *)
PendingCoversPhrases ==
  \A t \in Turn : PB!Recognises(playback, t) => InFlight(t) <= tts_pending[t]

(* What is submitted as a turn's words was said during that turn: audio of an
   earlier one, given up by a timeout, by push to talk or with its session, is
   not decoded into it. *)
WordsOfTheTurn ==
  [][asked' # asked => Head(agenda).text \subseteq {Head(agenda).turn}]_pvars

(* The agent does not hold the floor for good. *)
ReplyEnds == state = "AgentSpeaking" ~> state # "AgentSpeaking"

=============================================================================
