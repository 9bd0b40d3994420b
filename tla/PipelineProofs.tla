---------------------------- MODULE PipelineProofs ----------------------------
(***************************************************************************)
(* Proofs about the pipeline: what the orchestrator's engines are set to   *)
(* agrees with the conversation, the count that holds a turn open covers   *)
(* the phrases on their way, a transcript that is waited for is on its     *)
(* way, only the agent whose turn it is is heard, a reply is heard whole,  *)
(* and a turn is submitted with words of its own; for any number of turns, *)
(* any sizes and any hazards (but for the last three, whose statements     *)
(* name the hazards they do without).                                      *)
(*                                                                         *)
(* Between the machine's call and the last of the outputs it returned, the *)
(* engines lag behind the conversation.  The invariant says by how much:   *)
(* it names the outputs that are still to be acted on.                     *)
(***************************************************************************)
EXTENDS Pipeline, SessionProofs, FiniteSetTheorems

(* The outputs the playback, the microphone and the submission depend on;
   handle returns them before any other. *)
Weighty == {"CancelPlayback", "FlushOutputBuffer", "CancelSynthesis", "ResumeSpeaking",
            "StartCapture", "StopCapture", "SubmitUtterance"}

Kind(s, n, kind) == n \in DOMAIN s /\ s[n].kind = kind
LightFrom(s, n) == \A i \in DOMAIN s : i >= n => s[i].kind \notin Weighty

(* From the n-th item on, at most one weighty output, that playback is not
   concerned with. *)
Calm(s, n) ==
  \/ LightFrom(s, n) /\ (capturing <=> state # "Idle")
  \/ /\ LightFrom(s, n + 1)
     /\ \/ Kind(s, n, "StartCapture") /\ state # "Idle"
        \/ Kind(s, n, "StopCapture") /\ state = "Idle"
        \/ /\ Kind(s, n, "SubmitUtterance") /\ s[n].turn = current_turn
           /\ state = "Submitting" /\ capturing

(* The n-th item abandons the turn v. *)
Cuts(s, n, v) == Kind(s, n, "CancelSynthesis") /\ s[n].turn = v /\ Calm(s, n + 1)

Untainted == {current_turn, pending_cancel_turn} \cap playback.abandoned = {}

(* Nothing of the last call is left to do to the playback. *)
Agree ==
  /\ state = "AgentSpeaking" => playback.live_turn = current_turn
  /\ playback.paused_turn = pending_cancel_turn
  /\ state = "Interrupting" => playback.live_turn = NoTurn
  /\ current_turn # NoTurn /\ playback.live_turn = current_turn => state = "AgentSpeaking"

(* The turn v is given up, still to be silenced or only to be forgotten. *)
GivenUp(v) ==
  /\ v \notin {current_turn, NoTurn} /\ pending_cancel_turn = NoTurn
  /\ state \in {"Idle", "UserSpeaking", "Submitting"}
Parked(v) == GivenUp(v) /\ playback.live_turn = NoTurn /\ playback.paused_turn = v
Doomed(v) ==
  \/ GivenUp(v) /\ playback.live_turn = v /\ playback.paused_turn = NoTurn
  \/ Parked(v)

(* A barge-in has still to park the agent's turn; a retracted one to take it
   back. *)
Barging ==
  /\ state = "Interrupting" /\ capturing
  /\ playback.live_turn = pending_cancel_turn /\ playback.paused_turn = NoTurn
Resuming ==
  /\ state = "AgentSpeaking" /\ capturing /\ pending_cancel_turn = NoTurn
  /\ playback.live_turn = NoTurn /\ playback.paused_turn = current_turn

Behind ==
  \/ Calm(agenda, 1) /\ Agree
  \/ \E v \in Turn :
       \/ Cuts(agenda, 1, v) /\ Parked(v)
       \/ Kind(agenda, 1, "FlushOutputBuffer") /\ Cuts(agenda, 2, v) /\ Parked(v)
       \/ /\ Kind(agenda, 1, "CancelPlayback") /\ Kind(agenda, 2, "FlushOutputBuffer")
          /\ Cuts(agenda, 3, v) /\ Doomed(v)
  \/ /\ Kind(agenda, 1, "CancelPlayback") /\ Kind(agenda, 2, "FlushOutputBuffer")
     /\ LightFrom(agenda, 3) /\ Barging
  \/ /\ Kind(agenda, 1, "FlushOutputBuffer") /\ LightFrom(agenda, 2)
     /\ state = "Interrupting" /\ capturing /\ Agree
  \/ /\ Kind(agenda, 1, "ResumeSpeaking") /\ agenda[1].turn = current_turn
     /\ LightFrom(agenda, 2) /\ Resuming

(* Who was asked, and what the agent's messages can be about. *)
AskedOK ==
  /\ asked \subseteq 1..turn_counter
  /\ \A i \in DOMAIN agent_events : agent_events[i].turn \in asked
  /\ current_turn \in asked => state \in {"AwaitingAgent", "AgentSpeaking"}

PlaybackOK ==
  /\ playback.live_turn \in 0..turn_counter /\ playback.paused_turn \in 0..turn_counter
  /\ playback.abandoned \subseteq 1..turn_counter
  /\ Untainted

AgreeInv == Behind /\ AskedOK /\ PlaybackOK

(* Phrases on their way, or a chunk still to be cut into phrases, are of a turn
   that began, and one that playback knows if it is current: a turn that starts
   to be heard has nothing on its way yet. *)
Mentions(s, t) == \E i \in DOMAIN s : s[i].kind = "Synthesize" /\ s[i].turn = t
OnItsWay(t) == InFlight(t) > 0 \/ Mentions(agenda, t)
PhrasesKnown ==
  \A t \in Turn : OnItsWay(t) =>
     t <= turn_counter /\ (t = current_turn => PB!Recognises(playback, t))
WorkerOK ==
  /\ tts # "running" => tts_requests = <<>>
  /\ tts = "lost" => tts_results = <<>>
CoverInv == PhrasesKnown /\ PendingCoversPhrases /\ WorkerOK

----------------------------------------------------------------------------
(* Types. *)

Statements ==
  [kind : {"Dispatch"}, input : {"SessionStart", "SessionEnd"}, turn : {NoTurn}]
  \cup [kind : {"Dispatch"}, input : {"Rejected"}, turn : Turn]
  \cup [kind : {"DispatchFinal"}, turn : Turn, text : Text]
  \cup [kind : {"Detect", "Transcribe", "ResetStt"}]
  \cup [kind : {"Synthesize", "FinishIfSilent"}, turn : Turn]
Items == Outputs \cup Statements

Piece == [turn : Turn, last : BOOLEAN]
PlaybackStates ==
  [live_turn : Turn \cup {NoTurn}, live : Seq(Piece),
   paused_turn : Turn \cup {NoTurn}, queued : Seq(Piece), abandoned : SUBSET Turn]

SttRequests == [kind : {"PushAudio"}, turn : Turn, of : Turn]
               \cup [kind : {"FinishUtterance"}, turn : Turn] \cup [kind : {"Reset"}]
SttResults == [kind : {"Partial"}, turn : Turn] \cup [kind : {"Final"}, turn : Turn, text : Text]

MachineTypes == TurnsOK /\ WordsOK /\ out \in Seq(Outputs)

LoopTypes ==
  /\ agenda \in Seq(Items)
  /\ capturing \in BOOLEAN
  /\ stt_active_turn \in Turn \cup {NoTurn}
  /\ playback \in PlaybackStates
  /\ pushed \in BOOLEAN /\ ahead \in Int /\ ahead <= Lead /\ ring \in Nat
  /\ tts_pending \in [Turn -> Nat]

MessageTypes ==
  /\ stt_requests \in Seq(SttRequests) /\ hearing \subseteq Turn
  /\ stt_results \in Seq(SttResults)
  /\ tts \in {"running", "dead", "lost"}
  /\ tts_requests \in Seq([kind : {"Synthesize", "Cancel"}, turn : Turn])
  /\ tts_results \in Seq([kind : {"Synthesize"}, turn : Turn])
  /\ asked \subseteq Turn /\ complete \subseteq Turn
  /\ agent_events \in Seq([kind : {"TextChunk", "TurnComplete"}, turn : Turn])

Types == MachineTypes /\ LoopTypes /\ MessageTypes

----------------------------------------------------------------------------
(* The calls the orchestrator makes of the machine. *)

Called == Next \/ NoCall \/ \E t \in Turn : Results(t)

(* A result for a turn that never began is ignored. *)
LEMMA CallIsStep == ASSUME TurnsOK, Called PROVE [Next]_vars \/ NoCall
<1>1. ASSUME NEW t \in Turn, Results(t) PROVE [Next]_vars \/ NoCall
  <2>1. CASE t \in 1..turn_counter
    BY <1>1, <2>1 DEF Next
  <2>2. CASE t \notin 1..turn_counter
    <3>1. ~ IsCurrent(t)
      BY <2>2, BoundsAssumption DEF IsCurrent, TurnsOK, TurnStructure, Turn
    <3>. QED
      BY <1>1, <3>1
      DEF Results, OnPartialTranscript, OnFinalTranscript, FinalTranscriptIn,
          OnFinalTranscriptRejected, OnSubmitSucceeded, OnSubmitFailed, SubmitFailedKeeping,
          OnAgentTextArrived, OnAgentTurnComplete, OnPlaybackDrained, Ignored, NoCall
  <2>. QED  BY <2>1, <2>2
<1>. QED  BY <1>1 DEF Called

LEMMA CallTypes == ASSUME MachineTypes, Called PROVE MachineTypes'
<1>1. CASE [Next]_vars
  BY <1>1, TurnsStep, OutputsStep DEF MachineTypes
<1>2. CASE NoCall
  BY <1>2, NoOutputs
  DEF NoCall, machine, turnVars, wordVars, MachineTypes, TurnsOK, TurnStructure, WordsOK
<1>. QED  BY <1>1, <1>2, CallIsStep DEF MachineTypes

(* What a call does to the phase and the turns, and what it returns. *)
StaysPut == UNCHANGED <<state, turnVars>> /\ out' \in {<<>>, <<ShowPartial>>}
Moves(S, next) == state \in S /\ state' = next /\ pending_cancel_turn' = pending_cancel_turn
SameTurn == UNCHANGED <<current_turn, turn_counter>>
NewTurn ==
  turn_counter < MaxTurn /\ turn_counter' = turn_counter + 1 /\ current_turn' = turn_counter + 1
NoTurns == current_turn' = NoTurn /\ pending_cancel_turn' = NoTurn /\ UNCHANGED turn_counter

Soft ==
  /\ out' = <<EmitState(state')>>
  /\ \/ /\ Moves({"Finalizing", "Submitting", "AwaitingAgent", "AgentSpeaking"}, "Listening")
        /\ current_turn' = NoTurn /\ UNCHANGED turn_counter
     \/ /\ Moves({"Listening", "Finalizing", "Submitting", "AwaitingAgent"}, "UserSpeaking")
        /\ NewTurn
     \/ Moves({"UserSpeaking"}, "Finalizing") /\ SameTurn
     \/ Moves({"Submitting"}, "AwaitingAgent") /\ SameTurn
Answers ==
  out' = <<EmitState("AgentSpeaking")>> /\ Moves({"AwaitingAgent"}, "AgentSpeaking") /\ SameTurn
Starts ==
  /\ state = "Idle" /\ state' = "Listening" /\ NoTurns
  /\ out' = <<StartCapture, EmitState("Listening")>>
Ends ==
  /\ state # "Idle" /\ state' = "Idle" /\ NoTurns
  /\ IF state \in {"AgentSpeaking", "Interrupting"}
     THEN out' = <<CancelPlayback, FlushOutputBuffer, CancelSynthesis(VoiceTurn), StopCapture,
                   EmitState("Idle")>>
     ELSE out' = <<StopCapture, EmitState("Idle")>>
Submits ==
  /\ Moves({"Finalizing"}, "Submitting") /\ SameTurn
  /\ \E text \in Text : out' = <<SubmitUtterance(current_turn, text), EmitState("Submitting")>>
Confirms ==
  /\ state = "Interrupting" /\ pending_cancel_turn' = NoTurn /\ SameTurn
  /\ \/ /\ state' = "UserSpeaking"
        /\ \/ out' = <<CancelSynthesis(pending_cancel_turn), EmitState("UserSpeaking")>>
           \/ out' = <<CancelSynthesis(pending_cancel_turn), ShowPartial, EmitState("UserSpeaking")>>
     \/ /\ state' = "Submitting"
        /\ \E text \in Text :
             out' = <<CancelSynthesis(pending_cancel_turn), SubmitUtterance(current_turn, text),
                      EmitState("Submitting")>>
Seizes ==
  /\ Moves({"AgentSpeaking"}, "UserSpeaking") /\ NewTurn
  /\ out' = <<CancelPlayback, FlushOutputBuffer, CancelSynthesis(current_turn),
              EmitState("UserSpeaking")>>
BargesIn ==
  /\ state = "AgentSpeaking" /\ state' = "Interrupting"
  /\ pending_cancel_turn' = current_turn /\ NewTurn
  /\ out' = <<CancelPlayback, FlushOutputBuffer, ReplayPreRoll(current_turn'),
              EmitState("Interrupting")>>
Retracts ==
  /\ state = "Interrupting" /\ state' = "AgentSpeaking"
  /\ current_turn' = pending_cancel_turn /\ pending_cancel_turn' = NoTurn
  /\ UNCHANGED turn_counter
  /\ out' = <<ResumeSpeaking(pending_cancel_turn), EmitState("AgentSpeaking")>>

CallEffect == \/ StaysPut \/ Soft \/ Answers \/ Starts \/ Ends \/ Submits
           \/ Confirms \/ Seizes \/ BargesIn \/ Retracts

LEMMA SameSequence ==
  ASSUME NEW S, NEW s \in Seq(S), NEW t \in Seq(S), Len(s) = Len(t),
         \A i \in 1..Len(s) : s[i] = t[i]
  PROVE  s = t
OBVIOUS

LEMMA Joined2 == ASSUME NEW a, NEW b PROVE <<a>> \o <<b>> = <<a, b>>
<1>. DEFINE S == {a, b}
            s == <<a>> \o <<b>>
            t == <<a, b>>
<1>1. <<a>> \in Seq(S) /\ <<b>> \in Seq(S) /\ t \in Seq(S)
  OBVIOUS
<1>2. s \in Seq(S) /\ Len(s) = 2 /\ s[1] = a /\ s[2] = b
  BY <1>1
<1>3. Len(t) = 2 /\ t[1] = a /\ t[2] = b
  OBVIOUS
<1>. HIDE DEF s, t, S
<1>4. s = t
  BY <1>1, <1>2, <1>3, SameSequence
<1>. QED  BY <1>4 DEF s, t

LEMMA Joined3 == ASSUME NEW a, NEW b, NEW c PROVE <<a, b>> \o <<c>> = <<a, b, c>>
<1>. DEFINE S == {a, b, c}
            s == <<a, b>> \o <<c>>
            t == <<a, b, c>>
<1>1. <<a, b>> \in Seq(S) /\ <<c>> \in Seq(S) /\ t \in Seq(S)
  OBVIOUS
<1>2. s \in Seq(S) /\ Len(s) = 3 /\ s[1] = a /\ s[2] = b /\ s[3] = c
  BY <1>1
<1>3. Len(t) = 3 /\ t[1] = a /\ t[2] = b /\ t[3] = c
  OBVIOUS
<1>. HIDE DEF s, t, S
<1>4. s = t
  BY <1>1, <1>2, <1>3, SameSequence
<1>. QED  BY <1>4 DEF s, t

LEMMA Joined4 == ASSUME NEW a, NEW b, NEW c, NEW d PROVE <<a, b, c>> \o <<d>> = <<a, b, c, d>>
<1>. DEFINE S == {a, b, c, d}
            s == <<a, b, c>> \o <<d>>
            t == <<a, b, c, d>>
<1>1. <<a, b, c>> \in Seq(S) /\ <<d>> \in Seq(S) /\ t \in Seq(S)
  OBVIOUS
<1>2. s \in Seq(S) /\ Len(s) = 4 /\ s[1] = a /\ s[2] = b /\ s[3] = c /\ s[4] = d
  BY <1>1
<1>3. Len(t) = 4 /\ t[1] = a /\ t[2] = b /\ t[3] = c /\ t[4] = d
  OBVIOUS
<1>. HIDE DEF s, t, S
<1>4. s = t
  BY <1>1, <1>2, <1>3, SameSequence
<1>. QED  BY <1>4 DEF s, t

LEMMA Joined5 == ASSUME NEW a, NEW b, NEW c, NEW d, NEW e PROVE <<a, b, c, d>> \o <<e>> = <<a, b, c, d, e>>
<1>. DEFINE S == {a, b, c, d, e}
            s == <<a, b, c, d>> \o <<e>>
            t == <<a, b, c, d, e>>
<1>1. <<a, b, c, d>> \in Seq(S) /\ <<e>> \in Seq(S) /\ t \in Seq(S)
  OBVIOUS
<1>2. s \in Seq(S) /\ Len(s) = 5 /\ s[1] = a /\ s[2] = b /\ s[3] = c /\ s[4] = d /\ s[5] = e
  BY <1>1
<1>3. Len(t) = 5 /\ t[1] = a /\ t[2] = b /\ t[3] = c /\ t[4] = d /\ t[5] = e
  OBVIOUS
<1>. HIDE DEF s, t, S
<1>4. s = t
  BY <1>1, <1>2, <1>3, SameSequence
<1>. QED  BY <1>4 DEF s, t

LEMMA Joined1 == ASSUME NEW a PROVE <<>> \o <<a>> = <<a>> /\ <<a>> \o <<>> = <<a>>
<1>1. <<a>> \in Seq({a})
  OBVIOUS
<1>. QED  BY <1>1

(* The outputs of a call that changes the phase. *)
LEMMA Returned ==
  ASSUME state' # state
  PROVE  /\ Return(<<>>) => out' = <<EmitState(state')>>
         /\ \A a : Return(<<a>>) => out' = <<a, EmitState(state')>>
         /\ \A a : Return(<<a>> \o <<>>) => out' = <<a, EmitState(state')>>
         /\ \A a, b : Return(<<a>> \o <<b>>) => out' = <<a, b, EmitState(state')>>
         /\ \A a, b, c : Return(<<a, b>> \o <<c>>) => out' = <<a, b, c, EmitState(state')>>
         /\ \A a, b, c : Return(<<a, b, c>>) => out' = <<a, b, c, EmitState(state')>>
         /\ \A a, b, c, d : Return((<<a, b>> \o <<c>>) \o <<d>>) =>
                             out' = <<a, b, c, d, EmitState(state')>>
<1>. DEFINE e == EmitState(state')
<1>1. \A outs : Return(outs) => out' = outs \o <<e>>
  BY Zenon DEF Return
<1>. HIDE DEF e
<1>2. Return(<<>>) => out' = <<e>>
  BY <1>1, Joined1, Zenon
<1>3. ASSUME NEW a PROVE Return(<<a>>) => out' = <<a, e>>
  BY <1>1, Joined2, Zenon
<1>4. ASSUME NEW a PROVE Return(<<a>> \o <<>>) => out' = <<a, e>>
  BY <1>1, Joined1, Joined2, Zenon
<1>5. ASSUME NEW a, NEW b PROVE Return(<<a>> \o <<b>>) => out' = <<a, b, e>>
  <2>1. <<a>> \o <<b>> = <<a, b>> /\ <<a, b>> \o <<e>> = <<a, b, e>>
    BY Joined2, Joined3
  <2>. QED  BY <1>1, <2>1, Zenon
<1>6. ASSUME NEW a, NEW b, NEW c PROVE Return(<<a, b>> \o <<c>>) => out' = <<a, b, c, e>>
  <2>1. <<a, b>> \o <<c>> = <<a, b, c>> /\ <<a, b, c>> \o <<e>> = <<a, b, c, e>>
    BY Joined3, Joined4
  <2>. QED  BY <1>1, <2>1, Zenon
<1>7. ASSUME NEW a, NEW b, NEW c PROVE Return(<<a, b, c>>) => out' = <<a, b, c, e>>
  BY <1>1, Joined4, Zenon
<1>8. ASSUME NEW a, NEW b, NEW c, NEW d
      PROVE  Return((<<a, b>> \o <<c>>) \o <<d>>) => out' = <<a, b, c, d, e>>
  <2>1. /\ <<a, b>> \o <<c>> = <<a, b, c>> /\ <<a, b, c>> \o <<d>> = <<a, b, c, d>>
        /\ <<a, b, c, d>> \o <<e>> = <<a, b, c, d, e>>
    BY Joined3, Joined4, Joined5
  <2>. QED  BY <1>1, <2>1, Zenon
<1>. QED  BY <1>2, <1>3, <1>4, <1>5, <1>6, <1>7, <1>8 DEF e

LEMMA CallKinds == ASSUME TurnsOK, Called PROVE CallEffect
<1>. USE States DEF CallEffect, TurnsOK, TurnStructure, Moves, SameTurn, NoTurns, NewTurn, turnVars
<1>0. CASE Ignored \/ NoCall
  BY <1>0 DEF Ignored, NoCall, StaysPut, machine
<1>1. CASE state # "Idle" /\ EndSession
  <2>1. state \in {"AgentSpeaking", "Interrupting"} => VoiceTurn # NoTurn
    BY DEF VoiceTurn
  <2>2. state # "Idle" /\ state' = "Idle" /\ NoTurns
    BY <1>1 DEF EndSession, EndSessionCancelling
  <2>3. CASE state \in {"AgentSpeaking", "Interrupting"}
    <3>1. Return((<<CancelPlayback, FlushOutputBuffer>> \o <<CancelSynthesis(VoiceTurn)>>)
                    \o <<StopCapture>>)
      BY <1>1, <2>1, <2>3 DEF EndSession, EndSessionCancelling, CancelIfAny
    <3>2. Ends
      BY <2>2, <2>3, <3>1, Returned DEF Ends
    <3>. QED  BY <3>2
  <2>4. CASE state \notin {"AgentSpeaking", "Interrupting"}
    <3>1. Return(<<>> \o <<StopCapture>>)
      BY <1>1, <2>4 DEF EndSession, EndSessionCancelling
    <3>2. Return(<<StopCapture>>)
      BY <3>1, Joined1, Zenon
    <3>3. Ends
      BY <2>2, <2>4, <3>2, Returned DEF Ends
    <3>. QED  BY <3>3
  <2>. QED  BY <2>3, <2>4
<1>2. CASE OnSessionStart
  <2>1. ~ Ignored => Starts
    BY <1>2, Returned DEF OnSessionStart, Starts
  <2>. QED  BY <1>0, <2>1
<1>3. CASE state = "UserSpeaking" /\ Finalize
  BY <1>3 DEF Finalize, Soft, Return
<1>4. CASE OnSpeechStart
  BY <1>0, <1>4 DEF OnSpeechStart, BeginUserTurn, Soft, Return
<1>5. CASE OnBargeInConfirmed
  <2>1. ~ Ignored => BargesIn
    BY <1>5, Returned DEF OnBargeInConfirmed, BeginUserTurn, BargesIn
  <2>. QED  BY <1>0, <2>1
<1>6. CASE OnPttPressed
  <2>1. CASE state = "AgentSpeaking"
    <3>1. ~ Ignored => Seizes
      BY <1>6, <2>1, Returned DEF OnPttPressed, SeizeTurn, BeginUserTurn, Seizes, CancelIfAny
    <3>. QED  BY <1>0, <3>1
  <2>2. CASE state = "Interrupting"
    <3>1. ~ Ignored => Confirms
      BY <1>6, <2>2, Returned DEF OnPttPressed, ConfirmGenuineBargeIn, Confirms, CancelIfAny
    <3>. QED  BY <1>0, <3>1
  <2>3. CASE state \notin {"AgentSpeaking", "Interrupting"}
    <3>1. ~ Ignored => Soft
      BY <1>6, <2>3 DEF OnPttPressed, SeizeTurn, BeginUserTurn, Soft, Return
    <3>. QED  BY <1>0, <3>1
  <2>. QED  BY <2>1, <2>2, <2>3
<1>7. ASSUME NEW dt \in TickLengths, OnTick(dt) PROVE CallEffect
  <2>1. CASE state \in Timed /\ TimePasses(dt)
    BY <2>1 DEF TimePasses, StaysPut, Return
  <2>2. CASE state = "UserSpeaking" /\ ForceEndpoint
    BY <2>2 DEF ForceEndpoint, Soft, Return
  <2>3. CASE state \in {"Finalizing", "AwaitingAgent"} /\ GiveUpOnTurn
    BY <2>3 DEF GiveUpOnTurn, BackToListening, Soft, Return
  <2>4. CASE state = "Interrupting" /\ RetractBargeIn
    <3>1. Retracts
      BY <2>4, Returned DEF RetractBargeIn, Retracts
    <3>. QED  BY <3>1
  <2>. QED  BY <1>0, <1>1, <1>7, <2>1, <2>2, <2>3, <2>4 DEF OnTick
<1>8. CASE PushFrame
  BY <1>8 DEF PushFrame, StaysPut
<1>9. ASSUME NEW t \in Turn, Results(t) PROVE CallEffect
  <2>1. CASE OnPartialTranscript(t)
    <3>1. CASE state = "Interrupting" /\ ConfirmGenuineBargeIn("UserSpeaking", <<ShowPartial>>)
      <4>1. Confirms
        BY <3>1, Returned DEF ConfirmGenuineBargeIn, Confirms, CancelIfAny
      <4>. QED  BY <4>1
    <3>2. CASE UNCHANGED machine /\ Return(<<ShowPartial>>)
      BY <3>2 DEF machine, Return, StaysPut
    <3>. QED  BY <1>0, <2>1, <3>1, <3>2 DEF OnPartialTranscript
  <2>2. ASSUME NEW text \in Text, OnFinalTranscript(t, text) PROVE CallEffect
    <3>1. CASE state = "Interrupting"
      <4>1. ~ Ignored => Confirms
        BY <2>2, <3>1, Returned
        DEF OnFinalTranscript, FinalTranscriptIn, ConfirmGenuineBargeIn, Confirms, CancelIfAny,
            IsCurrent
      <4>. QED  BY <1>0, <4>1
    <3>2. CASE state # "Interrupting"
      <4>1. ~ Ignored => Submits
        BY <2>2, <3>2, Returned
        DEF OnFinalTranscript, FinalTranscriptIn, Submits, IsCurrent
      <4>. QED  BY <1>0, <4>1
    <3>. QED  BY <3>1, <3>2
  <2>3. CASE OnFinalTranscriptRejected(t) \/ OnSubmitFailed(t)
    <3>1. ~ Ignored => Soft
      BY <2>3
      DEF OnFinalTranscriptRejected, OnSubmitFailed, SubmitFailedKeeping, BackToListening, Soft,
          Return
    <3>. QED  BY <1>0, <3>1
  <2>4. CASE OnSubmitSucceeded(t)
    <3>1. ~ Ignored => Soft
      BY <2>4 DEF OnSubmitSucceeded, Soft, Return
    <3>. QED  BY <1>0, <3>1
  <2>5. CASE OnAgentTextArrived(t)
    <3>1. ~ Ignored => Answers
      BY <2>5 DEF OnAgentTextArrived, Answers, Return
    <3>. QED  BY <1>0, <3>1
  <2>6. CASE OnAgentTurnComplete(t) \/ OnPlaybackDrained(t)
    <3>1. CASE state \in {"AwaitingAgent", "AgentSpeaking"} /\ EndTurnReturnToListening
      BY <3>1 DEF EndTurnReturnToListening, BackToListening, Soft, Return
    <3>2. CASE UNCHANGED <<state, turnVars>> /\ Return(<<>>)
      BY <3>2 DEF StaysPut, Return
    <3>. QED  BY <1>0, <2>6, <3>1, <3>2 DEF OnAgentTurnComplete, OnPlaybackDrained
  <2>. QED  BY <1>9, <2>1, <2>2, <2>3, <2>4, <2>5, <2>6 DEF Results
<1>10. turn_counter <= MaxTurn
  BY BoundsAssumption
<1>11. ASSUME NEW t \in 1..turn_counter PROVE t \in Turn
  BY <1>10, BoundsAssumption DEF Turn
<1>. QED
  BY <1>0, <1>1, <1>2, <1>3, <1>4, <1>5, <1>6, <1>7, <1>8, <1>9, <1>11
  DEF Called, Next, Tick, Control, Detectors, OnSessionEnd, OnSpeechEnd, OnPttReleased

----------------------------------------------------------------------------
(* What is still to be done after a call, and after one item of it. *)

LEMMA AheadOf ==
  ASSUME NEW o \in Seq(Items), NEW r \in Seq(Items), LightFrom(r, 1),
         NEW n \in 1..(Len(o) + 1), \A i \in n..Len(o) : o[i].kind \notin Weighty
  PROVE  /\ LightFrom(o \o r, n)
         /\ \A i \in 1..Len(o) : i \in DOMAIN (o \o r) /\ (o \o r)[i] = o[i]
<1>. DEFINE s == o \o r
<1>1. s \in Seq(Items) /\ Len(s) = Len(o) + Len(r)
  OBVIOUS
<1>2. \A i \in 1..Len(s) : s[i] = IF i <= Len(o) THEN o[i] ELSE r[i - Len(o)]
  OBVIOUS
<1>3. ASSUME NEW i \in DOMAIN s, i >= n PROVE s[i].kind \notin Weighty
  <2>1. CASE i <= Len(o)
    BY <1>1, <1>2, <1>3, <2>1
  <2>2. CASE i > Len(o)
    <3>1. i - Len(o) \in DOMAIN r /\ i - Len(o) >= 1 /\ s[i] = r[i - Len(o)]
      BY <1>1, <1>2, <2>2
    <3>. QED  BY <3>1 DEF LightFrom
  <2>. QED  BY <2>1, <2>2, <1>1
<1>. QED  BY <1>1, <1>2, <1>3 DEF LightFrom

LEMMA After0 ==
  ASSUME NEW o \in Seq(Items), NEW r \in Seq(Items), LightFrom(r, 1), o = <<>>
  PROVE  LightFrom(o \o r, 1)
BY AheadOf

LEMMA After1 ==
  ASSUME NEW o \in Seq(Items), NEW r \in Seq(Items), LightFrom(r, 1), NEW a, o = <<a>>,
         a.kind \notin Weighty
  PROVE  LightFrom(o \o r, 1)
<1>1. Len(o) = 1 /\ o[1] = a
  OBVIOUS
<1>0. 1 \in 1..(Len(o) + 1) /\ \A i \in 1..Len(o) : o[i].kind \notin Weighty
  BY <1>1
<1>. QED  BY <1>0, <1>1, AheadOf

LEMMA After2 ==
  ASSUME NEW o \in Seq(Items), NEW r \in Seq(Items), LightFrom(r, 1), NEW a, NEW b, o = <<a, b>>,
         b.kind \notin Weighty
  PROVE  LightFrom(o \o r, 2) /\ 1 \in DOMAIN (o \o r) /\ (o \o r)[1] = a
<1>1. Len(o) = 2 /\ o[1] = a /\ o[2] = b
  OBVIOUS
<1>0. 2 \in 1..(Len(o) + 1) /\ \A i \in 2..Len(o) : o[i].kind \notin Weighty
  BY <1>1
<1>. QED  BY <1>0, <1>1, AheadOf

LEMMA After3 ==
  ASSUME NEW o \in Seq(Items), NEW r \in Seq(Items), LightFrom(r, 1),
         NEW a, NEW b, NEW c, o = <<a, b, c>>, c.kind \notin Weighty
  PROVE  /\ LightFrom(o \o r, 3) /\ 1 \in DOMAIN (o \o r) /\ 2 \in DOMAIN (o \o r)
         /\ (o \o r)[1] = a /\ (o \o r)[2] = b
         /\ b.kind \notin Weighty => LightFrom(o \o r, 2)
<1>1. Len(o) = 3 /\ o[1] = a /\ o[2] = b /\ o[3] = c
  OBVIOUS
<1>0. 3 \in 1..(Len(o) + 1) /\ \A i \in 3..Len(o) : o[i].kind \notin Weighty
  BY <1>1
<1>a. /\ LightFrom(o \o r, 3)
      /\ \A i \in 1..Len(o) : i \in DOMAIN (o \o r) /\ (o \o r)[i] = o[i]
  BY <1>0, AheadOf
<1>2. /\ LightFrom(o \o r, 3) /\ 1 \in DOMAIN (o \o r) /\ 2 \in DOMAIN (o \o r)
      /\ (o \o r)[1] = a /\ (o \o r)[2] = b
  BY <1>1, <1>a
<1>3. b.kind \notin Weighty => LightFrom(o \o r, 2)
  BY <1>2 DEF LightFrom
<1>. QED  BY <1>2, <1>3

LEMMA After5 ==
  ASSUME NEW o \in Seq(Items), NEW r \in Seq(Items), LightFrom(r, 1),
         NEW a, NEW b, NEW c, NEW d, NEW e, o = <<a, b, c, d, e>>, e.kind \notin Weighty
  PROVE  /\ LightFrom(o \o r, 5) /\ 1 \in DOMAIN (o \o r) /\ 2 \in DOMAIN (o \o r) /\ 3 \in DOMAIN (o \o r) /\ 4 \in DOMAIN (o \o r)
         /\ (o \o r)[1] = a /\ (o \o r)[2] = b /\ (o \o r)[3] = c /\ (o \o r)[4] = d
<1>1. Len(o) = 5 /\ o[1] = a /\ o[2] = b /\ o[3] = c /\ o[4] = d /\ o[5] = e
  OBVIOUS
<1>0. 5 \in 1..(Len(o) + 1) /\ \A i \in 5..Len(o) : o[i].kind \notin Weighty
  BY <1>1
<1>a. /\ LightFrom(o \o r, 5)
      /\ \A i \in 1..Len(o) : i \in DOMAIN (o \o r) /\ (o \o r)[i] = o[i]
  BY <1>0, AheadOf
<1>. QED  BY <1>1, <1>a

(* An item has been acted on. *)
LEMMA RestShifts ==
  ASSUME NEW s \in Seq(Items), s # <<>>
  PROVE  /\ Tail(s) \in Seq(Items)
         /\ \A n \in Nat \ {0} : LightFrom(s, n + 1) => LightFrom(Tail(s), n)
         /\ \A n \in Nat \ {0} : \A k : Kind(s, n + 1, k) =>
              Kind(Tail(s), n, k) /\ Tail(s)[n] = s[n + 1]
<1>1. Tail(s) \in Seq(Items) /\ Len(Tail(s)) = Len(s) - 1 /\ Len(s) \in Nat \ {0}
  OBVIOUS
<1>2. \A i \in 1..(Len(s) - 1) : Tail(s)[i] = s[i + 1]
  OBVIOUS
<1>3. DOMAIN s = 1..Len(s) /\ DOMAIN Tail(s) = 1..(Len(s) - 1)
  BY <1>1
<1>4. ASSUME NEW n \in Nat \ {0}, LightFrom(s, n + 1) PROVE LightFrom(Tail(s), n)
  <2>1. ASSUME NEW i \in DOMAIN Tail(s), i >= n PROVE Tail(s)[i].kind \notin Weighty
    <3>1. i + 1 \in DOMAIN s /\ i + 1 >= n + 1 /\ Tail(s)[i] = s[i + 1]
      BY <1>2, <1>3, <2>1
    <3>. QED  BY <1>4, <3>1 DEF LightFrom
  <2>. QED  BY <2>1 DEF LightFrom
<1>5. ASSUME NEW n \in Nat \ {0}, NEW k, Kind(s, n + 1, k)
      PROVE  Kind(Tail(s), n, k) /\ Tail(s)[n] = s[n + 1]
  BY <1>1, <1>2, <1>3, <1>5 DEF Kind
<1>. QED  BY <1>1, <1>4, <1>5

LEMMA OutputFields ==
  /\ CancelPlayback.kind = "CancelPlayback" /\ FlushOutputBuffer.kind = "FlushOutputBuffer"
  /\ StartCapture.kind = "StartCapture" /\ StopCapture.kind = "StopCapture"
  /\ ShowPartial.kind = "ShowPartial"
  /\ \A t : CancelSynthesis(t).kind = "CancelSynthesis" /\ CancelSynthesis(t).turn = t
  /\ \A t : ResumeSpeaking(t).kind = "ResumeSpeaking" /\ ResumeSpeaking(t).turn = t
  /\ \A t : ReplayPreRoll(t).kind = "ReplayPreRoll"
  /\ \A t, text : SubmitUtterance(t, text).kind = "SubmitUtterance"
                  /\ SubmitUtterance(t, text).turn = t
  /\ \A s : EmitState(s).kind = "EmitState"
BY DEF CancelPlayback, FlushOutputBuffer, StartCapture, StopCapture, ShowPartial, Plain,
       CancelSynthesis, ResumeSpeaking, ReplayPreRoll, SubmitUtterance, EmitState

----------------------------------------------------------------------------
(* The engines follow the conversation. *)

(* The calls other than the one that reports text of the agent's. *)
OtherCall ==
  \/ NoCall \/ Control \/ Detectors \/ Tick \/ PushFrame
  \/ \E t \in Turn :
       \/ OnPartialTranscript(t)
       \/ \E text \in Text : OnFinalTranscript(t, text)
       \/ OnFinalTranscriptRejected(t) \/ OnSubmitSucceeded(t)
       \/ OnAgentTurnComplete(t) \/ OnPlaybackDrained(t)

LEMMA OtherCallEffects == ASSUME TurnsOK, OtherCall PROVE Called /\ CallEffect /\ ~ Answers
<1>1. Called
  BY DEF OtherCall, Called, Next, Results
<1>2. ~ Answers
  <2>. SUFFICES ASSUME state = "AwaitingAgent", state' = "AgentSpeaking" PROVE FALSE
    BY DEF Answers, Moves
  <2>1. ~ (NoCall \/ Ignored \/ Control \/ Detectors \/ PushFrame)
    BY DEF NoCall, Ignored, machine, Control, Detectors, PushFrame, OnSessionStart, OnSessionEnd,
           EndSession, EndSessionCancelling, OnPttPressed, OnPttReleased, SeizeTurn, OnSpeechStart,
           OnSpeechEnd, OnBargeInConfirmed
  <2>2. ~ Tick
    BY <2>1 DEF Tick, OnTick, TimePasses, GiveUpOnTurn, BackToListening, Timed
  <2>3. ASSUME NEW t \in Turn
        PROVE  /\ ~ OnPartialTranscript(t) /\ ~ OnFinalTranscriptRejected(t)
               /\ ~ OnSubmitSucceeded(t) /\ ~ OnAgentTurnComplete(t) /\ ~ OnPlaybackDrained(t)
               /\ \A text \in Text : ~ OnFinalTranscript(t, text)
    BY <2>1
    DEF OnPartialTranscript, OnFinalTranscriptRejected, OnSubmitSucceeded, OnAgentTurnComplete,
        OnPlaybackDrained, OnFinalTranscript, FinalTranscriptIn, EndTurnReturnToListening,
        BackToListening
  <2>. QED  BY <2>1, <2>2, <2>3 DEF OtherCall
<1>. QED  BY <1>1, <1>2, CallKinds

(* What is heard and what is parked are the same turns. *)
SamePlaces(p, q) ==
  q.live_turn = p.live_turn /\ q.paused_turn = p.paused_turn /\ q.abandoned = p.abandoned

LEMMA CallBehind ==
  ASSUME TurnsOK, Agree, PlaybackOK, capturing <=> state # "Idle",
         CallEffect, ~ Answers, out' \in Seq(Items),
         NEW rest \in Seq(Items), LightFrom(rest, 1), agenda' = out' \o rest,
         SamePlaces(playback, playback'), UNCHANGED capturing
  PROVE  Behind'
<1>0. /\ playback'.live_turn = playback.live_turn
      /\ playback'.paused_turn = playback.paused_turn
  BY DEF SamePlaces
<1>. USE DEF Moves, SameTurn, NewTurn, NoTurns, turnVars
<1>1. CASE StaysPut
  <2>1. LightFrom(agenda', 1)
    <3>1. CASE out' = <<>>
      BY <3>1, After0
    <3>2. CASE out' = <<ShowPartial>>
      <4>1. ShowPartial.kind \notin Weighty
        BY OutputFields DEF Weighty
      <4>. QED  BY <3>2, <4>1, After1
    <3>. QED  BY <1>1, <3>1, <3>2 DEF StaysPut
  <2>2. Calm(agenda, 1)' /\ Agree'
    BY <1>0, <1>1, <2>1 DEF StaysPut, Calm, Agree
  <2>. QED  BY <2>2 DEF Behind
<1>2. CASE Soft
  <2>1. LightFrom(agenda', 1)
    <3>1. EmitState(state').kind \notin Weighty
      BY OutputFields DEF Weighty
    <3>. QED  BY <1>2, <3>1, After1 DEF Soft
  <2>2. Agree'
    BY <1>0, <1>2 DEF Soft, Agree, PlaybackOK, TurnsOK, TurnStructure
  <2>3. Calm(agenda, 1)'
    BY <1>2, <2>1 DEF Soft, Calm
  <2>. QED  BY <2>2, <2>3 DEF Behind
<1>3. CASE Starts
  <2>1. LightFrom(agenda', 2) /\ Kind(agenda', 1, "StartCapture")
    <3>1. EmitState("Listening").kind \notin Weighty /\ StartCapture.kind = "StartCapture"
      BY OutputFields DEF Weighty
    <3>. QED  BY <1>3, <3>1, After2 DEF Starts, Kind
  <2>2. Calm(agenda, 1)'
    BY <1>3, <2>1 DEF Starts, Calm
  <2>3. Agree'
    BY <1>0, <1>3 DEF Starts, Agree, TurnsOK, TurnStructure
  <2>. QED  BY <2>2, <2>3 DEF Behind
<1>4. CASE Ends /\ state \notin {"AgentSpeaking", "Interrupting"}
  <2>1. LightFrom(agenda', 2) /\ Kind(agenda', 1, "StopCapture")
    <3>1. EmitState("Idle").kind \notin Weighty /\ StopCapture.kind = "StopCapture"
      BY OutputFields DEF Weighty
    <3>. QED  BY <1>4, <3>1, After2 DEF Ends, Kind
  <2>2. Calm(agenda, 1)'
    BY <1>4, <2>1 DEF Ends, Calm
  <2>3. Agree'
    BY <1>0, <1>4 DEF Ends, Agree, TurnsOK, TurnStructure
  <2>. QED  BY <2>2, <2>3 DEF Behind
<1>5. CASE Ends /\ state \in {"AgentSpeaking", "Interrupting"}
  <2>1. /\ LightFrom(agenda', 5) /\ 1 \in DOMAIN agenda' /\ 2 \in DOMAIN agenda' /\ 3 \in DOMAIN agenda' /\ 4 \in DOMAIN agenda'
        /\ agenda'[1] = CancelPlayback /\ agenda'[2] = FlushOutputBuffer
        /\ agenda'[3] = CancelSynthesis(VoiceTurn) /\ agenda'[4] = StopCapture
    <3>1. EmitState("Idle").kind \notin Weighty
      BY OutputFields DEF Weighty
    <3>. QED  BY <1>5, <3>1, After5, SMTT(30) DEF Ends
  <2>2. PICK v \in Turn : v = VoiceTurn
    BY <1>5 DEF VoiceTurn, TurnsOK, TurnStructure
  <2>3. Doomed(v)'
    BY <1>0, <1>5, <2>2 DEF Ends, VoiceTurn, Doomed, Parked, GivenUp, Agree, TurnsOK, TurnStructure, Turn
  <2>4. Calm(agenda, 4)'
    BY <1>5, <2>1, OutputFields DEF Ends, Calm, Kind
  <2>5. Cuts(agenda, 3, v)'
    BY <2>1, <2>2, <2>4, OutputFields DEF Cuts, Kind
  <2>6. Kind(agenda, 1, "CancelPlayback")' /\ Kind(agenda, 2, "FlushOutputBuffer")'
    BY <2>1, OutputFields DEF Kind
  <2>. QED  BY <2>3, <2>5, <2>6 DEF Behind
<1>6. CASE Submits
  <2>1. PICK text \in Text :
          out' = <<SubmitUtterance(current_turn, text), EmitState("Submitting")>>
    BY <1>6 DEF Submits
  <2>2. /\ LightFrom(agenda', 2) /\ 1 \in DOMAIN agenda'
        /\ agenda'[1] = SubmitUtterance(current_turn, text)
    <3>1. EmitState("Submitting").kind \notin Weighty
      BY OutputFields DEF Weighty
    <3>. QED  BY <2>1, <3>1, After2
  <2>3. Calm(agenda, 1)'
    BY <1>6, <2>2, OutputFields DEF Submits, Calm, Kind
  <2>4. Agree'
    BY <1>0, <1>6 DEF Submits, Agree, TurnsOK, TurnStructure
  <2>. QED  BY <2>3, <2>4 DEF Behind
<1>7. CASE Confirms
  <2>1. PICK v \in Turn : v = pending_cancel_turn
    BY <1>7 DEF Confirms, TurnsOK, TurnStructure
  <2>2. Parked(v)'
    BY <1>0, <1>7, <2>1 DEF Confirms, Parked, GivenUp, Agree, TurnsOK, TurnStructure
  <2>3. 1 \in DOMAIN agenda' /\ agenda'[1] = CancelSynthesis(v) /\ Calm(agenda, 2)'
    <3>1. ShowPartial.kind \notin Weighty /\ \A u : EmitState(u).kind \notin Weighty
      BY OutputFields DEF Weighty
    <3>2. CASE /\ state' = "UserSpeaking"
               /\ out' = <<CancelSynthesis(pending_cancel_turn), EmitState("UserSpeaking")>>
      <4>. DEFINE a == CancelSynthesis(v)
                  b == EmitState("UserSpeaking")
      <4>1. out' = <<a, b>> /\ b.kind \notin Weighty
        BY <2>1, <3>1, <3>2
      <4>2. capturing' <=> state' # "Idle"
        BY <1>7, <3>2 DEF Confirms
      <4>. HIDE DEF a, b
      <4>3. LightFrom(agenda', 2) /\ 1 \in DOMAIN agenda' /\ agenda'[1] = a
        BY <4>1, After2
      <4>. QED  BY <4>2, <4>3 DEF Calm, a
    <3>3. CASE /\ state' = "UserSpeaking"
               /\ out' = <<CancelSynthesis(pending_cancel_turn), ShowPartial, EmitState("UserSpeaking")>>
      <4>. DEFINE a == CancelSynthesis(v)
                  b == ShowPartial
                  c == EmitState("UserSpeaking")
      <4>1. out' = <<a, b, c>> /\ b.kind \notin Weighty /\ c.kind \notin Weighty
        BY <2>1, <3>1, <3>3
      <4>2. capturing' <=> state' # "Idle"
        BY <1>7, <3>3 DEF Confirms
      <4>. HIDE DEF a, b, c
      <4>3. LightFrom(agenda', 2) /\ 1 \in DOMAIN agenda' /\ agenda'[1] = a
        BY <4>1, After3
      <4>. QED  BY <4>2, <4>3 DEF Calm, a
    <3>4. ASSUME NEW text \in Text, state' = "Submitting",
                 out' = <<CancelSynthesis(pending_cancel_turn), SubmitUtterance(current_turn, text),
                          EmitState("Submitting")>>
          PROVE  1 \in DOMAIN agenda' /\ agenda'[1] = CancelSynthesis(v) /\ Calm(agenda, 2)'
      <4>1. /\ LightFrom(agenda', 3) /\ 1 \in DOMAIN agenda' /\ 2 \in DOMAIN agenda'
            /\ agenda'[1] = CancelSynthesis(v) /\ agenda'[2] = SubmitUtterance(current_turn, text)
        <5>. DEFINE a == CancelSynthesis(v)
                    b == SubmitUtterance(current_turn, text)
                    c == EmitState("Submitting")
        <5>1. out' = <<a, b, c>> /\ c.kind \notin Weighty
          BY <2>1, <3>1, <3>4
        <5>. HIDE DEF a, b, c
        <5>2. /\ LightFrom(agenda', 3) /\ 1 \in DOMAIN agenda' /\ 2 \in DOMAIN agenda'
              /\ agenda'[1] = a /\ agenda'[2] = b
          <6>1. Len(out') = 3 /\ out'[1] = a /\ out'[2] = b /\ out'[3] = c
            BY <5>1
          <6>2. 3 \in 1..(Len(out') + 1) /\ \A i \in 3..Len(out') : out'[i].kind \notin Weighty
            BY <5>1, <6>1
          <6>3. /\ LightFrom(agenda', 3)
                /\ \A i \in 1..Len(out') : i \in DOMAIN agenda' /\ agenda'[i] = out'[i]
            BY <6>2, AheadOf
          <6>. QED  BY <6>1, <6>3
        <5>. QED  BY <5>2 DEF a, b
      <4>. QED  BY <1>7, <3>4, <4>1, OutputFields DEF Confirms, Calm, Kind
    <3>. QED  BY <1>7, <3>2, <3>3, <3>4 DEF Confirms
  <2>4. Cuts(agenda, 1, v)'
    BY <2>3, OutputFields DEF Cuts, Kind
  <2>. QED  BY <2>2, <2>4 DEF Behind
<1>8. CASE Seizes
  <2>1. PICK v \in Turn : v = current_turn
    BY <1>8 DEF Seizes, TurnsOK, TurnStructure
  <2>2. /\ LightFrom(agenda', 4) /\ 1 \in DOMAIN agenda' /\ 2 \in DOMAIN agenda' /\ 3 \in DOMAIN agenda'
        /\ agenda'[1] = CancelPlayback /\ agenda'[2] = FlushOutputBuffer
        /\ agenda'[3] = CancelSynthesis(v)
    <3>1. EmitState("UserSpeaking").kind \notin Weighty
      BY OutputFields DEF Weighty
    <3>. DEFINE a == CancelPlayback
                b == FlushOutputBuffer
                c == CancelSynthesis(v)
                d == EmitState("UserSpeaking")
    <3>2. out' = <<a, b, c, d>> /\ d.kind \notin Weighty
      BY <1>8, <2>1, <3>1 DEF Seizes
    <3>. HIDE DEF a, b, c, d
    <3>3. /\ LightFrom(agenda', 4) /\ 1 \in DOMAIN agenda' /\ 2 \in DOMAIN agenda' /\ 3 \in DOMAIN agenda'
          /\ agenda'[1] = a /\ agenda'[2] = b /\ agenda'[3] = c
      <4>1. Len(out') = 4 /\ out'[1] = a /\ out'[2] = b /\ out'[3] = c /\ out'[4] = d
        BY <3>2
      <4>2. 4 \in 1..(Len(out') + 1) /\ \A i \in 4..Len(out') : out'[i].kind \notin Weighty
        BY <3>2, <4>1
      <4>3. /\ LightFrom(agenda', 4)
            /\ \A i \in 1..Len(out') : i \in DOMAIN agenda' /\ agenda'[i] = out'[i]
        BY <4>2, AheadOf
      <4>. QED  BY <4>1, <4>3
    <3>. QED  BY <3>3 DEF a, b, c
  <2>3. Doomed(v)'
    BY <1>0, <1>8, <2>1 DEF Seizes, Doomed, GivenUp, Agree, TurnsOK, TurnStructure, Turn
  <2>4. Calm(agenda, 4)'
    BY <1>8, <2>2 DEF Seizes, Calm
  <2>5. Cuts(agenda, 3, v)'
    BY <2>2, <2>4, OutputFields DEF Cuts, Kind
  <2>6. Kind(agenda, 1, "CancelPlayback")' /\ Kind(agenda, 2, "FlushOutputBuffer")'
    BY <2>2, OutputFields DEF Kind
  <2>. QED  BY <2>3, <2>5, <2>6 DEF Behind
<1>9. CASE BargesIn
  <2>1. /\ LightFrom(agenda', 3) /\ 1 \in DOMAIN agenda' /\ 2 \in DOMAIN agenda'
        /\ agenda'[1] = CancelPlayback /\ agenda'[2] = FlushOutputBuffer
    <3>1. EmitState("Interrupting").kind \notin Weighty
          /\ ReplayPreRoll(current_turn').kind \notin Weighty
      BY OutputFields DEF Weighty
    <3>. DEFINE a == CancelPlayback
                b == FlushOutputBuffer
                c == ReplayPreRoll(current_turn')
                d == EmitState("Interrupting")
    <3>2. out' = <<a, b, c, d>> /\ c.kind \notin Weighty /\ d.kind \notin Weighty
      BY <1>9, <3>1 DEF BargesIn
    <3>. HIDE DEF a, b, c, d
    <3>3. /\ LightFrom(agenda', 3) /\ 1 \in DOMAIN agenda' /\ 2 \in DOMAIN agenda'
          /\ agenda'[1] = a /\ agenda'[2] = b
      <4>1. Len(out') = 4 /\ out'[1] = a /\ out'[2] = b /\ out'[3] = c /\ out'[4] = d
        BY <3>2
      <4>2. 3 \in 1..(Len(out') + 1) /\ \A i \in 3..Len(out') : out'[i].kind \notin Weighty
        BY <3>2, <4>1
      <4>3. /\ LightFrom(agenda', 3)
            /\ \A i \in 1..Len(out') : i \in DOMAIN agenda' /\ agenda'[i] = out'[i]
        BY <4>2, AheadOf
      <4>. QED  BY <4>1, <4>3
    <3>. QED  BY <3>3 DEF a, b
  <2>2. Kind(agenda, 1, "CancelPlayback")' /\ Kind(agenda, 2, "FlushOutputBuffer")'
    BY <2>1, OutputFields DEF Kind
  <2>3. Barging'
    BY <1>0, <1>9 DEF BargesIn, Barging, Agree, TurnsOK, TurnStructure
  <2>. QED  BY <2>1, <2>2, <2>3 DEF Behind
<1>10. CASE Retracts
  <2>1. /\ LightFrom(agenda', 2) /\ 1 \in DOMAIN agenda'
        /\ agenda'[1] = ResumeSpeaking(pending_cancel_turn)
    <3>1. EmitState("AgentSpeaking").kind \notin Weighty
      BY OutputFields DEF Weighty
    <3>. QED  BY <1>10, <3>1, After2 DEF Retracts
  <2>2. Kind(agenda, 1, "ResumeSpeaking")' /\ agenda'[1].turn = current_turn'
    BY <1>10, <2>1, OutputFields DEF Kind, Retracts
  <2>3. Resuming'
    BY <1>0, <1>10 DEF Retracts, Resuming, Agree, TurnsOK, TurnStructure
  <2>. QED  BY <2>1, <2>2, <2>3 DEF Behind
<1>. QED  BY <1>1, <1>2, <1>3, <1>4, <1>5, <1>6, <1>7, <1>8, <1>9, <1>10 DEF CallEffect

Settled == LightFrom(agenda, 1) /\ (capturing <=> state # "Idle") /\ Agree

(* Before a statement that is not a weighty output, nothing is behind. *)
LEMMA LightHead ==
  ASSUME LoopTypes, Behind, agenda = <<>> \/ Head(agenda).kind \notin Weighty
  PROVE  Settled
<1>1. \A k \in Weighty : ~ Kind(agenda, 1, k)
  BY DEF LoopTypes, Kind
<1>. QED  BY <1>1 DEF Settled, Behind, Calm, Cuts, Weighty

LEMMA LightRest ==
  ASSUME NEW s \in Seq(Items), s # <<>>, LightFrom(s, 1)
  PROVE  LightFrom(Tail(s), 1)
<1>1. LightFrom(s, 2)
  BY DEF LightFrom
<1>. QED  BY <1>1, RestShifts

LEMMA QuietBehind ==
  ASSUME Settled, LightFrom(agenda', 1), SamePlaces(playback, playback'),
         UNCHANGED <<state, turnVars, capturing>>
  PROVE  Behind'
BY DEF Settled, Behind, Calm, Agree, SamePlaces, turnVars

LEMMA CalmShifts ==
  ASSUME agenda \in Seq(Items), agenda # <<>>, agenda' = Tail(agenda),
         UNCHANGED <<state, current_turn, capturing>>
  PROVE  /\ \A n \in Nat \ {0} : Calm(agenda, n + 1) => Calm(agenda, n)'
         /\ \A n \in Nat \ {0} : \A v : Cuts(agenda, n + 1, v) => Cuts(agenda, n, v)'
<1>1. ASSUME NEW n \in Nat \ {0}, Calm(agenda, n + 1) PROVE Calm(agenda, n)'
  <2>1. CASE LightFrom(agenda, n + 1) /\ (capturing <=> state # "Idle")
    <3>1. LightFrom(agenda', n)
      BY <2>1, RestShifts
    <3>. QED  BY <2>1, <3>1 DEF Calm
  <2>2. CASE LightFrom(agenda, n + 2)
             /\ ~ (LightFrom(agenda, n + 1) /\ (capturing <=> state # "Idle"))
    <3>1. n + 2 = (n + 1) + 1 /\ n + 1 \in Nat \ {0}
      OBVIOUS
    <3>2. LightFrom(agenda', n + 1)
      BY <2>2, <3>1, RestShifts
    <3>3. PICK k \in {"StartCapture", "StopCapture", "SubmitUtterance"} : Kind(agenda, n + 1, k)
      BY <1>1, <2>2 DEF Calm
    <3>4. Kind(agenda', n, k) /\ agenda'[n] = agenda[n + 1]
      BY <3>3, RestShifts
    <3>5. agenda[n + 1].kind = k
      BY <3>3 DEF Kind
    <3>6. /\ k = "StartCapture" => state # "Idle"
          /\ k = "StopCapture" => state = "Idle"
          /\ k = "SubmitUtterance" => agenda[n + 1].turn = current_turn
                                   /\ state = "Submitting" /\ capturing
      BY <1>1, <2>2, <3>5 DEF Calm, Kind
    <3>. QED  BY <3>2, <3>3, <3>4, <3>6 DEF Calm
  <2>3. (n + 1) + 1 = n + 2
    OBVIOUS
  <2>. QED  BY <1>1, <2>1, <2>2, <2>3 DEF Calm
<1>2. ASSUME NEW n \in Nat \ {0}, NEW v, Cuts(agenda, n + 1, v) PROVE Cuts(agenda, n, v)'
  <2>1. Calm(agenda, (n + 1) + 1) /\ n + 1 \in Nat \ {0}
    BY <1>2 DEF Cuts
  <2>2. Calm(agenda, n + 1)'
    BY <1>1, <2>1
  <2>3. Kind(agenda', n, "CancelSynthesis") /\ agenda'[n] = agenda[n + 1]
    BY <1>2, RestShifts DEF Cuts
  <2>. QED  BY <1>2, <2>2, <2>3 DEF Cuts
<1>. QED  BY <1>1, <1>2

LEMMA CaptureBehind ==
  ASSUME LoopTypes, Behind, agenda # <<>>, ActCapture(Head(agenda))
  PROVE  Behind'
<1>1. Head(agenda) = agenda[1] /\ 1 \in DOMAIN agenda /\ agenda' = Tail(agenda)
  BY DEF LoopTypes, ActCapture, Rest
<1>2. Kind(agenda, 1, "StartCapture") \/ Kind(agenda, 1, "StopCapture")
  BY <1>1 DEF ActCapture, Kind
<1>3. /\ LightFrom(agenda, 2) /\ Agree
      /\ Kind(agenda, 1, "StartCapture") => state # "Idle"
      /\ Kind(agenda, 1, "StopCapture") => state = "Idle"
  BY <1>2 DEF Behind, Calm, Cuts, LightFrom, Kind, Weighty
<1>4. LightFrom(agenda', 1)
  BY <1>1, <1>3, RestShifts DEF LoopTypes
<1>5. capturing' <=> state # "Idle"
  BY <1>1, <1>2, <1>3 DEF ActCapture, Kind
<1>6. UNCHANGED <<state, turnVars, playback>>
  BY DEF ActCapture, NoCall, machine, playVars
<1>. QED  BY <1>3, <1>4, <1>5, <1>6 DEF Behind, Calm, Agree, turnVars

(* What playback does with the outputs that concern it. *)
LEMMA Silencing ==
  ASSUME NEW p \in PlaybackStates
  PROVE  /\ PB!CancelPlayback(p) = IF p.live_turn = NoTurn THEN p
              ELSE [p EXCEPT !.live_turn = NoTurn, !.live = <<>>,
                             !.paused_turn = p.live_turn, !.queued = <<>>]
         /\ PB!Flush(p) = [p EXCEPT !.live = <<>>]
BY DEF PB!CancelPlayback, PB!Silenced, PB!Flush, PB!NoTurn, NoTurn, PlaybackStates

LEMMA PlaybackBehind ==
  ASSUME Types, Behind, agenda # <<>>, ActPlayback(Head(agenda))
  PROVE  Behind'
<1>. USE DEF turnVars
<1>1. Head(agenda) = agenda[1] /\ 1 \in DOMAIN agenda /\ agenda' = Tail(agenda)
  BY DEF Types, LoopTypes, ActPlayback, Rest
<1>2. UNCHANGED <<state, turnVars, capturing>>
  BY DEF ActPlayback, NoCall, machine, captureVars
<1>3. playback \in PlaybackStates /\ agenda \in Seq(Items)
  BY DEF Types, LoopTypes
<1>4. CASE Head(agenda).kind = "ShowPartial"
  <2>1. Settled /\ UNCHANGED playback
    BY <1>4, LightHead DEF Weighty, Types, ActPlayback
  <2>. QED  BY <1>1, <1>2, <1>3, <2>1, LightRest, QuietBehind DEF SamePlaces, Settled
<1>5. CASE Head(agenda).kind = "CancelPlayback"
  <2>1. playback' = PB!CancelPlayback(playback) /\ Kind(agenda, 1, "CancelPlayback")
    BY <1>1, <1>5 DEF ActPlayback, Kind
  <2>2. \/ \E v \in Turn : Kind(agenda, 2, "FlushOutputBuffer") /\ Cuts(agenda, 3, v) /\ Doomed(v)
        \/ Kind(agenda, 2, "FlushOutputBuffer") /\ LightFrom(agenda, 3) /\ Barging
    BY <2>1 DEF Behind, Calm, Cuts, LightFrom, Kind, Weighty
  <2>3. ASSUME NEW v \in Turn, Kind(agenda, 2, "FlushOutputBuffer"), Cuts(agenda, 3, v), Doomed(v)
        PROVE  Behind'
    <3>1. Kind(agenda, 1, "FlushOutputBuffer")'
      BY <1>1, <1>3, <2>3, RestShifts
    <3>2. Cuts(agenda, 2, v)'
      <4>1. Cuts(agenda, 2 + 1, v)
        BY <2>3
      <4>. QED  BY <1>1, <1>2, <1>3, <4>1, CalmShifts
    <3>3. Parked(v)'
      BY <1>2, <1>3, <2>1, <2>3, Silencing DEF Doomed, Parked, GivenUp, PlaybackStates
    <3>. QED  BY <3>1, <3>2, <3>3 DEF Behind
  <2>4. CASE Kind(agenda, 2, "FlushOutputBuffer") /\ LightFrom(agenda, 3) /\ Barging
    <3>1. Kind(agenda, 1, "FlushOutputBuffer")' /\ LightFrom(agenda, 2)'
      BY <1>1, <1>3, <2>4, RestShifts
    <3>2. Agree'
      BY <1>2, <1>3, <2>1, <2>4, Silencing DEF Barging, Agree, PlaybackStates, Types, MachineTypes,
         TurnsOK, TurnStructure
    <3>. QED  BY <1>2, <2>4, <3>1, <3>2 DEF Behind, Barging
  <2>. QED  BY <2>2, <2>3, <2>4
<1>6. CASE Head(agenda).kind = "FlushOutputBuffer"
  <2>1. SamePlaces(playback, playback')
    BY <1>3, <1>6, Silencing, ZenonT(30) DEF ActPlayback, SamePlaces, PlaybackStates
  <2>2. \/ \E v \in Turn : Cuts(agenda, 2, v) /\ Parked(v)
        \/ LightFrom(agenda, 2) /\ state = "Interrupting" /\ capturing /\ Agree
    BY <1>1, <1>6 DEF Behind, Calm, Cuts, LightFrom, Kind, Weighty
  <2>3. ASSUME NEW v \in Turn, Cuts(agenda, 2, v), Parked(v) PROVE Behind'
    <3>1. Cuts(agenda, 1, v)'
      <4>1. Cuts(agenda, 1 + 1, v)
        BY <2>3
      <4>. QED  BY <1>1, <1>2, <1>3, <4>1, CalmShifts
    <3>2. Parked(v)'
      BY <1>2, <2>1, <2>3 DEF SamePlaces, Parked, GivenUp
    <3>. QED  BY <3>1, <3>2 DEF Behind
  <2>4. CASE LightFrom(agenda, 2) /\ state = "Interrupting" /\ capturing /\ Agree
    <3>1. LightFrom(agenda', 1)
      BY <1>1, <1>3, <2>4, RestShifts
    <3>. QED  BY <1>2, <2>1, <2>4, <3>1 DEF SamePlaces, Behind, Calm, Agree
  <2>. QED  BY <2>2, <2>3, <2>4
<1>7. CASE Head(agenda).kind = "ResumeSpeaking"
  <2>1. agenda[1].turn = current_turn /\ LightFrom(agenda, 2) /\ Resuming
    BY <1>1, <1>7 DEF Behind, Calm, Cuts, LightFrom, Kind, Weighty
  <2>2. playback' = [playback EXCEPT !.paused_turn = NoTurn, !.queued = <<>>,
                                     !.live_turn = current_turn, !.live = playback.queued]
    BY <1>1, <1>3, <1>7, <2>1
    DEF ActPlayback, PB!Resume, PB!IsPaused, PB!Unparked, PB!NoTurn, NoTurn, Resuming,
        PlaybackStates
  <2>3. Agree'
    BY <1>2, <1>3, <2>1, <2>2 DEF Agree, Resuming, PlaybackStates
  <2>4. LightFrom(agenda', 1)
    BY <1>1, <1>3, <2>1, RestShifts
  <2>. QED  BY <1>2, <2>1, <2>3, <2>4 DEF Behind, Calm, Resuming
<1>. QED  BY <1>4, <1>5, <1>6, <1>7 DEF ActPlayback

LEMMA CancelBehind ==
  ASSUME Types, Behind, agenda # <<>>, ActCancelSynthesis(Head(agenda))
  PROVE  /\ Behind'
         /\ Head(agenda).turn \in Turn \ {current_turn, pending_cancel_turn}
         /\ Head(agenda).turn = playback.paused_turn
<1>. USE DEF turnVars
<1>1. Head(agenda) = agenda[1] /\ 1 \in DOMAIN agenda /\ agenda' = Tail(agenda)
  BY DEF Types, LoopTypes, ActCancelSynthesis, Rest
<1>2. UNCHANGED <<state, turnVars, capturing>>
  BY DEF ActCancelSynthesis, NoCall, machine, captureVars
<1>3. playback \in PlaybackStates /\ agenda \in Seq(Items)
  BY DEF Types, LoopTypes
<1>4. PICK v \in Turn : Cuts(agenda, 1, v) /\ Parked(v)
  BY <1>1 DEF ActCancelSynthesis, Behind, Calm, Cuts, LightFrom, Kind, Weighty
<1>5. Head(agenda).turn = v
  BY <1>1, <1>4 DEF Cuts
<1>6. playback'.live_turn = NoTurn /\ playback'.paused_turn = NoTurn
  BY <1>3, <1>4, <1>5
  DEF ActCancelSynthesis, PB!CancelSynthesis, PB!IsLive, PB!IsPaused, PB!Unparked, PB!Silenced,
      PB!NoTurn, NoTurn, Parked, GivenUp, PlaybackStates
<1>7. Agree'
  BY <1>2, <1>4, <1>6 DEF Agree, Parked, GivenUp
<1>8. Calm(agenda, 1)'
  <2>1. Calm(agenda, 1 + 1)
    BY <1>4 DEF Cuts
  <2>. QED  BY <1>1, <1>2, <1>3, <2>1, CalmShifts
<1>. QED  BY <1>4, <1>5, <1>7, <1>8 DEF Behind, Parked, GivenUp

----------------------------------------------------------------------------
(* Every step keeps the types. *)

LEMMA ItemFields ==
  ASSUME NEW o \in Items
  PROVE  /\ o.kind \in {"CancelSynthesis", "ResumeSpeaking", "ReplayPreRoll", "SubmitUtterance",
                        "DispatchFinal", "Synthesize", "FinishIfSilent"} => o.turn \in Turn
         /\ o.kind = "DispatchFinal" => o.text \in Text
         /\ o.kind = "Dispatch" /\ o.input = "Rejected" => o.turn \in Turn
         /\ o.kind = "EmitState" => o.state \in State
BY DEF Items, Outputs, Statements

LEMMA HeadItem ==
  ASSUME NEW s \in Seq(Items), s # <<>>
  PROVE  Head(s) \in Items /\ Tail(s) \in Seq(Items) /\ 1 \in DOMAIN s /\ Head(s) = s[1]
OBVIOUS

LEMMA Agendas ==
  /\ <<>> \in Seq(Items)
  /\ <<Detect, Transcribe>> \in Seq(Items)
  /\ \A t \in Turn : <<Synthesize(t)>> \in Seq(Items) /\ <<FinishIfSilent(t)>> \in Seq(Items)
  /\ \A t \in Turn : <<Dispatch("Rejected", t)>> \in Seq(Items)
  /\ \A t \in Turn, text \in Text : <<DispatchFinal(t, text)>> \in Seq(Items)
  /\ <<ResetStt, Dispatch("SessionEnd", NoTurn), Dispatch("SessionStart", NoTurn)>> \in Seq(Items)
<1>1. Detect \in Items /\ Transcribe \in Items /\ ResetStt \in Items
  BY DEF Items, Statements, Detect, Transcribe, ResetStt, Plain
<1>2. \A t \in Turn : Synthesize(t) \in Items /\ FinishIfSilent(t) \in Items
                     /\ Dispatch("Rejected", t) \in Items
  BY DEF Items, Statements, Synthesize, FinishIfSilent, Dispatch
<1>3. \A t \in Turn, text \in Text : DispatchFinal(t, text) \in Items
  BY DEF Items, Statements, DispatchFinal
<1>4. Dispatch("SessionEnd", NoTurn) \in Items /\ Dispatch("SessionStart", NoTurn) \in Items
  BY DEF Items, Statements, Dispatch
<1>. QED  BY <1>1, <1>2, <1>3, <1>4

LEMMA CallAgenda ==
  ASSUME MachineTypes', NEW rest \in Seq(Items), ActOnOutputsThen(rest)
  PROVE  agenda' \in Seq(Items) /\ out' \in Seq(Items)
<1>1. out' \in Seq(Items)
  BY DEF MachineTypes, Items
<1>. QED  BY <1>1 DEF ActOnOutputsThen

LEMMA SttSends ==
  ASSUME stt_requests \in Seq(SttRequests), NEW request \in SttRequests,
         SendStt(request) \/ TrySendStt(request) \/ SttIdle
  PROVE  stt_requests' \in Seq(SttRequests) /\ UNCHANGED <<stt, hearing, stt_results>>
BY DEF SendStt, TrySendStt, SttIdle, sttVars

LEMMA TtsSends ==
  ASSUME NEW S, tts_requests \in Seq(S), NEW requests \in Seq(S), SendTts(requests)
  PROVE  tts_requests' \in Seq(S) /\ UNCHANGED <<tts, tts_cancelled, tts_results>>
BY DEF SendTts

LEMMA Requests ==
  /\ \A t, u \in Turn : Audio(t, u) \in SttRequests
  /\ \A t \in Turn : Finish(t) \in SttRequests
  /\ Plain("Reset") \in SttRequests
BY DEF Audio, Finish, Plain, SttRequests

LEMMA PlaybackKept ==
  ASSUME NEW p \in PlaybackStates
  PROVE  PB!CancelPlayback(p) \in PlaybackStates /\ PB!Flush(p) \in PlaybackStates
<1>1. <<>> \in Seq(Piece)
  OBVIOUS
<1>. QED  BY <1>1, Silencing, ZenonT(30) DEF PlaybackStates, NoTurn

LEMMA PlaybackTypes ==
  ASSUME NEW p \in PlaybackStates, NEW t \in Turn
  PROVE  /\ PB!Resume(p, t) \in PlaybackStates /\ PB!CancelSynthesis(p, t) \in PlaybackStates
         /\ PB!Start(p, t) \in PlaybackStates
         /\ \A s \in Seq(Piece) : PB!RouteSynthesized(p, t, s) \in PlaybackStates
         /\ \A n \in Nat : PB!TakeLive(p, n) \in PlaybackStates
<1>. USE DEF NoTurn, PB!NoTurn
<1>0. /\ p.live_turn \in Turn \cup {0} /\ p.paused_turn \in Turn \cup {0}
      /\ p.live \in Seq(Piece) /\ p.queued \in Seq(Piece) /\ p.abandoned \in SUBSET Turn
      /\ <<>> \in Seq(Piece)
  BY DEF PlaybackStates
<1>3. PB!Resume(p, t) \in PlaybackStates
  BY <1>0 DEF PB!Resume, PB!Unparked, PlaybackStates
<1>4. PB!CancelSynthesis(p, t) \in PlaybackStates
  BY <1>0 DEF PB!CancelSynthesis, PB!Unparked, PB!Silenced, PlaybackStates
<1>5. PB!Start(p, t) \in PlaybackStates
  BY <1>0 DEF PB!Start, PlaybackStates
<1>6. ASSUME NEW s \in Seq(Piece) PROVE PB!RouteSynthesized(p, t, s) \in PlaybackStates
  <2>1. p.live \o s \in Seq(Piece) /\ p.queued \o s \in Seq(Piece)
    BY <1>0
  <2>. QED  BY <1>0, <2>1 DEF PB!RouteSynthesized, PlaybackStates
<1>7. ASSUME NEW n \in Nat PROVE PB!TakeLive(p, n) \in PlaybackStates
  <2>1. SubSeq(p.live, n + 1, Len(p.live)) \in Seq(Piece)
    BY <1>0
  <2>. QED  BY <1>0, <2>1 DEF PB!TakeLive, PlaybackStates
<1>. QED  BY <1>3, <1>4, <1>5, <1>6, <1>7

LEMMA QuietCall == ASSUME MachineTypes, NoCall PROVE MachineTypes'
BY CallTypes DEF Called

LEMMA ResultCalled ==
  ASSUME NEW t \in Turn,
         \/ OnPartialTranscript(t) \/ OnFinalTranscriptRejected(t) \/ OnSubmitSucceeded(t)
         \/ OnAgentTextArrived(t) \/ OnAgentTurnComplete(t) \/ OnPlaybackDrained(t)
         \/ \E text \in Text : OnFinalTranscript(t, text)
  PROVE  Called
BY DEF Called, Results

LEMMA ActTypes == ASSUME Types, Act PROVE Types'
<1>. DEFINE o == Head(agenda)
<1>0. /\ agenda \in Seq(Items) /\ agenda # <<>> /\ o \in Items /\ Rest \in Seq(Items)
      /\ MachineTypes /\ LoopTypes /\ MessageTypes
  BY HeadItem DEF Types, LoopTypes, Act, Rest
<1>1. CASE ActCapture(o)
  BY <1>0, <1>1, QuietCall
  DEF ActCapture, Types, LoopTypes, MessageTypes, playVars, feedVars, sttVars, ttsVars, agentVars
<1>2. CASE ActPlayback(o)
  <2>1. playback' \in PlaybackStates
    <3>0. playback \in PlaybackStates
      BY <1>0 DEF LoopTypes
    <3>1. CASE o.kind = "ResumeSpeaking"
      <4>1. o.turn \in Turn
        BY <1>0, <3>1, ItemFields
      <4>. QED  BY <1>2, <3>0, <3>1, <4>1, PlaybackTypes DEF ActPlayback
    <3>2. CASE o.kind \in {"CancelPlayback", "FlushOutputBuffer"}
      <4>1. PB!CancelPlayback(playback) \in PlaybackStates /\ PB!Flush(playback) \in PlaybackStates
        BY <3>0, PlaybackKept
      <4>. QED  BY <1>2, <3>2, <4>1 DEF ActPlayback
    <3>3. CASE o.kind = "ShowPartial"
      BY <1>2, <3>0, <3>3 DEF ActPlayback
    <3>. QED  BY <1>2, <3>1, <3>2, <3>3 DEF ActPlayback
  <2>. QED
    BY <1>0, <1>2, <2>1, QuietCall
    DEF ActPlayback, Types, LoopTypes, MessageTypes, captureVars, feedVars, sttVars, ttsVars,
        agentVars
<1>3. CASE ActCancelSynthesis(o)
  <2>1. o.turn \in Turn
    BY <1>0, <1>3, ItemFields DEF ActCancelSynthesis
  <2>2. playback' \in PlaybackStates
    BY <1>0, <1>3, <2>1, PlaybackTypes DEF ActCancelSynthesis, LoopTypes
  <2>3. Cancel(o.turn) \in [kind : {"Synthesize", "Cancel"}, turn : Turn]
    BY <2>1 DEF Cancel
  <2>4. tts_requests' \in Seq([kind : {"Synthesize", "Cancel"}, turn : Turn])
        /\ UNCHANGED <<tts, tts_results>>
    <3>1. <<Cancel(o.turn)>> \in Seq([kind : {"Synthesize", "Cancel"}, turn : Turn])
      BY <2>3
    <3>2. SendTts(<<Cancel(o.turn)>>)
      BY <1>3 DEF ActCancelSynthesis
    <3>. QED  BY <1>0, <3>1, <3>2, TtsSends DEF MessageTypes
  <2>. QED
    BY <1>0, <1>3, <2>2, <2>4, QuietCall
    DEF ActCancelSynthesis, Types, LoopTypes, MessageTypes, captureVars, feedVars, sttVars,
        agentVars
<1>4. CASE ActSubmit(o)
  <2>1. o.turn \in Turn /\ asked' \subseteq Turn
    BY <1>0, <1>4, ItemFields DEF ActSubmit, MessageTypes
  <2>2. MachineTypes'
    BY <1>0, <1>4, <2>1, ResultCalled, CallTypes DEF ActSubmit
  <2>3. agenda' \in Seq(Items)
    BY <1>0, <1>4, <2>2, CallAgenda DEF ActSubmit
  <2>. QED
    BY <1>0, <1>4, <2>1, <2>2, <2>3
    DEF ActSubmit, Types, LoopTypes, MessageTypes, captureVars, playVars, feedVars, sttVars,
        ttsVars
<1>5. CASE ActReplay(o)
  <2>1. o.turn \in Turn /\ Audio(o.turn, o.turn) \in SttRequests
    BY <1>0, <1>5, ItemFields, Requests DEF ActReplay
  <2>2. stt_requests' \in Seq(SttRequests) /\ UNCHANGED <<stt, hearing, stt_results>>
    BY <1>0, <1>5, <2>1, SttSends DEF ActReplay, MessageTypes
  <2>. QED
    BY <1>0, <1>5, <2>1, <2>2, QuietCall
    DEF ActReplay, Types, LoopTypes, MessageTypes, playVars, feedVars, ttsVars, agentVars
<1>6. CASE ActState(o)
  <2>1. current_turn \in Turn \cup {NoTurn} /\ stt_active_turn' \in Turn \cup {NoTurn}
    BY <1>0, <1>6 DEF ActState, ActStateResetting, NextSttTurn, MachineTypes, TurnsOK, LoopTypes
  <2>2. PICK r \in SttRequests : SendStt(r) \/ SttIdle
    BY <1>6, <2>1, Requests DEF ActState, ActStateResetting
  <2>3. stt_requests' \in Seq(SttRequests) /\ UNCHANGED <<stt, hearing, stt_results>>
    BY <1>0, <2>2, SttSends DEF MessageTypes
  <2>. QED
    BY <1>0, <1>6, <2>1, <2>3, QuietCall
    DEF ActState, ActStateResetting, Types, LoopTypes, MessageTypes, playVars, feedVars, ttsVars,
        agentVars
<1>7. CASE CallMachine(o)
  <2>1. Called
    BY <1>0, <1>7, ItemFields, ResultCalled DEF CallMachine, Called, Next, Control
  <2>2. MachineTypes' /\ agenda' \in Seq(Items)
    BY <1>0, <1>7, <2>1, CallTypes, CallAgenda DEF CallMachine
  <2>. QED
    BY <1>0, <1>7, <2>2
    DEF CallMachine, Types, LoopTypes, MessageTypes, captureVars, playVars, feedVars, sttVars,
        ttsVars, agentVars
<1>8. CASE SynthesizeChunk(o)
  <2>1. o.turn \in Turn
    BY <1>0, <1>8, ItemFields DEF SynthesizeChunk
  <2>2. tts_pending' \in [Turn -> Nat] /\ UNCHANGED <<tts, tts_results>>
        /\ tts_requests' \in Seq([kind : {"Synthesize", "Cancel"}, turn : Turn])
    <3>1. CASE tts = "lost"
      BY <1>0, <1>8, <3>1 DEF SynthesizeChunk, ttsVars, LoopTypes, MessageTypes
    <3>2. CASE tts # "lost"
      <4>1. PICK n \in 0..MaxPhrases : /\ SendTts([i \in 1..n |-> Phrase(o.turn)])
                                     /\ CountPhrases(o.turn, n)
        BY <1>8, <3>2 DEF SynthesizeChunk
      <4>2. n \in Nat
        BY PipelineAssumption
      <4>3. [i \in 1..n |-> Phrase(o.turn)] \in Seq([kind : {"Synthesize", "Cancel"}, turn : Turn])
        BY <2>1, <4>2 DEF Phrase
      <4>. QED
        <5>1. tts_pending' \in [Turn -> Nat]
          BY <1>0, <2>1, <4>1, <4>2 DEF CountPhrases, LoopTypes
        <5>2. tts_requests \in Seq([kind : {"Synthesize", "Cancel"}, turn : Turn])
          BY <1>0 DEF MessageTypes
        <5>3. /\ tts_requests' \in Seq([kind : {"Synthesize", "Cancel"}, turn : Turn])
              /\ UNCHANGED <<tts, tts_results>>
          BY <4>1, <4>3, <5>2, TtsSends
        <5>. QED  BY <5>1, <5>3
    <3>. QED  BY <3>1, <3>2
  <2>. QED
    BY <1>0, <1>8, <2>2, QuietCall
    DEF SynthesizeChunk, Types, LoopTypes, MessageTypes, captureVars, feedVars, sttVars, agentVars
<1>9. CASE FinishTurnIfSilent(o)
  <2>1. o.turn \in Turn
    BY <1>0, <1>9, ItemFields DEF FinishTurnIfSilent
  <2>2. MachineTypes' /\ agenda' \in Seq(Items) /\ tts_pending' \in [Turn -> Nat]
    <3>1. CASE SignalDrained(o.turn, Rest)
      BY <1>0, <2>1, <3>1, ResultCalled, CallTypes, CallAgenda DEF SignalDrained, LoopTypes
    <3>2. CASE agenda' = Rest /\ NoCall /\ UNCHANGED tts_pending
      BY <1>0, <3>2, QuietCall DEF LoopTypes
    <3>. QED  BY <1>9, <3>1, <3>2 DEF FinishTurnIfSilent
  <2>. QED
    BY <1>0, <1>9, <2>2
    DEF FinishTurnIfSilent, Types, LoopTypes, MessageTypes, captureVars, feedVars, sttVars,
        ttsVars, agentVars
<1>10. CASE ResetRecognizer(o)
  <2>1. stt_requests' \in Seq(SttRequests) /\ UNCHANGED <<stt, hearing, stt_results>>
    BY <1>0, <1>10, Requests, SttSends DEF ResetRecognizer, MessageTypes
  <2>. QED
    BY <1>0, <1>10, <2>1, QuietCall
    DEF ResetRecognizer, Types, LoopTypes, MessageTypes, captureVars, playVars, feedVars, ttsVars,
        agentVars
<1>11. CASE DetectSpeech(o)
  <2>1. Called
    BY <1>11 DEF DetectSpeech, Called, Next, Detectors
  <2>2. MachineTypes' /\ agenda' \in Seq(Items)
    BY <1>0, <1>11, <2>1, CallTypes, CallAgenda DEF DetectSpeech
  <2>. QED
    BY <1>0, <1>11, <2>2
    DEF DetectSpeech, Types, LoopTypes, MessageTypes, captureVars, playVars, feedVars, sttVars,
        ttsVars, agentVars
<1>12. CASE TranscribeFrame(o)
  <2>1. PICK r \in SttRequests : TrySendStt(r) \/ SttIdle
    <3>1. CASE stt_active_turn # NoTurn /\ state \in {"UserSpeaking", "Interrupting"}
      <4>1. stt_active_turn \in Turn /\ current_turn \in Turn
        BY <1>0, <3>1 DEF LoopTypes, MachineTypes, TurnsOK, TurnStructure
      <4>. QED  BY <1>12, <3>1, <4>1, Requests DEF TranscribeFrame
    <3>2. CASE ~ (stt_active_turn # NoTurn /\ state \in {"UserSpeaking", "Interrupting"})
      BY <1>12, <3>2, Requests DEF TranscribeFrame
    <3>. QED  BY <3>1, <3>2
  <2>2. stt_requests' \in Seq(SttRequests) /\ UNCHANGED <<stt, hearing, stt_results>>
    BY <1>0, <2>1, SttSends DEF MessageTypes
  <2>. QED
    BY <1>0, <1>12, <2>2, QuietCall
    DEF TranscribeFrame, Types, LoopTypes, MessageTypes, captureVars, playVars, feedVars, ttsVars,
        agentVars
<1>. QED
  BY <1>1, <1>2, <1>3, <1>4, <1>5, <1>6, <1>7, <1>8, <1>9, <1>10, <1>11, <1>12 DEF Act

LEMMA LoopTypesStep ==
  ASSUME Types, Orchestrate, ~ Act
  PROVE  Types'
<1>0. MachineTypes /\ LoopTypes /\ MessageTypes /\ <<>> \in Seq(Items)
  BY Agendas DEF Types
<1>1. CASE DrainControl \/ Shutdown \/ TickMachine
  <2>1. Called /\ ActOnOutputsThen(<<>>) /\ LoopOnly
    BY <1>1 DEF DrainControl, Shutdown, TickMachine, Called, Next, Control
  <2>2. MachineTypes' /\ agenda' \in Seq(Items)
    BY <1>0, <2>1, CallTypes, CallAgenda
  <2>. QED
    BY <1>0, <2>1, <2>2
    DEF LoopOnly, Types, LoopTypes, MessageTypes, captureVars, playVars, feedVars, sttVars,
        ttsVars, agentVars
<1>2. CASE PumpFrame \/ NoFrame \/ AgentDrained
  <2>1. Called /\ LoopOnly /\ agenda' \in Seq(Items)
    BY <1>0, <1>2, Agendas DEF PumpFrame, NoFrame, AgentDrained, Called, Next, LoopTypes
  <2>2. MachineTypes'
    BY <1>0, <2>1, CallTypes
  <2>. QED
    BY <1>0, <2>1, <2>2
    DEF LoopOnly, Types, LoopTypes, MessageTypes, captureVars, playVars, feedVars, sttVars,
        ttsVars, agentVars
<1>3. ASSUME NEW count, NEW rest \in Seq(Items),
             RebuildEngine(count, rest) \/ KeepEngine(count, rest)
      PROVE  /\ agenda' \in Seq(Items) /\ stt_active_turn' \in Turn \cup {NoTurn}
             /\ pushed' \in BOOLEAN /\ ahead' \in Int /\ ahead' <= Lead /\ ring' \in Nat
  <2>. DEFINE restart == <<ResetStt, Dispatch("SessionEnd", NoTurn),
                           Dispatch("SessionStart", NoTurn)>>
  <2>1. restart \o rest \in Seq(Items)
    <3>1. restart \in Seq(Items)
      BY Agendas
    <3>. HIDE DEF restart
    <3>. QED  BY <3>1
  <2>2. /\ agenda' \in {restart \o rest, rest}
        /\ stt_active_turn' \in {NoTurn, stt_active_turn}
        /\ pushed' \in {FALSE, pushed} /\ ahead' \in {0, ahead} /\ ring' \in {0, ring}
    <3>. HIDE DEF restart
    <3>1. CASE KeepEngine(count, rest)
      BY <3>1 DEF KeepEngine, feedVars
    <3>2. CASE RebuildEngine(count, rest)
      BY <3>2 DEF RebuildEngine, feedVars, restart
    <3>. QED  BY <1>3, <3>1, <3>2
  <2>. HIDE DEF restart
  <2>3. agenda' \in Seq(Items)
    BY <2>1, <2>2
  <2>4. 0 <= Lead
    BY PipelineAssumption
  <2>5. /\ stt_active_turn \in Turn \cup {NoTurn} /\ pushed \in BOOLEAN
        /\ ahead \in Int /\ ahead <= Lead /\ ring \in Nat
    BY <1>0 DEF LoopTypes
  <2>6. stt_active_turn' \in Turn \cup {NoTurn} /\ pushed' \in BOOLEAN
    BY <2>2, <2>5, Zenon
  <2>7. ahead' \in Int /\ ahead' <= Lead /\ ring' \in Nat
    BY <2>2, <2>4, <2>5
  <2>. QED  BY <2>3, <2>6, <2>7
<1>4. CASE CheckDevice
  <2>1. /\ agenda' \in Seq(Items) /\ stt_active_turn' \in Turn \cup {NoTurn}
        /\ pushed' \in BOOLEAN /\ ahead' \in Int /\ ahead' <= Lead /\ ring' \in Nat
    BY <1>0, <1>3, <1>4 DEF CheckDevice
  <2>. QED
    BY <1>0, <1>4, <2>1, QuietCall
    DEF CheckDevice, Types, LoopTypes, MessageTypes, sttVars, ttsVars, agentVars
<1>5. CASE DrainStt
  <2>. DEFINE r == Head(stt_results)
  <2>1. r \in SttResults /\ stt_results' \in Seq(SttResults)
    BY <1>0, <1>5 DEF DrainStt, MessageTypes
  <2>2. r.turn \in Turn /\ (r.kind = "Final" => r.text \in Text)
    BY <2>1 DEF SttResults
  <2>3. /\ MachineTypes' /\ agenda' \in Seq(Items) /\ stt_active_turn' \in Turn \cup {NoTurn}
        /\ pushed' \in BOOLEAN /\ ahead' \in Int /\ ahead' <= Lead /\ ring' \in Nat /\ UNCHANGED capturing
    <3>1. CASE HandlePartial(r)
      <4>1. Called
        BY <2>2, <3>1, ResultCalled DEF HandlePartial
      <4>. QED
        BY <1>0, <3>1, <4>1, CallTypes, CallAgenda
        DEF HandlePartial, LoopTypes, captureVars, feedVars
    <3>2. CASE HandleFinal(r)
      <4>1. PICK submit \in Seq(Items) :
              \E count : RebuildEngine(count, submit) \/ KeepEngine(count, submit)
        <5>1. <<Dispatch("Rejected", r.turn)>> \in Seq(Items)
              /\ <<DispatchFinal(r.turn, r.text)>> \in Seq(Items)
          BY <2>2, <3>2, Agendas DEF HandleFinal
        <5>. QED  BY <3>2, <5>1 DEF HandleFinal
      <4>2. PICK count : RebuildEngine(count, submit) \/ KeepEngine(count, submit)
        BY <4>1
      <4>. QED  BY <1>0, <1>3, <3>2, <4>2, QuietCall DEF HandleFinal
    <3>. QED  BY <1>5, <3>1, <3>2 DEF DrainStt
  <2>. QED
    BY <1>0, <1>5, <2>1, <2>3
    DEF DrainStt, Types, LoopTypes, MessageTypes, ttsVars, agentVars
<1>6. CASE SttDrained
  BY <1>0, <1>6, QuietCall
  DEF SttDrained, Types, LoopTypes, MessageTypes, captureVars, playVars, feedVars, ttsVars, agentVars
<1>7. CASE DrainAgent
  <2>. DEFINE e == Head(agent_events)
  <2>1. e.turn \in Turn
        /\ agent_events' \in Seq([kind : {"TextChunk", "TurnComplete"}, turn : Turn])
    <3>. DEFINE S == [kind : {"TextChunk", "TurnComplete"}, turn : Turn]
    <3>1. agent_events \in Seq(S) /\ agent_events # <<>> /\ agent_events' = Tail(agent_events)
      BY <1>0, <1>7 DEF DrainAgent, MessageTypes
    <3>2. \A m \in S : m.turn \in Turn
      OBVIOUS
    <3>. HIDE DEF S
    <3>3. Head(agent_events) \in S /\ agent_events' \in Seq(S)
      BY <3>1
    <3>. QED  BY <3>2, <3>3 DEF S
  <2>2. MachineTypes' /\ agenda' \in Seq(Items) /\ playback' \in PlaybackStates
    <3>1. CASE HandleTextChunk(e.turn)
      <4>1. CASE NoCall /\ UNCHANGED <<agenda, playback>>
        BY <1>0, <4>1, QuietCall DEF LoopTypes
      <4>2. CASE /\ OnAgentTextArrived(e.turn) /\ ActOnOutputsThen(<<Synthesize(e.turn)>>)
                 /\ playback' \in {playback, PB!Start(playback, e.turn)}
        <5>1. Called /\ <<Synthesize(e.turn)>> \in Seq(Items)
          BY <2>1, <4>2, ResultCalled, Agendas
        <5>2. playback' \in PlaybackStates
          BY <1>0, <2>1, <4>2, PlaybackTypes DEF LoopTypes
        <5>. QED  BY <1>0, <4>2, <5>1, <5>2, CallTypes, CallAgenda
      <4>. QED  BY <3>1, <4>1, <4>2 DEF HandleTextChunk
    <3>2. CASE /\ OnAgentTurnComplete(e.turn) /\ ActOnOutputsThen(<<FinishIfSilent(e.turn)>>)
               /\ UNCHANGED playback
      <4>1. Called /\ <<FinishIfSilent(e.turn)>> \in Seq(Items)
        BY <2>1, <3>2, ResultCalled, Agendas
      <4>. QED  BY <1>0, <3>2, <4>1, CallTypes, CallAgenda DEF LoopTypes
    <3>. QED  BY <1>7, <3>1, <3>2 DEF DrainAgent
  <2>. QED
    BY <1>0, <1>7, <2>1, <2>2
    DEF DrainAgent, Types, LoopTypes, MessageTypes, captureVars, feedVars, sttVars, ttsVars
<1>8. CASE DrainTts
  <2>. DEFINE r == Head(tts_results)
  <2>1. r.turn \in Turn /\ tts_results' \in Seq([kind : {"Synthesize"}, turn : Turn])
    <3>. DEFINE S == [kind : {"Synthesize"}, turn : Turn]
    <3>1. tts_results \in Seq(S) /\ tts_results # <<>> /\ tts_results' = Tail(tts_results)
      BY <1>0, <1>8 DEF DrainTts, MessageTypes
    <3>2. \A m \in S : m.turn \in Turn
      OBVIOUS
    <3>. HIDE DEF S
    <3>3. Head(tts_results) \in S /\ tts_results' \in Seq(S)
      BY <3>1
    <3>. QED  BY <3>2, <3>3 DEF S
  <2>2. playback' \in PlaybackStates
    <3>1. PICK k \in Pieces : playback' = PB!RouteSynthesized(playback, r.turn, PiecesOf(r.turn, k))
      BY <1>8 DEF DrainTts, RouteChunk
    <3>2. k \in Nat
      BY PipelineAssumption
    <3>3. PiecesOf(r.turn, k) \in Seq(Piece)
      BY <2>1, <3>2 DEF PiecesOf, Piece
    <3>. QED  BY <1>0, <2>1, <3>1, <3>3, PlaybackTypes DEF LoopTypes
  <2>3. tts_pending' \in [Turn -> Nat]
    BY <1>0, <1>8, <2>1 DEF DrainTts, CameBack, LoopTypes
  <2>. QED
    BY <1>0, <1>8, <2>1, <2>2, <2>3, QuietCall
    DEF DrainTts, Types, LoopTypes, MessageTypes, captureVars, feedVars, sttVars, agentVars
<1>9. CASE TtsDrained
  BY <1>0, <1>9, QuietCall
  DEF TtsDrained, Types, LoopTypes, MessageTypes, captureVars, feedVars, sttVars, agentVars
<1>10. CASE FeedPlayback
  <2>0. /\ playback \in PlaybackStates /\ playback.live \in Seq(Piece)
        /\ playback.live_turn \in Turn \cup {NoTurn}
        /\ pushed \in BOOLEAN /\ ahead \in Int /\ ahead <= Lead /\ Lead \in Nat \ {0}
    BY <1>0, PipelineAssumption DEF LoopTypes, PlaybackStates
  <2>1. FedCount \in Nat /\ ahead + FedCount \in Int /\ ahead + FedCount <= Lead
    BY <2>0 DEF FedCount, Resident
  <2>2. /\ pushed' \in BOOLEAN /\ ahead' \in {0, ahead + FedCount}
        /\ ring' = ring + FedCount /\ playback' = PB!TakeLive(playback, FedCount)
    BY <1>10 DEF FeedPlayback, Feed, FeedEndingIf
  <2>3. /\ pushed' \in BOOLEAN /\ ahead' \in Int /\ ahead' <= Lead /\ ring' \in Nat
    BY <1>0, <2>0, <2>1, <2>2 DEF LoopTypes
  <2>4. playback' \in PlaybackStates
    <3>1. SubSeq(playback.live, FedCount + 1, Len(playback.live)) \in Seq(Piece)
      BY <2>0, <2>1
    <3>. QED  BY <2>0, <2>2, <3>1 DEF PB!TakeLive, PlaybackStates
  <2>5. MachineTypes' /\ agenda' \in Seq(Items) /\ tts_pending' \in [Turn -> Nat]
    <3>1. CASE playback.live_turn # NoTurn /\ SignalDrained(playback.live_turn, <<>>)
      <4>1. playback.live_turn \in Turn
        BY <2>0, <3>1
      <4>. QED  BY <1>0, <3>1, <4>1, ResultCalled, CallTypes, CallAgenda DEF SignalDrained, LoopTypes
    <3>2. CASE NoCall /\ UNCHANGED <<agenda, tts_pending>>
      BY <1>0, <3>2, QuietCall DEF LoopTypes
    <3>. QED  BY <1>10, <3>1, <3>2 DEF FeedPlayback, Feed, FeedEndingIf
  <2>. QED
    BY <1>0, <1>10, <2>3, <2>4, <2>5
    DEF FeedPlayback, Types, LoopTypes, MessageTypes, captureVars, sttVars, ttsVars, agentVars
<1>. QED
  BY <1>1, <1>2, <1>4, <1>5, <1>6, <1>7, <1>8, <1>9, <1>10 DEF Orchestrate

(* The other threads. *)
LEMMA OthersTypes ==
  ASSUME Types, SttWork \/ SttDies \/ TtsWork \/ TtsDies \/ AgentWork \/ PlayOut
  PROVE  Types' /\ OrchestratorIdle
<1>1. OrchestratorIdle
  BY DEF SttWork, SttDies, TtsWork, TtsDies, AgentWork, PlayOut
<1>2. MachineTypes'
  BY <1>1, TurnsStep, OutputsStep DEF OrchestratorIdle, Types, MachineTypes
<1>3. LoopTypes'
  <2>1. ahead' \in Int /\ ahead' <= Lead /\ ring' \in Nat
    <3>1. ahead \in Int /\ ahead <= Lead /\ ring \in Nat /\ Lead \in Nat
      BY PipelineAssumption DEF Types, LoopTypes
    <3>2. CASE PlayOut
      <4>1. ahead' \in {ahead, ahead - 1} /\ ring' = IF ring = 0 THEN 0 ELSE ring - 1
        BY <3>2 DEF PlayOut
      <4>. QED  BY <3>1, <4>1
    <3>3. CASE SttWork \/ SttDies \/ TtsWork \/ TtsDies \/ AgentWork
      <4>1. UNCHANGED <<ahead, ring>>
        BY <3>3 DEF SttWork, SttDies, TtsWork, TtsDies, AgentWork
      <4>. QED  BY <3>1, <4>1
    <3>. QED  BY <3>2, <3>3
  <2>. QED  BY <1>1, <2>1 DEF Types, LoopTypes, OrchestratorIdle, loopVars, captureVars
<1>4. MessageTypes'
  <2>. DEFINE P == [kind : {"Synthesize"}, turn : Turn]
              R == [kind : {"Synthesize", "Cancel"}, turn : Turn]
              E == [kind : {"TextChunk", "TurnComplete"}, turn : Turn]
  <2>0. MessageTypes
    BY DEF Types
  <2>1. CASE SttWork
    <3>. DEFINE r == Head(stt_requests)
    <3>1. stt_requests \in Seq(SttRequests) /\ stt_requests # <<>> /\ stt_requests' = Tail(stt_requests)
      BY <2>0, <2>1 DEF SttWork, MessageTypes
    <3>2. r \in SttRequests /\ stt_requests' \in Seq(SttRequests)
      BY <3>1
    <3>3. r.kind \in {"PushAudio", "FinishUtterance"} => r.turn \in Turn
      BY <3>2 DEF SttRequests
    <3>4. r.kind = "PushAudio" => r.of \in Turn
      BY <3>2 DEF SttRequests
    <3>5. hearing \subseteq Turn /\ stt_results \in Seq(SttResults)
      BY <2>0 DEF MessageTypes
    <3>6. hearing' \subseteq Turn /\ stt_results' \in Seq(SttResults)
      <4>1. CASE DecodeAudio(r)
        <5>1. Partial(r.turn) \in SttResults
          BY <3>3, <4>1 DEF DecodeAudio, Partial, SttResults
        <5>2. hearing' \subseteq Turn
          BY <3>4, <3>5, <4>1 DEF DecodeAudio
        <5>3. stt_results' \in {stt_results, Append(stt_results, Partial(r.turn))}
          BY <4>1 DEF DecodeAudio
        <5>. QED  BY <3>5, <5>1, <5>2, <5>3
      <4>2. CASE FinishUtterance(r)
        <5>1. PICK text \in SUBSET Turn : stt_results' = Append(stt_results, Final(r.turn, text))
          BY <3>5, <4>2 DEF FinishUtterance
        <5>2. Final(r.turn, text) \in SttResults
          BY <3>3, <4>2, UtteranceAssumption DEF FinishUtterance, Final, SttResults
        <5>. QED  BY <3>5, <4>2, <5>1, <5>2 DEF FinishUtterance
      <4>3. CASE hearing' = {} /\ UNCHANGED stt_results
        BY <3>5, <4>3
      <4>. QED  BY <2>1, <4>1, <4>2, <4>3 DEF SttWork
    <3>. QED  BY <2>0, <2>1, <3>2, <3>6 DEF SttWork, MessageTypes, ttsVars, agentVars
  <2>2. CASE SttDies
    <3>1. <<>> \in Seq(SttRequests)
      OBVIOUS
    <3>. QED  BY <2>0, <2>2, <3>1 DEF SttDies, MessageTypes, ttsVars, agentVars
  <2>3. CASE TtsWork
    <3>. DEFINE r == Head(tts_requests)
    <3>0. tts_requests \in Seq(R) /\ tts_results \in Seq(P)
      BY <2>0 DEF MessageTypes
    <3>1. r \in R /\ tts_requests' \in Seq(R)
      <4>1. tts_requests # <<>> /\ tts_requests' = Tail(tts_requests)
        BY <2>3 DEF TtsWork
      <4>. HIDE DEF R
      <4>. QED  BY <3>0, <4>1
    <3>2. r.kind = "Synthesize" => r \in P
      BY <3>1
    <3>3. tts_results' = tts_results \/ (r \in P /\ tts_results' = Append(tts_results, r))
      BY <2>3, <3>2 DEF TtsWork
    <3>4. tts_results' \in Seq(P)
      <4>. HIDE DEF P
      <4>. QED  BY <3>0, <3>3
    <3>. QED  BY <2>0, <2>3, <3>1, <3>4 DEF TtsWork, MessageTypes, sttVars, agentVars
  <2>4. CASE TtsDies
    <3>1. <<>> \in Seq(R)
      OBVIOUS
    <3>. QED  BY <2>0, <2>4, <3>1 DEF TtsDies, MessageTypes, sttVars, agentVars
  <2>5. CASE AgentWork
    <3>1. PICK t \in asked : AgentSays(t) \/ AgentEnds(t)
      BY <2>5 DEF AgentWork
    <3>2. t \in Turn /\ agent_events \in Seq(E) /\ complete \subseteq Turn
      BY <2>0 DEF MessageTypes
    <3>3. complete' \subseteq Turn
      BY <3>1, <3>2 DEF AgentSays, AgentEnds
    <3>4. PICK m \in E : agent_events' = Append(agent_events, m)
      BY <3>1, <3>2 DEF AgentSays, AgentEnds
    <3>5. agent_events' \in Seq(E)
      <4>. HIDE DEF E
      <4>. QED  BY <3>2, <3>4
    <3>. QED  BY <2>0, <2>5, <3>3, <3>5 DEF AgentWork, MessageTypes, sttVars, ttsVars
  <2>6. CASE PlayOut
    BY <2>0, <2>6 DEF PlayOut, MessageTypes, sttVars, ttsVars, agentVars
  <2>. QED  BY <2>1, <2>2, <2>3, <2>4, <2>5, <2>6
<1>. QED  BY <1>1, <1>2, <1>3, <1>4 DEF Types

LEMMA TypesStep == ASSUME Types, [PNext]_pvars PROVE Types'
<1>1. CASE UNCHANGED pvars
  <2>1. MachineTypes'
    BY <1>1, TurnsStep, OutputsStep DEF pvars, Types, MachineTypes
  <2>. QED
    BY <1>1, <2>1
    DEF pvars, Types, LoopTypes, MessageTypes, loopVars, captureVars, playVars, feedVars, sttVars,
        ttsVars, agentVars
<1>. QED
  BY <1>1, ActTypes, LoopTypesStep, OthersTypes DEF PNext, Orchestrate, Stopped

LEMMA TypesInit == ASSUME PInit PROVE Types
<1>1. MachineTypes
  BY InitTurns, NoOutputs DEF PInit, Init, MachineTypes, WordsOK
<1>2. PB!Empty \in PlaybackStates
  <2>1. <<>> \in Seq(Piece)
    OBVIOUS
  <2>. QED  BY <2>1 DEF PB!Empty, PB!NoTurn, NoTurn, PlaybackStates
<1>3. LoopTypes
  <2>1. agenda = <<>> /\ capturing = FALSE /\ stt_active_turn = NoTurn /\ playback = PB!Empty
        /\ pushed = FALSE /\ ahead = 0 /\ ring = 0 /\ tts_pending = [t \in Turn |-> 0]
    BY DEF PInit
  <2>2. agenda \in Seq(Items) /\ playback \in PlaybackStates
    BY <1>2, <2>1, Agendas
  <2>3. 0 <= Lead
    BY PipelineAssumption
  <2>4. capturing \in BOOLEAN /\ pushed \in BOOLEAN
    BY <2>1, Zenon
  <2>5. tts_pending \in [Turn -> Nat]
    BY <2>1
  <2>6. /\ ahead \in Int /\ ahead <= Lead /\ ring \in Nat
        /\ stt_active_turn \in Turn \cup {NoTurn}
    BY <2>1, <2>3
  <2>. QED  BY <2>2, <2>4, <2>5, <2>6 DEF LoopTypes
<1>4. \A S : <<>> \in Seq(S)
  OBVIOUS
<1>5. MessageTypes
  BY <1>4 DEF PInit, MessageTypes
<1>. QED  BY <1>1, <1>3, <1>5 DEF Types

----------------------------------------------------------------------------
(* Every step keeps the agreement. *)

LEMMA LightAgendas ==
  /\ LightFrom(<<>>, 1) /\ LightFrom(<<Detect, Transcribe>>, 1)
  /\ \A t : LightFrom(<<Synthesize(t)>>, 1) /\ LightFrom(<<FinishIfSilent(t)>>, 1)
            /\ LightFrom(<<Dispatch("Rejected", t)>>, 1)
  /\ \A t, text : LightFrom(<<DispatchFinal(t, text)>>, 1)
  /\ \A rest \in Seq(Items) : LightFrom(rest, 1) =>
       LightFrom(<<ResetStt, Dispatch("SessionEnd", NoTurn), Dispatch("SessionStart", NoTurn)>>
                 \o rest, 1)
<1>1. /\ Detect.kind \notin Weighty /\ Transcribe.kind \notin Weighty
      /\ ResetStt.kind \notin Weighty
      /\ \A t : Synthesize(t).kind \notin Weighty /\ FinishIfSilent(t).kind \notin Weighty
      /\ \A t, input : Dispatch(input, t).kind \notin Weighty
      /\ \A t, text : DispatchFinal(t, text).kind \notin Weighty
  BY DEF Detect, Transcribe, ResetStt, Plain, Synthesize, FinishIfSilent, Dispatch, DispatchFinal,
         Weighty
<1>2. \A a : a.kind \notin Weighty => LightFrom(<<a>>, 1)
  BY DEF LightFrom
<1>3. \A a, b : a.kind \notin Weighty /\ b.kind \notin Weighty => LightFrom(<<a, b>>, 1)
  BY DEF LightFrom
<1>4. ASSUME NEW rest \in Seq(Items), LightFrom(rest, 1)
      PROVE  LightFrom(<<ResetStt, Dispatch("SessionEnd", NoTurn),
                         Dispatch("SessionStart", NoTurn)>> \o rest, 1)
  <2>. DEFINE a == ResetStt
              b == Dispatch("SessionEnd", NoTurn)
              c == Dispatch("SessionStart", NoTurn)
              s == <<a, b, c>>
  <2>1. s \in Seq(Items) /\ a.kind \notin Weighty /\ b.kind \notin Weighty /\ c.kind \notin Weighty
    BY <1>1, Agendas
  <2>. HIDE DEF a, b, c
  <2>2. Len(s) = 3 /\ s[1] = a /\ s[2] = b /\ s[3] = c
    OBVIOUS
  <2>3. 1 \in 1..(Len(s) + 1) /\ \A i \in 1..Len(s) : s[i].kind \notin Weighty
    BY <2>1, <2>2
  <2>. HIDE DEF s
  <2>4. LightFrom(s \o rest, 1)
    BY <1>4, <2>1, <2>3, AheadOf
  <2>. QED  BY <2>4 DEF s, a, b, c
<1>5. LightFrom(<<>>, 1)
  BY DEF LightFrom
<1>. QED  BY <1>1, <1>2, <1>3, <1>4, <1>5

(* The turns a call can leave current and parked. *)
LEMMA TurnsMove ==
  ASSUME TurnsOK, CallEffect
  PROVE  /\ turn_counter \in Nat /\ turn_counter' \in {turn_counter, turn_counter + 1}
         /\ current_turn' \in {NoTurn, current_turn, pending_cancel_turn, turn_counter + 1}
         /\ pending_cancel_turn' \in {NoTurn, current_turn, pending_cancel_turn}
         /\ \/ current_turn' \in {NoTurn, turn_counter + 1}
            \/ state' = "AgentSpeaking"
            \/ current_turn' = current_turn /\ state' = state
            \/ current_turn' = current_turn /\ state \notin {"AwaitingAgent", "AgentSpeaking"}
<1>. USE DEF Moves, SameTurn, NewTurn, NoTurns, turnVars
<1>1. turn_counter \in Nat
  BY BoundsAssumption DEF TurnsOK
<1>2. CASE StaysPut
  BY <1>1, <1>2 DEF StaysPut
<1>3. CASE Soft \/ Answers
  BY <1>1, <1>3 DEF Soft, Answers
<1>4. CASE Starts \/ Ends \/ Submits
  BY <1>1, <1>4 DEF Starts, Ends, Submits
<1>5. CASE Confirms \/ Seizes \/ BargesIn \/ Retracts
  BY <1>1, <1>5 DEF Confirms, Seizes, BargesIn, Retracts
<1>. QED  BY <1>2, <1>3, <1>4, <1>5 DEF CallEffect

LEMMA CallAsked ==
  ASSUME TurnsOK, CallEffect, AskedOK, UNCHANGED asked,
         \A i \in DOMAIN agent_events' : agent_events'[i].turn \in asked
  PROVE  AskedOK'
<1>1. asked \subseteq 1..turn_counter' /\ turn_counter \in Nat
  BY TurnsMove DEF AskedOK
<1>2. turn_counter + 1 \notin asked /\ NoTurn \notin asked
  BY <1>1 DEF AskedOK, NoTurn
<1>3. current_turn' \in asked => state' \in {"AwaitingAgent", "AgentSpeaking"}
  BY <1>2, TurnsMove DEF AskedOK
<1>. QED  BY <1>1, <1>3 DEF AskedOK

LEMMA CallPlaces ==
  ASSUME TurnsOK, CallEffect, PlaybackOK, SamePlaces(playback, playback')
  PROVE  PlaybackOK'
<1>1. /\ turn_counter \in Nat /\ turn_counter' \in {turn_counter, turn_counter + 1}
      /\ current_turn' \in {NoTurn, current_turn, pending_cancel_turn, turn_counter + 1}
      /\ pending_cancel_turn' \in {NoTurn, current_turn, pending_cancel_turn}
  BY TurnsMove
<1>2. NoTurn \notin playback.abandoned /\ turn_counter + 1 \notin playback.abandoned
  BY <1>1 DEF PlaybackOK, NoTurn
<1>3. Untainted'
  BY <1>1, <1>2 DEF PlaybackOK, Untainted, SamePlaces
<1>4. 0..turn_counter \subseteq 0..turn_counter' /\ 1..turn_counter \subseteq 1..turn_counter'
  BY <1>1
<1>. QED  BY <1>3, <1>4 DEF PlaybackOK, SamePlaces

(* No call of the machine. *)
LEMMA QuietAgree ==
  ASSUME AgreeInv, Settled, LightFrom(agenda', 1), SamePlaces(playback, playback'),
         UNCHANGED <<state, turnVars, capturing, asked>>,
         \A i \in DOMAIN agent_events' : agent_events'[i].turn \in asked
  PROVE  AgreeInv'
<1>1. Behind'
  BY QuietBehind
<1>2. AskedOK'
  BY DEF AgreeInv, AskedOK, turnVars
<1>3. PlaybackOK'
  BY DEF AgreeInv, PlaybackOK, SamePlaces, Untainted, turnVars
<1>. QED  BY <1>1, <1>2, <1>3 DEF AgreeInv

(* A call that does not report text of the agent's. *)
LEMMA CallAgree ==
  ASSUME TurnsOK, MachineTypes', AgreeInv, Settled, OtherCall,
         NEW rest \in Seq(Items), LightFrom(rest, 1), ActOnOutputsThen(rest),
         SamePlaces(playback, playback'), UNCHANGED <<capturing, asked>>,
         \A i \in DOMAIN agent_events' : agent_events'[i].turn \in asked
  PROVE  AgreeInv'
<1>1. CallEffect /\ ~ Answers
  BY OtherCallEffects
<1>2. agenda' = out' \o rest /\ out' \in Seq(Items)
  BY CallAgenda DEF ActOnOutputsThen
<1>3. Behind'
  BY <1>1, <1>2, CallBehind DEF AgreeInv, Settled
<1>. QED  BY <1>1, <1>3, CallAsked, CallPlaces DEF AgreeInv

LEMMA SubmitAgree ==
  ASSUME Types, Types', AgreeInv, agenda # <<>>, ActSubmit(Head(agenda))
  PROVE  AgreeInv'
<1>1. Head(agenda) = agenda[1] /\ 1 \in DOMAIN agenda /\ Rest \in Seq(Items)
  BY HeadItem DEF Types, LoopTypes, Rest
<1>2. Kind(agenda, 1, "SubmitUtterance")
  BY <1>1 DEF ActSubmit, Kind
<1>3. /\ LightFrom(agenda, 2) /\ Agree /\ agenda[1].turn = current_turn
      /\ state = "Submitting" /\ capturing
  BY <1>2 DEF AgreeInv, Behind, Calm, Cuts, LightFrom, Kind, Weighty
<1>4. LightFrom(Rest, 1)
  BY <1>1, <1>3, RestShifts DEF Types, LoopTypes, Rest
<1>5. TurnsOK /\ current_turn \in Turn /\ current_turn \in 1..turn_counter
  BY <1>3, BoundsAssumption DEF Types, MachineTypes, TurnsOK, TurnStructure, Turn, NoTurn
<1>6. OnSubmitSucceeded(current_turn) /\ ActOnOutputsThen(Rest) /\ asked' = asked \cup {current_turn}
      /\ UNCHANGED <<capturing, playback, agent_events>>
  BY <1>1, <1>3 DEF ActSubmit, captureVars, playVars
<1>7. CallEffect /\ ~ Answers
  BY <1>5, <1>6, OtherCallEffects DEF OtherCall
<1>8. agenda' = out' \o Rest /\ out' \in Seq(Items)
  BY <1>1, <1>6, CallAgenda DEF ActOnOutputsThen, Types
<1>9. SamePlaces(playback, playback') /\ (capturing <=> state # "Idle")
  BY <1>3, <1>6 DEF SamePlaces
<1>10. Behind'
  BY <1>1, <1>3, <1>4, <1>5, <1>6, <1>7, <1>8, <1>9, CallBehind DEF AgreeInv
<1>11. PlaybackOK'
  BY <1>5, <1>7, <1>9, CallPlaces DEF AgreeInv
<1>12. AskedOK'
  <2>1. state' = "AwaitingAgent" /\ UNCHANGED turnVars
    BY <1>3, <1>6 DEF OnSubmitSucceeded, IsCurrent
  <2>. QED  BY <1>5, <1>6, <2>1 DEF AgreeInv, AskedOK, turnVars
<1>. QED  BY <1>10, <1>11, <1>12 DEF AgreeInv

(* The first text of a reply makes its turn the one that is heard. *)
LEMMA TextAgree ==
  ASSUME Types, Types', AgreeInv, Settled, NEW t \in asked, HandleTextChunk(t),
         UNCHANGED <<capturing, asked>>,
         \A i \in DOMAIN agent_events' : agent_events'[i].turn \in asked
  PROVE  AgreeInv'
<1>1. t \in Turn /\ t \in 1..turn_counter /\ TurnsOK /\ playback \in PlaybackStates
  BY DEF Types, MachineTypes, MessageTypes, LoopTypes, AgreeInv, AskedOK
<1>2. CASE NoCall /\ UNCHANGED <<agenda, playback>>
  BY <1>2, QuietAgree DEF NoCall, machine, SamePlaces, Settled
<1>3. CASE /\ PB!Recognises(playback, t) \/ current_turn = t
           /\ playback' = IF PB!Recognises(playback, t) THEN playback ELSE PB!Start(playback, t)
           /\ OnAgentTextArrived(t)
           /\ ActOnOutputsThen(<<Synthesize(t)>>)
  <2>1. Called /\ CallEffect
    BY <1>1, <1>3, ResultCalled, CallKinds
  <2>2. /\ agenda' = out' \o <<Synthesize(t)>> /\ out' \in Seq(Items)
        /\ <<Synthesize(t)>> \in Seq(Items) /\ LightFrom(<<Synthesize(t)>>, 1)
    BY <1>1, <1>3, Agendas, LightAgendas, CallAgenda DEF ActOnOutputsThen, Types
  <2>3. CASE PB!Recognises(playback, t)
    <3>1. ~ Answers
      <4>. SUFFICES ASSUME Answers PROVE FALSE
        OBVIOUS
      <4>1. current_turn = t /\ state = "AwaitingAgent"
        BY <1>3 DEF OnAgentTextArrived, IsCurrent, Answers, Moves, Ignored, machine
      <4>. QED
        BY <1>1, <2>3, <4>1
        DEF PB!Recognises, PB!IsLive, PB!IsPaused, Settled, Agree, TurnsOK, TurnStructure, Turn,
            NoTurn
    <3>2. SamePlaces(playback, playback')
      BY <1>3, <2>3 DEF SamePlaces
    <3>3. Behind'
      BY <1>1, <2>1, <2>2, <3>1, <3>2, CallBehind DEF AgreeInv, Settled
    <3>. QED  BY <1>1, <2>1, <3>2, <3>3, CallAsked, CallPlaces DEF AgreeInv
  <2>4. CASE ~ PB!Recognises(playback, t)
    <3>1. current_turn = t /\ state = "AwaitingAgent" /\ playback' = PB!Start(playback, t)
      BY <1>3, <2>4 DEF AgreeInv, AskedOK, Settled, Agree, PB!Recognises, PB!IsLive
    <3>2. state' = "AgentSpeaking" /\ UNCHANGED turnVars /\ Return(<<>>)
      BY <1>3, <3>1 DEF OnAgentTextArrived, IsCurrent
    <3>3. /\ playback'.live_turn = t /\ playback'.paused_turn = playback.paused_turn
          /\ playback'.abandoned = playback.abandoned \ {t}
      BY <1>1, <3>1 DEF PB!Start, PlaybackStates
    <3>4. LightFrom(agenda', 1)
      <4>1. out' = <<EmitState(state')>>
        BY <3>1, <3>2, Returned
      <4>2. EmitState(state').kind \notin Weighty
        BY OutputFields DEF Weighty
      <4>. QED  BY <2>2, <4>1, <4>2, After1
    <3>5. Behind'
      BY <3>1, <3>2, <3>3, <3>4 DEF Settled, Agree, Behind, Calm, turnVars
    <3>6. PlaybackOK'
      BY <1>1, <3>2, <3>3 DEF AgreeInv, PlaybackOK, Untainted, turnVars
    <3>7. AskedOK'
      BY <1>1, <2>1, CallAsked DEF AgreeInv
    <3>. QED  BY <3>5, <3>6, <3>7 DEF AgreeInv
  <2>. QED  BY <2>3, <2>4
<1>. QED  BY <1>2, <1>3 DEF HandleTextChunk

(* The outputs that concern the playback. *)
LEMMA PlaybackAgree ==
  ASSUME Types, AgreeInv, agenda # <<>>,
         ActCapture(Head(agenda)) \/ ActPlayback(Head(agenda)) \/ ActCancelSynthesis(Head(agenda))
  PROVE  AgreeInv'
<1>. DEFINE o == Head(agenda)
<1>0. /\ playback \in PlaybackStates /\ turn_counter \in Nat /\ LoopTypes
      /\ 1 \in DOMAIN agenda /\ o = agenda[1]
  BY HeadItem, BoundsAssumption DEF Types, MachineTypes, TurnsOK, LoopTypes
<1>1. UNCHANGED <<state, turnVars, asked, agent_events>>
  BY DEF ActCapture, ActPlayback, ActCancelSynthesis, NoCall, machine, agentVars
<1>2. AskedOK'
  BY <1>1 DEF AgreeInv, AskedOK, turnVars
<1>3. CASE ActCapture(o)
  BY <1>0, <1>1, <1>2, <1>3, CaptureBehind
  DEF AgreeInv, PlaybackOK, Untainted, turnVars, ActCapture, playVars
<1>4. CASE ActPlayback(o)
  <2>1. PlaybackOK'
    <3>1. CASE o.kind = "ShowPartial"
      BY <1>1, <1>4, <3>1 DEF ActPlayback, AgreeInv, PlaybackOK, Untainted, turnVars
    <3>2. CASE o.kind \in {"CancelPlayback", "FlushOutputBuffer"}
      <4>1. /\ playback'.abandoned = playback.abandoned
            /\ playback'.live_turn \in {NoTurn, playback.live_turn}
            /\ playback'.paused_turn \in {playback.live_turn, playback.paused_turn}
        <5>1. CASE playback' = PB!CancelPlayback(playback)
          BY <1>0, <5>1, Silencing DEF PlaybackStates
        <5>2. CASE playback' = PB!Flush(playback)
          BY <1>0, <5>2, Silencing DEF PlaybackStates
        <5>. QED  BY <1>4, <3>2, <5>1, <5>2 DEF ActPlayback
      <4>. QED  BY <1>0, <1>1, <4>1 DEF AgreeInv, PlaybackOK, Untainted, turnVars, NoTurn
    <3>3. CASE o.kind = "ResumeSpeaking"
      <4>1. /\ playback'.abandoned = playback.abandoned
            /\ playback'.live_turn \in {playback.paused_turn, playback.live_turn}
            /\ playback'.paused_turn \in {NoTurn, playback.paused_turn}
        BY <1>0, <1>4, <3>3
        DEF ActPlayback, PB!Resume, PB!IsPaused, PB!Unparked, PB!NoTurn, NoTurn, PlaybackStates
      <4>. QED  BY <1>0, <1>1, <4>1 DEF AgreeInv, PlaybackOK, Untainted, turnVars, NoTurn
    <3>. QED  BY <1>4, <3>1, <3>2, <3>3 DEF ActPlayback
  <2>. QED  BY <1>2, <1>4, <2>1, PlaybackBehind DEF AgreeInv
<1>5. CASE ActCancelSynthesis(o)
  <2>1. /\ Behind' /\ o.turn \in Turn \ {current_turn, pending_cancel_turn}
        /\ o.turn = playback.paused_turn
    BY <1>5, CancelBehind DEF AgreeInv
  <2>2. /\ playback'.abandoned = playback.abandoned \cup {o.turn}
        /\ playback'.live_turn \in {NoTurn, playback.live_turn}
        /\ playback'.paused_turn \in {NoTurn, playback.paused_turn}
    BY <1>0, <1>5
    DEF ActCancelSynthesis, PB!CancelSynthesis, PB!IsLive, PB!IsPaused, PB!Unparked, PB!Silenced,
        PB!NoTurn, NoTurn, PlaybackStates
  <2>3. o.turn \in 1..turn_counter
    BY <1>0, <2>1 DEF AgreeInv, PlaybackOK, Turn
  <2>4. PlaybackOK'
    BY <1>0, <1>1, <2>1, <2>2, <2>3 DEF AgreeInv, PlaybackOK, Untainted, turnVars, NoTurn
  <2>. QED  BY <1>2, <2>1, <2>4 DEF AgreeInv
<1>. QED  BY <1>3, <1>4, <1>5

LEMMA ActAgree ==
  ASSUME Types, Types', AgreeInv, Act
  PROVE  AgreeInv'
<1>. DEFINE o == Head(agenda)
<1>0. /\ agenda \in Seq(Items) /\ agenda # <<>> /\ o \in Items /\ Rest \in Seq(Items)
      /\ TurnsOK /\ MachineTypes' /\ LoopTypes
  BY HeadItem DEF Types, MachineTypes, LoopTypes, Act, Rest
<1>1. CASE ActCapture(o) \/ ActPlayback(o) \/ ActCancelSynthesis(o)
  BY <1>0, <1>1, PlaybackAgree
<1>2. CASE ActSubmit(o)
  BY <1>0, <1>2, SubmitAgree
<1>3. ASSUME o.kind \notin Weighty
      PROVE  Settled /\ LightFrom(Rest, 1)
  <2>1. Settled
    BY <1>0, <1>3, LightHead DEF AgreeInv
  <2>. QED  BY <1>0, <2>1, LightRest DEF Settled, Rest
<1>4. \A i \in DOMAIN agent_events : agent_events[i].turn \in asked
  BY DEF AgreeInv, AskedOK
<1>5. CASE ActReplay(o) \/ ActState(o) \/ SynthesizeChunk(o) \/ ResetRecognizer(o)
           \/ TranscribeFrame(o)
  <2>1. o.kind \notin Weighty /\ agenda' = Rest /\ NoCall
    BY <1>5
    DEF ActReplay, ActState, ActStateResetting, SynthesizeChunk, ResetRecognizer, TranscribeFrame,
        Weighty
  <2>2. UNCHANGED <<capturing, playback, asked, agent_events>>
    BY <1>5
    DEF ActReplay, ActState, ActStateResetting, SynthesizeChunk, ResetRecognizer, TranscribeFrame,
        captureVars, playVars, agentVars
  <2>. QED  BY <1>3, <1>4, <2>1, <2>2, QuietAgree DEF NoCall, machine, SamePlaces
<1>6. CASE CallMachine(o) \/ DetectSpeech(o)
  <2>1. o.kind \notin Weighty /\ ActOnOutputsThen(Rest)
    BY <1>6 DEF CallMachine, DetectSpeech, Weighty
  <2>2. OtherCall
    BY <1>0, <1>6, ItemFields DEF CallMachine, DetectSpeech, OtherCall, Control, Detectors
  <2>3. UNCHANGED <<capturing, playback, asked, agent_events>>
    BY <1>6 DEF CallMachine, DetectSpeech, captureVars, playVars, agentVars
  <2>4. SamePlaces(playback, playback')
    BY <2>3 DEF SamePlaces
  <2>. QED  BY <1>0, <1>3, <1>4, <2>1, <2>2, <2>3, <2>4, CallAgree
<1>7. CASE FinishTurnIfSilent(o)
  <2>1. o.kind \notin Weighty /\ o.turn \in Turn
    BY <1>0, <1>7, ItemFields DEF FinishTurnIfSilent, Weighty
  <2>2. UNCHANGED <<capturing, playback, asked, agent_events>> /\ SamePlaces(playback, playback')
    BY <1>7 DEF FinishTurnIfSilent, captureVars, agentVars, SamePlaces
  <2>3. CASE SignalDrained(o.turn, Rest)
    <3>1. OtherCall /\ ActOnOutputsThen(Rest)
      BY <2>1, <2>3 DEF SignalDrained, OtherCall
    <3>. QED  BY <1>0, <1>3, <1>4, <2>1, <2>2, <3>1, CallAgree
  <2>4. CASE agenda' = Rest /\ NoCall
    BY <1>3, <1>4, <2>1, <2>2, <2>4, QuietAgree DEF NoCall, machine
  <2>. QED  BY <1>7, <2>3, <2>4 DEF FinishTurnIfSilent
<1>. QED  BY <1>1, <1>2, <1>5, <1>6, <1>7 DEF Act

LEMMA LoopAgree ==
  ASSUME Types, Types', AgreeInv, Orchestrate, ~ Act
  PROVE  AgreeInv'
<1>0. /\ TurnsOK /\ MachineTypes' /\ LoopTypes /\ <<>> \in Seq(Items) /\ LightFrom(<<>>, 1)
      /\ playback \in PlaybackStates
  BY Agendas, LightAgendas DEF Types, MachineTypes, LoopTypes
<1>1. Settled
  <2>1. agenda = <<>>
    BY DEF Orchestrate, DrainControl, Shutdown, TickMachine, PumpFrame, NoFrame, CheckDevice,
           DrainStt, SttDrained, DrainAgent, AgentDrained, DrainTts, TtsDrained, FeedPlayback,
           Idling
  <2>. QED  BY <1>0, <2>1, LightHead DEF AgreeInv
<1>2. \A i \in DOMAIN agent_events : agent_events[i].turn \in asked
  BY DEF AgreeInv, AskedOK
<1>3. CASE DrainControl \/ Shutdown \/ TickMachine
  <2>1. /\ OtherCall /\ ActOnOutputsThen(<<>>)
        /\ UNCHANGED <<capturing, playback, asked, agent_events>>
    BY <1>3
    DEF DrainControl, Shutdown, TickMachine, OtherCall, Control, LoopOnly, captureVars, playVars,
        agentVars
  <2>2. SamePlaces(playback, playback')
    BY <2>1 DEF SamePlaces
  <2>. QED  BY <1>0, <1>1, <1>2, <2>1, <2>2, CallAgree
<1>4. CASE PumpFrame \/ NoFrame \/ AgentDrained \/ SttDrained \/ TtsDrained
  <2>1. UNCHANGED <<state, turnVars, capturing, playback, asked, agent_events>>
    BY <1>4
    DEF PumpFrame, NoFrame, AgentDrained, SttDrained, TtsDrained, PushFrame, NoCall, machine,
        LoopOnly, captureVars, playVars, agentVars
  <2>2. agenda' \in {agenda, <<Detect, Transcribe>>}
    BY <1>4 DEF PumpFrame, NoFrame, AgentDrained, SttDrained, TtsDrained
  <2>3. LightFrom(agenda', 1)
    BY <1>1, <2>2, LightAgendas DEF Settled
  <2>. QED  BY <1>1, <1>2, <2>1, <2>3, QuietAgree DEF SamePlaces
<1>5. ASSUME NEW count, NEW rest \in Seq(Items), LightFrom(rest, 1),
             RebuildEngine(count, rest) \/ KeepEngine(count, rest)
      PROVE  LightFrom(agenda', 1)
  BY <1>5, LightAgendas DEF RebuildEngine, KeepEngine
<1>6. CASE CheckDevice
  <2>1. LightFrom(agenda', 1)
    BY <1>0, <1>5, <1>6 DEF CheckDevice
  <2>2. UNCHANGED <<state, turnVars, capturing, playback, asked, agent_events>>
    BY <1>6 DEF CheckDevice, NoCall, machine, agentVars
  <2>. QED  BY <1>1, <1>2, <2>1, <2>2, QuietAgree DEF SamePlaces
<1>7. CASE DrainStt
  <2>. DEFINE r == Head(stt_results)
  <2>1. r.turn \in Turn /\ (r.kind = "Final" => r.text \in Text)
    <3>1. r \in SttResults
      BY <1>7 DEF DrainStt, Types, MessageTypes
    <3>. QED  BY <3>1 DEF SttResults
  <2>2. UNCHANGED <<capturing, playback, asked, agent_events>> /\ SamePlaces(playback, playback')
    BY <1>7 DEF DrainStt, HandlePartial, HandleFinal, captureVars, agentVars, SamePlaces
  <2>3. CASE HandlePartial(r)
    <3>1. OtherCall /\ ActOnOutputsThen(<<>>)
      BY <2>1, <2>3 DEF HandlePartial, OtherCall
    <3>. QED  BY <1>0, <1>1, <1>2, <2>2, <3>1, CallAgree
  <2>4. CASE HandleFinal(r)
    <3>0. PICK submit \in Seq(Items) : \E count :
            LightFrom(submit, 1) /\ (RebuildEngine(count, submit) \/ KeepEngine(count, submit))
      <4>1. /\ <<Dispatch("Rejected", r.turn)>> \in Seq(Items)
            /\ <<DispatchFinal(r.turn, r.text)>> \in Seq(Items)
            /\ LightFrom(<<Dispatch("Rejected", r.turn)>>, 1)
            /\ LightFrom(<<DispatchFinal(r.turn, r.text)>>, 1)
        BY <2>1, <2>4, Agendas, LightAgendas DEF HandleFinal
      <4>. QED  BY <2>4, <4>1 DEF HandleFinal
    <3>1. PICK count :
            LightFrom(submit, 1) /\ (RebuildEngine(count, submit) \/ KeepEngine(count, submit))
      BY <3>0
    <3>2. LightFrom(agenda', 1)
      BY <1>5, <3>1
    <3>3. UNCHANGED <<state, turnVars>>
      BY <2>4 DEF HandleFinal, NoCall, machine
    <3>. QED  BY <1>1, <1>2, <2>2, <3>2, <3>3, QuietAgree
  <2>. QED  BY <1>7, <2>3, <2>4 DEF DrainStt
<1>8. CASE DrainAgent
  <2>. DEFINE e == Head(agent_events)
              E == [kind : {"TextChunk", "TurnComplete"}, turn : Turn]
  <2>1. /\ agent_events \in Seq(E) /\ agent_events # <<>> /\ agent_events' = Tail(agent_events)
        /\ UNCHANGED <<capturing, asked>>
    BY <1>8 DEF DrainAgent, Types, MessageTypes, captureVars
  <2>2. e.turn \in asked /\ \A i \in DOMAIN agent_events' : agent_events'[i].turn \in asked
    <3>. HIDE DEF E
    <3>1. 1 \in DOMAIN agent_events /\ e = agent_events[1]
      BY <2>1
    <3>2. \A i \in DOMAIN agent_events' :
            i + 1 \in DOMAIN agent_events /\ agent_events'[i] = agent_events[i + 1]
      BY <2>1
    <3>. QED  BY <1>2, <3>1, <3>2
  <2>3. CASE HandleTextChunk(e.turn)
    BY <1>1, <2>1, <2>2, <2>3, TextAgree
  <2>4. CASE /\ OnAgentTurnComplete(e.turn) /\ ActOnOutputsThen(<<FinishIfSilent(e.turn)>>)
             /\ UNCHANGED playback
    <3>1. e.turn \in Turn
      BY <2>2 DEF Types, MessageTypes
    <3>2. /\ OtherCall /\ <<FinishIfSilent(e.turn)>> \in Seq(Items)
          /\ LightFrom(<<FinishIfSilent(e.turn)>>, 1)
      BY <2>4, <3>1, Agendas, LightAgendas DEF OtherCall
    <3>3. SamePlaces(playback, playback')
      BY <2>4 DEF SamePlaces
    <3>. QED  BY <1>0, <1>1, <2>1, <2>2, <2>4, <3>2, <3>3, CallAgree
  <2>. QED  BY <1>8, <2>3, <2>4 DEF DrainAgent
<1>9. CASE DrainTts
  <2>1. SamePlaces(playback, playback')
    BY <1>0, <1>9 DEF DrainTts, RouteChunk, PB!RouteSynthesized, SamePlaces, PlaybackStates
  <2>2. UNCHANGED <<state, turnVars, capturing, agenda, asked, agent_events>>
    BY <1>9 DEF DrainTts, NoCall, machine, captureVars, agentVars
  <2>. QED  BY <1>1, <1>2, <2>1, <2>2, QuietAgree DEF Settled
<1>10. CASE FeedPlayback
  <2>1. SamePlaces(playback, playback')
    BY <1>0, <1>10 DEF FeedPlayback, Feed, FeedEndingIf, PB!TakeLive, SamePlaces, PlaybackStates
  <2>2. UNCHANGED <<capturing, asked, agent_events>>
    BY <1>10 DEF FeedPlayback, captureVars, agentVars
  <2>3. CASE playback.live_turn # NoTurn /\ SignalDrained(playback.live_turn, <<>>)
    <3>1. OtherCall /\ ActOnOutputsThen(<<>>)
      BY <1>0, <2>3 DEF SignalDrained, OtherCall, PlaybackStates
    <3>. QED  BY <1>0, <1>1, <1>2, <2>1, <2>2, <3>1, CallAgree
  <2>4. CASE NoCall /\ UNCHANGED agenda
    BY <1>1, <1>2, <2>1, <2>2, <2>4, QuietAgree DEF NoCall, machine, Settled
  <2>. QED  BY <1>10, <2>3, <2>4 DEF FeedPlayback, Feed, FeedEndingIf
<1>. QED
  BY <1>3, <1>4, <1>6, <1>7, <1>8, <1>9, <1>10 DEF Orchestrate

(* The other threads do not touch what the agreement is about; the agent
   speaks of turns it was asked. *)
LEMMA OthersAgree ==
  ASSUME Types, AgreeInv,
         \/ SttWork \/ SttDies \/ TtsWork \/ TtsDies \/ AgentWork \/ PlayOut \/ UNCHANGED pvars
  PROVE  AgreeInv'
<1>1. UNCHANGED <<state, turnVars, agenda, capturing, playback, asked>>
  BY DEF SttWork, SttDies, TtsWork, TtsDies, AgentWork, PlayOut, OrchestratorIdle, pvars, vars,
         machine, loopVars, captureVars, playVars, agentVars
<1>2. \A i \in DOMAIN agent_events' : agent_events'[i].turn \in asked
  <2>0. \A i \in DOMAIN agent_events : agent_events[i].turn \in asked
    BY DEF AgreeInv, AskedOK
  <2>1. CASE AgentWork
    <3>. DEFINE E == [kind : {"TextChunk", "TurnComplete"}, turn : Turn]
    <3>1. PICK t \in asked : AgentSays(t) \/ AgentEnds(t)
      BY <2>1 DEF AgentWork
    <3>2. PICK m \in E : agent_events' = Append(agent_events, m) /\ m.turn = t
      <4>1. t \in Turn
        BY DEF Types, MessageTypes
      <4>2. CASE AgentSays(t)
        <5>1. agent_events' = Append(agent_events, [kind |-> "TextChunk", turn |-> t])
          BY <4>2 DEF AgentSays
        <5>2. [kind |-> "TextChunk", turn |-> t] \in E /\ [kind |-> "TextChunk", turn |-> t].turn = t
          BY <4>1
        <5>. QED  BY <5>1, <5>2
      <4>3. CASE AgentEnds(t)
        BY <4>1, <4>3 DEF AgentEnds
      <4>. QED  BY <3>1, <4>2, <4>3
    <3>3. agent_events \in Seq(E)
      BY DEF Types, MessageTypes
    <3>. HIDE DEF E
    <3>4. \A i \in DOMAIN agent_events' :
            agent_events'[i] = m \/ (i \in DOMAIN agent_events /\ agent_events'[i] = agent_events[i])
      BY <3>2, <3>3
    <3>. QED  BY <2>0, <3>2, <3>4
  <2>2. CASE ~ AgentWork
    BY <2>0, <2>2 DEF SttWork, SttDies, TtsWork, TtsDies, PlayOut, pvars, agentVars
  <2>. QED  BY <2>1, <2>2
<1>3. Behind'
  BY <1>1
  DEF AgreeInv, Behind, Calm, Cuts, Agree, Parked, Doomed, GivenUp, Barging, Resuming, turnVars
<1>. QED
  BY <1>1, <1>2, <1>3 DEF AgreeInv, AskedOK, PlaybackOK, Untainted, turnVars

LEMMA AgreeInit == ASSUME PInit PROVE AgreeInv
<1>1. LightFrom(agenda, 1)
  BY LightAgendas DEF PInit
<1>2. /\ state = "Idle" /\ current_turn = NoTurn /\ pending_cancel_turn = NoTurn
      /\ turn_counter = 0 /\ capturing = FALSE /\ playback = PB!Empty /\ asked = {}
      /\ agent_events = <<>>
  BY DEF PInit, Init
<1>3. Behind
  BY <1>1, <1>2 DEF Behind, Calm, Agree, PB!Empty, PB!NoTurn, NoTurn
<1>. QED
  BY <1>2, <1>3 DEF AgreeInv, AskedOK, PlaybackOK, Untainted, PB!Empty, PB!NoTurn, NoTurn

LEMMA AgreeStep ==
  ASSUME Types, AgreeInv, [PNext]_pvars
  PROVE  Types' /\ AgreeInv'
<1>1. Types'
  BY TypesStep
<1>. QED  BY <1>1, ActAgree, LoopAgree, OthersAgree DEF PNext, Orchestrate, Stopped

LEMMA AgreeAlways == PSpec => [](Types /\ AgreeInv)
BY TypesInit, AgreeInit, AgreeStep, PTL DEF PSpec

(* Whenever the orchestrator is between two statements of its loop, the turn
   that can be heard is the one that is speaking, a turn is parked exactly
   while a barge-in is unproved and is silent then, none that speaks or is
   parked was abandoned, and the microphone is open exactly during a session:
   for any number of turns and whatever of the hazards happen (act and
   process_frame of pipeline.rs over the outputs of machine.rs). *)
THEOREM EnginesAgree == PSpec => []EnginesFollowSession
<1>1. ASSUME Types, AgreeInv PROVE EnginesFollowSession
  <2>. SUFFICES ASSUME agenda = <<>> PROVE Settled /\ Untainted
    BY DEF EnginesFollowSession, Idling, Settled, Agree, Untainted, PB!IsLive
  <2>. QED  BY <1>1, LightHead DEF Types, AgreeInv, PlaybackOK
<1>. QED  BY <1>1, AgreeAlways, PTL

----------------------------------------------------------------------------
(* How many items of a sequence are x. *)

Count(s, x) == Cardinality({i \in DOMAIN s : s[i] = x})

LEMMA CountType ==
  ASSUME NEW S, NEW s \in Seq(S), NEW x
  PROVE  IsFiniteSet({i \in DOMAIN s : s[i] = x}) /\ Count(s, x) \in Nat
<1>1. IsFiniteSet(DOMAIN s)
  BY FS_Interval
<1>2. {i \in DOMAIN s : s[i] = x} \in SUBSET DOMAIN s
  OBVIOUS
<1>3. IsFiniteSet({i \in DOMAIN s : s[i] = x})
  BY <1>1, <1>2, FS_Subset
<1>. QED  BY <1>3, FS_CardinalityType DEF Count

LEMMA CountEmpty == \A x : Count(<<>>, x) = 0
<1>1. \A x : {i \in DOMAIN <<>> : <<>>[i] = x} = {}
  OBVIOUS
<1>. QED  BY <1>1, FS_EmptySet DEF Count

LEMMA CountAppend ==
  ASSUME NEW S, NEW s \in Seq(S), NEW y \in S, NEW x
  PROVE  Count(Append(s, y), x) = IF y = x THEN Count(s, x) + 1 ELSE Count(s, x)
<1>. DEFINE A == {i \in DOMAIN s : s[i] = x}
            n == Len(s) + 1
            B == {i \in DOMAIN Append(s, y) : Append(s, y)[i] = x}
<1>1. /\ DOMAIN s = 1..Len(s) /\ DOMAIN Append(s, y) = 1..n /\ Len(s) \in Nat
      /\ \A i \in 1..Len(s) : Append(s, y)[i] = s[i]
      /\ Append(s, y)[n] = y
  OBVIOUS
<1>2. B = IF y = x THEN A \cup {n} ELSE A
  BY <1>1
<1>3. n \notin A
  BY <1>1
<1>. HIDE DEF A, n, B
<1>4. IsFiniteSet(A)
  BY CountType DEF A
<1>5. Cardinality(B) = IF y = x THEN Cardinality(A) + 1 ELSE Cardinality(A)
  BY <1>2, <1>3, <1>4, FS_AddElement
<1>. QED  BY <1>5 DEF Count, A, B

LEMMA CountTail ==
  ASSUME NEW S, NEW s \in Seq(S), s # <<>>, NEW x
  PROVE  Count(s, x) = IF Head(s) = x THEN Count(Tail(s), x) + 1 ELSE Count(Tail(s), x)
<1>. DEFINE A == {i \in DOMAIN s : s[i] = x}
            B == {i \in DOMAIN Tail(s) : Tail(s)[i] = x}
            C == A \ {1}
            f == [i \in B |-> i + 1]
<1>1. /\ DOMAIN s = 1..Len(s) /\ DOMAIN Tail(s) = 1..(Len(s) - 1) /\ Len(s) \in Nat \ {0}
      /\ \A i \in 1..(Len(s) - 1) : Tail(s)[i] = s[i + 1]
      /\ s[1] = Head(s)
  OBVIOUS
<1>2. f \in [B -> C]
  BY <1>1
<1>3. \A i, j \in B : f[i] = f[j] => i = j
  BY <1>1
<1>4. \A k \in C : k - 1 \in B /\ f[k - 1] = k
  BY <1>1
<1>5. A = IF Head(s) = x THEN C \cup {1} ELSE C
  BY <1>1
<1>6. Tail(s) \in Seq(S)
  OBVIOUS
<1>7. IsFiniteSet(B)
  BY <1>6, CountType
<1>8. 1 \notin C
  OBVIOUS
<1>. HIDE DEF A, B, C, f
<1>9. f \in Bijection(B, C)
  BY <1>2, <1>3, <1>4 DEF Bijection, Injection, IsInjective, Surjection
<1>10. IsFiniteSet(C) /\ Cardinality(C) = Cardinality(B)
  BY <1>7, <1>9, FS_Bijection DEF ExistsBijection
<1>11. Cardinality(A) = IF Head(s) = x THEN Cardinality(B) + 1 ELSE Cardinality(B)
  BY <1>5, <1>8, <1>10, FS_AddElement
<1>. QED  BY <1>11 DEF Count, A, B

(* n times y, put behind a sequence. *)
LEMMA CountCopies ==
  ASSUME NEW S, NEW s \in Seq(S), NEW y \in S, NEW n \in Nat, NEW x
  PROVE  Count(s \o [i \in 1..n |-> y], x) = IF y = x THEN Count(s, x) + n ELSE Count(s, x)
<1>. DEFINE c == [i \in 1..n |-> y]
            A == {i \in DOMAIN s : s[i] = x}
            C == (Len(s) + 1)..(Len(s) + n)
            B == {i \in DOMAIN (s \o c) : (s \o c)[i] = x}
<1>1. c \in Seq(S) /\ Len(c) = n /\ \A i \in 1..n : c[i] = y
  OBVIOUS
<1>. HIDE DEF c
<1>2. /\ DOMAIN s = 1..Len(s) /\ Len(s) \in Nat /\ DOMAIN (s \o c) = 1..(Len(s) + n)
      /\ \A i \in 1..(Len(s) + n) : (s \o c)[i] = IF i <= Len(s) THEN s[i] ELSE y
  BY <1>1
<1>3. B = IF y = x THEN A \cup C ELSE A
  BY <1>2
<1>4. A \cap C = {}
  BY <1>2
<1>5. IsFiniteSet(C) /\ Cardinality(C) = n
  <2>. DEFINE a == Len(s) + 1
              b == Len(s) + n
  <2>1. a \in Int /\ b \in Int /\ (IF a > b THEN 0 ELSE b - a + 1) = n
    BY <1>2
  <2>. HIDE DEF a, b
  <2>2. IsFiniteSet(a..b) /\ Cardinality(a..b) = IF a > b THEN 0 ELSE b - a + 1
    BY <2>1, FS_Interval
  <2>. QED  BY <2>1, <2>2 DEF a, b
<1>6. IsFiniteSet(A) /\ Cardinality(A) \in Nat
  BY CountType DEF Count
<1>. HIDE DEF A, B, C
<1>7. Cardinality(A \cup C) = Cardinality(A) + n
  <2>1. Cardinality(A \cap C) = 0
    BY <1>4, FS_EmptySet, Zenon
  <2>2. Cardinality(A \cup C) = Cardinality(A) + Cardinality(C) - Cardinality(A \cap C)
    BY <1>5, <1>6, FS_Union
  <2>. QED  BY <1>5, <1>6, <2>1, <2>2
<1>8. Cardinality(B) = IF y = x THEN Cardinality(A) + n ELSE Cardinality(A)
  BY <1>3, <1>7
<1>. QED  BY <1>8 DEF Count, A, B, c

LEMMA FlightType ==
  ASSUME Types
  PROVE  /\ \A t : InFlight(t) = Count(tts_requests, Phrase(t)) + Count(tts_results, Phrase(t))
         /\ \A t : Count(tts_requests, Phrase(t)) \in Nat /\ Count(tts_results, Phrase(t)) \in Nat
         /\ \A t : InFlight(t) \in Nat
<1>1. \A t : InFlight(t) = Count(tts_requests, Phrase(t)) + Count(tts_results, Phrase(t))
  BY DEF InFlight, Count
<1>2. \A t : Count(tts_requests, Phrase(t)) \in Nat /\ Count(tts_results, Phrase(t)) \in Nat
  BY CountType DEF Types, MessageTypes
<1>. QED  BY <1>1, <1>2

----------------------------------------------------------------------------
(* The count of phrases covers those on their way. *)

LEMMA FlightTypes ==
  ASSUME Types, Types'
  PROVE  \A t : InFlight(t) \in Nat /\ InFlight(t)' \in Nat
<1>1. \A t : InFlight(t) \in Nat
  BY FlightType
<1>2. \A t : InFlight(t)' = Count(tts_requests', Phrase(t)) + Count(tts_results', Phrase(t))
  BY DEF InFlight, Count
<1>3. \A t : Count(tts_requests', Phrase(t)) \in Nat /\ Count(tts_results', Phrase(t)) \in Nat
  BY CountType DEF Types, MessageTypes
<1>. QED  BY <1>1, <1>2, <1>3

LEMMA PhrasesDiffer == ASSUME NEW v PROVE \A t : Phrase(t) = Phrase(v) <=> t = v
<1>1. \A t : Phrase(t).turn = t
  BY DEF Phrase
<1>. QED  BY <1>1, Zenon DEF Phrase

LEMMA Concatenated ==
  ASSUME NEW S, NEW s \in Seq(S), NEW r \in Seq(S)
  PROVE  /\ DOMAIN (s \o r) = 1..(Len(s) + Len(r)) /\ DOMAIN r = 1..Len(r) /\ Len(r) \in Nat
         /\ \A j \in 1..(Len(s) + Len(r)) :
              (s \o r)[j] = IF j <= Len(s) THEN s[j] ELSE r[j - Len(s)]
OBVIOUS

LEMMA MentionsRest ==
  ASSUME NEW s \in Seq(Items), s # <<>>, NEW t, Mentions(Tail(s), t)
  PROVE  Mentions(s, t)
<1>1. \A i \in DOMAIN Tail(s) : i + 1 \in DOMAIN s /\ Tail(s)[i] = s[i + 1]
  OBVIOUS
<1>. QED  BY <1>1 DEF Mentions

LEMMA MentionsEither ==
  ASSUME NEW s \in Seq(Items), NEW r \in Seq(Items), NEW t, Mentions(s \o r, t)
  PROVE  Mentions(s, t) \/ Mentions(r, t)
<1>1. PICK i \in DOMAIN (s \o r) : (s \o r)[i].kind = "Synthesize" /\ (s \o r)[i].turn = t
  BY DEF Mentions
<1>2. /\ DOMAIN (s \o r) = 1..(Len(s) + Len(r)) /\ DOMAIN r = 1..Len(r) /\ DOMAIN s = 1..Len(s)
      /\ Len(s) \in Nat /\ Len(r) \in Nat
      /\ \A j \in 1..(Len(s) + Len(r)) :
           (s \o r)[j] = IF j <= Len(s) THEN s[j] ELSE r[j - Len(s)]
  BY Concatenated
<1>3. CASE i <= Len(s)
  BY <1>1, <1>2, <1>3 DEF Mentions
<1>4. CASE ~ (i <= Len(s))
  <2>1. i - Len(s) \in DOMAIN r /\ (s \o r)[i] = r[i - Len(s)]
    BY <1>1, <1>2, <1>4
  <2>. QED  BY <1>1, <2>1 DEF Mentions
<1>. QED  BY <1>3, <1>4

LEMMA MentionsAfter ==
  ASSUME NEW o \in Seq(Outputs), NEW rest \in Seq(Items), NEW t, Mentions(o \o rest, t)
  PROVE  Mentions(rest, t)
<1>1. PICK i \in DOMAIN (o \o rest) : (o \o rest)[i].kind = "Synthesize" /\ (o \o rest)[i].turn = t
  BY DEF Mentions
<1>2. \A x \in Outputs : x.kind # "Synthesize"
  BY DEF Outputs
<1>3. o \in Seq(Items)
  BY DEF Items
<1>4. /\ DOMAIN (o \o rest) = 1..(Len(o) + Len(rest)) /\ DOMAIN rest = 1..Len(rest)
      /\ Len(o) \in Nat /\ Len(rest) \in Nat
      /\ \A j \in 1..(Len(o) + Len(rest)) :
           (o \o rest)[j] = IF j <= Len(o) THEN o[j] ELSE rest[j - Len(o)]
  BY <1>3
<1>5. i > Len(o)
  <2>. SUFFICES ASSUME i <= Len(o) PROVE FALSE
    BY <1>4
  <2>1. i \in 1..Len(o) /\ (o \o rest)[i] = o[i]
    BY <1>4
  <2>2. o[i] \in Outputs
    BY <2>1
  <2>. QED  BY <1>1, <1>2, <2>1, <2>2
<1>6. i - Len(o) \in DOMAIN rest /\ rest[i - Len(o)] = (o \o rest)[i]
  BY <1>4, <1>5
<1>. QED  BY <1>1, <1>6 DEF Mentions

LEMMA FlightKept ==
  ASSUME UNCHANGED <<tts_requests, tts_results>>
  PROVE  \A t : InFlight(t)' = InFlight(t)
BY DEF InFlight

LEMMA CoverKept ==
  ASSUME Types, Types', CoverInv, UNCHANGED <<tts, tts_requests, tts_results>>,
         turn_counter' >= turn_counter,
         \A t \in Turn : Mentions(agenda', t) => Mentions(agenda, t),
         \A t \in Turn : PB!Recognises(playback', t) =>
           PB!Recognises(playback, t) /\ tts_pending'[t] >= tts_pending[t],
         \A t \in Turn : OnItsWay(t) /\ t = current_turn' => PB!Recognises(playback', t)
  PROVE  CoverInv'
<1>0. /\ \A t : InFlight(t)' = InFlight(t) /\ InFlight(t) \in Nat
      /\ \A t \in Turn : tts_pending[t] \in Nat /\ tts_pending'[t] \in Nat
      /\ turn_counter \in Nat /\ turn_counter' \in Nat /\ \A t \in Turn : t \in Nat
  <2>1. \A t : InFlight(t)' = InFlight(t) /\ InFlight(t) \in Nat
    BY FlightKept, FlightType
  <2>2. \A t \in Turn : tts_pending[t] \in Nat /\ tts_pending'[t] \in Nat
    BY DEF Types, LoopTypes
  <2>3. turn_counter \in Nat /\ turn_counter' \in Nat /\ \A t \in Turn : t \in Nat
    BY BoundsAssumption DEF Types, MachineTypes, TurnsOK, Turn
  <2>. QED  BY <2>1, <2>2, <2>3
<1>1. PhrasesKnown'
  <2>. SUFFICES ASSUME NEW t \in Turn, OnItsWay(t)'
               PROVE  t <= turn_counter' /\ (t = current_turn' => PB!Recognises(playback', t))
    BY DEF PhrasesKnown
  <2>1. OnItsWay(t)
    BY <1>0 DEF OnItsWay
  <2>. QED  BY <1>0, <2>1 DEF CoverInv, PhrasesKnown
<1>2. PendingCoversPhrases'
  <2>. SUFFICES ASSUME NEW t \in Turn, PB!Recognises(playback', t)
               PROVE  InFlight(t)' <= tts_pending'[t]
    BY DEF PendingCoversPhrases
  <2>1. InFlight(t) <= tts_pending[t] /\ tts_pending'[t] >= tts_pending[t]
    BY DEF CoverInv, PendingCoversPhrases
  <2>. QED  BY <1>0, <2>1
<1>. QED  BY <1>1, <1>2 DEF CoverInv, WorkerOK

LEMMA QuietCover ==
  ASSUME Types, Types', CoverInv, SamePlaces(playback, playback'),
         UNCHANGED <<turnVars, tts, tts_requests, tts_results, tts_pending>>,
         \A t \in Turn : Mentions(agenda', t) => Mentions(agenda, t)
  PROVE  CoverInv'
<1>1. \A t : PB!Recognises(playback', t) <=> PB!Recognises(playback, t)
  BY DEF SamePlaces, PB!Recognises, PB!IsLive, PB!IsPaused
<1>2. turn_counter \in Nat /\ UNCHANGED <<current_turn, turn_counter>>
      /\ \A t \in Turn : tts_pending[t] \in Nat
  BY BoundsAssumption DEF Types, MachineTypes, LoopTypes, TurnsOK, turnVars
<1>3. \A t \in Turn : OnItsWay(t) /\ t = current_turn' => PB!Recognises(playback', t)
  BY <1>1, <1>2 DEF CoverInv, PhrasesKnown
<1>4. \A t \in Turn : tts_pending'[t] >= tts_pending[t]
  BY <1>2
<1>. QED  BY <1>1, <1>2, <1>3, <1>4, CoverKept

(* The turn a call makes current is new, or was current or parked already. *)
LEMMA KnownAfterCall ==
  ASSUME TurnsOK, CallEffect, PhrasesKnown, playback.paused_turn = pending_cancel_turn,
         NEW t \in Turn, OnItsWay(t), t = current_turn'
  PROVE  PB!Recognises(playback, t)
<1>1. /\ turn_counter \in Nat /\ t \in Nat \ {0}
      /\ t \in {NoTurn, current_turn, pending_cancel_turn, turn_counter + 1}
  BY TurnsMove DEF Turn
<1>2. t <= turn_counter /\ (t = current_turn => PB!Recognises(playback, t))
  BY DEF PhrasesKnown
<1>. QED  BY <1>1, <1>2 DEF PB!Recognises, PB!IsPaused, NoTurn

LEMMA CallCover ==
  ASSUME Types, Types', CoverInv, Called, playback.paused_turn = pending_cancel_turn,
         NEW rest \in Seq(Items), ActOnOutputsThen(rest),
         \A t \in Turn : Mentions(rest, t) => Mentions(agenda, t),
         SamePlaces(playback, playback'), UNCHANGED <<tts, tts_requests, tts_results>>,
         \A t \in Turn : PB!Recognises(playback, t) => tts_pending'[t] >= tts_pending[t]
  PROVE  CoverInv'
<1>1. \A t : PB!Recognises(playback', t) <=> PB!Recognises(playback, t)
  BY DEF SamePlaces, PB!Recognises, PB!IsLive, PB!IsPaused
<1>2. TurnsOK /\ CallEffect /\ out' \in Seq(Outputs)
  BY CallKinds DEF Types, MachineTypes
<1>3. turn_counter' >= turn_counter
  BY <1>2, TurnsMove
<1>4. \A t \in Turn : Mentions(agenda', t) => Mentions(agenda, t)
  BY <1>2, MentionsAfter DEF ActOnOutputsThen
<1>5. \A t \in Turn : OnItsWay(t) /\ t = current_turn' => PB!Recognises(playback', t)
  BY <1>1, <1>2, KnownAfterCall DEF CoverInv
<1>. QED  BY <1>1, <1>3, <1>4, <1>5, CoverKept

(* A turn that can be heard has no phrase pending when it is told that it has
   drained. *)
LEMMA DrainedCover ==
  ASSUME Types, Types', CoverInv, playback.paused_turn = pending_cancel_turn,
         NEW t \in Turn, NEW rest \in Seq(Items), SignalDrained(t, rest),
         PB!Recognises(playback, t) => tts_pending[t] = 0,
         \A u \in Turn : Mentions(rest, u) => Mentions(agenda, u),
         SamePlaces(playback, playback'), UNCHANGED <<tts, tts_requests, tts_results>>
  PROVE  CoverInv'
<1>1. Called /\ ActOnOutputsThen(rest)
  BY ResultCalled DEF SignalDrained
<1>2. tts_pending \in [Turn -> Nat] /\ tts_pending' = [tts_pending EXCEPT ![t] = 0]
  BY DEF SignalDrained, Types, LoopTypes
<1>3. \A u \in Turn : PB!Recognises(playback, u) => tts_pending'[u] >= tts_pending[u]
  BY <1>2
<1>. QED  BY <1>1, <1>3, CallCover

LEMMA SilencedTurns ==
  ASSUME NEW p \in PlaybackStates
  PROVE  /\ PB!CancelPlayback(p).live_turn = NoTurn
         /\ PB!CancelPlayback(p).paused_turn =
              IF p.live_turn = NoTurn THEN p.paused_turn ELSE p.live_turn
         /\ PB!Flush(p).live_turn = p.live_turn /\ PB!Flush(p).paused_turn = p.paused_turn
BY Silencing DEF PlaybackStates

(* What the outputs do to the turns that playback knows. *)
LEMMA Recognition ==
  ASSUME Types, AgreeInv, agenda # <<>>,
         ActPlayback(Head(agenda)) \/ ActCancelSynthesis(Head(agenda))
  PROVE  /\ \A t \in Turn : PB!Recognises(playback', t) => PB!Recognises(playback, t)
         /\ \A t \in Turn : PB!Recognises(playback, t) /\ t = current_turn =>
              PB!Recognises(playback', t)
<1>. DEFINE o == Head(agenda)
<1>. USE DEF PB!Recognises, PB!IsLive, PB!IsPaused
<1>0. /\ playback \in PlaybackStates /\ LoopTypes /\ 1 \in DOMAIN agenda /\ o = agenda[1]
      /\ NoTurn \notin Turn
  BY HeadItem DEF Types, LoopTypes, NoTurn, Turn
<1>1. CASE ActPlayback(o)
  <2>1. CASE o.kind \in {"ShowPartial", "FlushOutputBuffer"}
    <3>1. playback'.live_turn = playback.live_turn /\ playback'.paused_turn = playback.paused_turn
      BY <1>0, <1>1, <2>1, SilencedTurns DEF ActPlayback
    <3>. QED  BY <3>1
  <2>2. CASE o.kind = "CancelPlayback"
    <3>1. playback.live_turn = NoTurn \/ playback.paused_turn = NoTurn
      BY <1>0, <2>2
      DEF AgreeInv, Behind, Calm, Cuts, LightFrom, Kind, Weighty, Doomed, Parked, Barging
    <3>2. \/ UNCHANGED playback
          \/ playback'.live_turn = NoTurn /\ playback'.paused_turn = playback.live_turn
             /\ playback.paused_turn = NoTurn
      BY <1>0, <1>1, <2>2, <3>1, Silencing, SilencedTurns DEF ActPlayback
    <3>. QED  BY <1>0, <3>2
  <2>3. CASE o.kind = "ResumeSpeaking"
    <3>1. agenda[1].turn = current_turn /\ playback.paused_turn = current_turn
      BY <1>0, <2>3
      DEF AgreeInv, Behind, Calm, Cuts, LightFrom, Kind, Weighty, Resuming
    <3>2. playback'.live_turn = current_turn /\ playback'.paused_turn = NoTurn
      BY <1>0, <1>1, <2>3, <3>1
      DEF ActPlayback, PB!Resume, PB!Unparked, PB!NoTurn, NoTurn, PlaybackStates
    <3>. QED  BY <1>0, <3>1, <3>2
  <2>. QED  BY <1>1, <2>1, <2>2, <2>3 DEF ActPlayback
<1>2. CASE ActCancelSynthesis(o)
  <2>1. o.turn # current_turn
    BY <1>2, CancelBehind DEF AgreeInv
  <2>2. /\ playback'.live_turn = IF playback.live_turn = o.turn THEN NoTurn ELSE playback.live_turn
        /\ playback'.paused_turn =
             IF playback.paused_turn = o.turn THEN NoTurn ELSE playback.paused_turn
    BY <1>0, <1>2
    DEF ActCancelSynthesis, PB!CancelSynthesis, PB!Unparked, PB!Silenced, PB!NoTurn, NoTurn,
        PlaybackStates
  <2>. QED  BY <1>0, <2>1, <2>2
<1>. QED  BY <1>1, <1>2

(* The phrases of a chunk join those on their way, if there is a synthesizer. *)
LEMMA SynthesizeFlight ==
  ASSUME Types, NEW v \in Turn, NEW n \in Nat, SendTts([i \in 1..n |-> Phrase(v)])
  PROVE  \A t : InFlight(t)' \in {InFlight(t), IF t = v THEN InFlight(t) + n ELSE InFlight(t)}
<1>. DEFINE R == [kind : {"Synthesize", "Cancel"}, turn : Turn]
<1>1. tts_requests \in Seq(R) /\ Phrase(v) \in R
  BY DEF Types, MessageTypes, Phrase
<1>2. UNCHANGED <<tts, tts_results>>
  BY DEF SendTts
<1>. SUFFICES ASSUME NEW t
              PROVE  InFlight(t)' \in {InFlight(t), IF t = v THEN InFlight(t) + n ELSE InFlight(t)}
  OBVIOUS
<1>. HIDE DEF R
<1>3. /\ InFlight(t) = Count(tts_requests, Phrase(t)) + Count(tts_results, Phrase(t))
      /\ Count(tts_requests, Phrase(t)) \in Nat /\ Count(tts_results, Phrase(t)) \in Nat
  BY FlightType
<1>4. InFlight(t)' = Count(tts_requests', Phrase(t)) + Count(tts_results, Phrase(t))
  BY <1>2 DEF InFlight, Count
<1>5. CASE tts_requests' = tts_requests
  BY <1>2, <1>5, FlightKept
<1>6. CASE tts_requests' = tts_requests \o [i \in 1..n |-> Phrase(v)]
  <2>1. Count(tts_requests', Phrase(t)) =
          IF t = v THEN Count(tts_requests, Phrase(t)) + n ELSE Count(tts_requests, Phrase(t))
    BY <1>1, <1>6, PhrasesDiffer, CountCopies
  <2>. QED  BY <1>3, <1>4, <2>1
<1>. QED  BY <1>5, <1>6 DEF SendTts

(* The phrases of a chunk are counted as they are sent. *)
LEMMA SynthesizeCover ==
  ASSUME Types, Types', CoverInv, agenda # <<>>, SynthesizeChunk(Head(agenda))
  PROVE  CoverInv'
<1>. DEFINE o == Head(agenda)
            v == o.turn
<1>0. /\ agenda \in Seq(Items) /\ o \in Items /\ o = agenda[1] /\ 1 \in DOMAIN agenda
      /\ o.kind = "Synthesize" /\ agenda' = Tail(agenda) /\ NoCall /\ UNCHANGED playback
  BY HeadItem DEF Types, LoopTypes, SynthesizeChunk, Rest
<1>1. v \in Turn /\ Mentions(agenda, v)
  BY <1>0, ItemFields DEF Mentions
<1>2. \A t \in Turn : Mentions(agenda', t) => Mentions(agenda, t)
  BY <1>0, MentionsRest
<1>3. UNCHANGED turnVars /\ SamePlaces(playback, playback')
  BY <1>0 DEF NoCall, machine, SamePlaces
<1>4. CASE tts = "lost"
  BY <1>2, <1>3, <1>4, QuietCover DEF SynthesizeChunk, ttsVars
<1>5. CASE tts # "lost"
  <2>1. PICK n \in 0..MaxPhrases : SendTts([i \in 1..n |-> Phrase(v)]) /\ CountPhrases(v, n)
    BY <1>5 DEF SynthesizeChunk
  <2>2. n \in Nat /\ UNCHANGED <<tts, tts_results>>
    BY <2>1, PipelineAssumption DEF SendTts
  <2>3. /\ tts_pending \in [Turn -> Nat]
        /\ tts_pending' = [tts_pending EXCEPT ![v] = @ + n]
    BY <2>1 DEF CountPhrases, Types, LoopTypes
  <2>5. \A t \in Turn : InFlight(t)' \in {InFlight(t), IF t = v THEN InFlight(t) + n ELSE InFlight(t)}
    BY <1>1, <2>1, <2>2, SynthesizeFlight
  <2>6. \A t \in Turn : InFlight(t) \in Nat /\ tts_pending[t] \in Nat
    BY <2>3, FlightType
  <2>7. \A t \in Turn : OnItsWay(t)' => OnItsWay(t)
    BY <1>1, <1>2, <2>2, <2>5, <2>6 DEF OnItsWay
  <2>8. PhrasesKnown'
    <3>1. \A t : PB!Recognises(playback', t) <=> PB!Recognises(playback, t)
      BY <1>0
    <3>. QED  BY <1>3, <2>7, <3>1 DEF CoverInv, PhrasesKnown, turnVars
  <2>9. PendingCoversPhrases'
    <3>. SUFFICES ASSUME NEW t \in Turn, PB!Recognises(playback', t)
                 PROVE  InFlight(t)' <= tts_pending'[t]
      BY DEF PendingCoversPhrases
    <3>1. InFlight(t) <= tts_pending[t]
      BY <1>0 DEF CoverInv, PendingCoversPhrases
    <3>2. tts_pending'[t] = IF t = v THEN tts_pending[t] + n ELSE tts_pending[t]
      BY <2>3
    <3>. QED  BY <2>2, <2>5, <2>6, <3>1, <3>2
  <2>10. WorkerOK'
    BY <2>1, <2>2 DEF CoverInv, WorkerOK, SendTts
  <2>. QED  BY <2>8, <2>9, <2>10 DEF CoverInv
<1>. QED  BY <1>4, <1>5

(* A cancel is no phrase. *)
LEMMA CancelFlight ==
  ASSUME Types, AgreeInv, agenda # <<>>, ActCancelSynthesis(Head(agenda))
  PROVE  \A t : InFlight(t)' = InFlight(t)
<1>. DEFINE o == Head(agenda)
            R == [kind : {"Synthesize", "Cancel"}, turn : Turn]
<1>1. /\ UNCHANGED <<tts, tts_results>>
      /\ tts_requests' \in {tts_requests, tts_requests \o <<Cancel(o.turn)>>}
  BY DEF ActCancelSynthesis, SendTts
<1>2. Cancel(o.turn) \in R /\ \A t : Phrase(t) # Cancel(o.turn)
  <2>1. o.turn \in Turn
    BY CancelBehind DEF AgreeInv
  <2>2. \A t : Phrase(t).kind = "Synthesize" /\ Cancel(t).kind = "Cancel"
    BY DEF Phrase, Cancel
  <2>3. \A t : Phrase(t) # Cancel(o.turn)
    BY <2>2
  <2>. QED  BY <2>1, <2>3 DEF Cancel
<1>3. \A t : InFlight(t)' = InFlight(t)
  <2>. SUFFICES ASSUME NEW t PROVE InFlight(t)' = InFlight(t)
    OBVIOUS
  <2>1. tts_requests \in Seq(R)
    BY DEF Types, MessageTypes
  <2>. HIDE DEF R
  <2>. DEFINE y == Cancel(o.turn)
  <2>2. y \in R /\ y # Phrase(t)
    BY <1>2
  <2>3. tts_requests' \in {tts_requests, tts_requests \o <<y>>}
    BY <1>1
  <2>. HIDE DEF y
  <2>4. Append(tts_requests, y) = tts_requests \o <<y>>
    BY <2>1, <2>2
  <2>5. Count(Append(tts_requests, y), Phrase(t)) = Count(tts_requests, Phrase(t))
    BY <2>1, <2>2, CountAppend
  <2>6. Count(tts_requests', Phrase(t)) = Count(tts_requests, Phrase(t))
    BY <2>3, <2>4, <2>5, Zenon
  <2>. QED  BY <1>1, <2>6 DEF InFlight, Count
<1>. QED  BY <1>3

LEMMA CancelCover ==
  ASSUME Types, Types', AgreeInv, CoverInv, agenda # <<>>, ActCancelSynthesis(Head(agenda))
  PROVE  CoverInv'
<1>. DEFINE o == Head(agenda)
<1>1. /\ agenda \in Seq(Items) /\ agenda' = Tail(agenda) /\ UNCHANGED <<turnVars, tts_pending>>
      /\ UNCHANGED <<tts, tts_results>>
  BY DEF Types, LoopTypes, ActCancelSynthesis, Rest, NoCall, machine, SendTts
<1>3. \A t : InFlight(t)' = InFlight(t)
  BY CancelFlight
<1>4. \A t \in Turn : OnItsWay(t)' => OnItsWay(t)
  BY <1>1, <1>3, MentionsRest DEF OnItsWay
<1>5. PhrasesKnown'
  BY <1>1, <1>4, Recognition DEF CoverInv, PhrasesKnown, turnVars
<1>6. PendingCoversPhrases'
  BY <1>1, <1>3, Recognition DEF CoverInv, PendingCoversPhrases
<1>7. WorkerOK'
  BY <1>1 DEF CoverInv, WorkerOK, ActCancelSynthesis, SendTts
<1>. QED  BY <1>5, <1>6, <1>7 DEF CoverInv

LEMMA ActCover ==
  ASSUME Types, Types', AgreeInv, CoverInv, Act
  PROVE  CoverInv'
<1>. DEFINE o == Head(agenda)
<1>0. /\ agenda \in Seq(Items) /\ agenda # <<>> /\ o \in Items /\ Rest \in Seq(Items)
      /\ LoopTypes /\ o = agenda[1] /\ 1 \in DOMAIN agenda
      /\ \A t \in Turn : Mentions(Rest, t) => Mentions(agenda, t)
  BY HeadItem, MentionsRest DEF Types, LoopTypes, Act, Rest
<1>1. CASE ActCancelSynthesis(o)
  BY <1>0, <1>1, CancelCover
<1>2. CASE SynthesizeChunk(o)
  BY <1>0, <1>2, SynthesizeCover
<1>3. CASE ActPlayback(o)
  <2>1. /\ agenda' = Rest
        /\ UNCHANGED <<turnVars, tts, tts_requests, tts_results, tts_pending>>
    BY <1>3 DEF ActPlayback, NoCall, machine, ttsVars
  <2>2. /\ \A t \in Turn : PB!Recognises(playback', t) => PB!Recognises(playback, t)
        /\ \A t \in Turn : PB!Recognises(playback, t) /\ t = current_turn =>
             PB!Recognises(playback', t)
    BY <1>0, <1>3, Recognition
  <2>3. turn_counter' >= turn_counter /\ current_turn' = current_turn
        /\ \A t \in Turn : tts_pending'[t] >= tts_pending[t]
    BY <2>1, BoundsAssumption DEF Types, MachineTypes, LoopTypes, TurnsOK, turnVars
  <2>4. \A t \in Turn : OnItsWay(t) /\ t = current_turn' => PB!Recognises(playback', t)
    BY <2>2, <2>3 DEF CoverInv, PhrasesKnown
  <2>. QED  BY <1>0, <2>1, <2>2, <2>3, <2>4, CoverKept
<1>4. CASE ActCapture(o) \/ ActReplay(o) \/ ActState(o) \/ ResetRecognizer(o) \/ TranscribeFrame(o)
  <2>1. agenda' = Rest /\ NoCall
    BY <1>4 DEF ActCapture, ActReplay, ActState, ActStateResetting, ResetRecognizer, TranscribeFrame
  <2>2. UNCHANGED <<playback, tts, tts_requests, tts_results, tts_pending>>
    BY <1>4
    DEF ActCapture, ActReplay, ActState, ActStateResetting, ResetRecognizer, TranscribeFrame,
        playVars, ttsVars
  <2>. QED  BY <1>0, <2>1, <2>2, QuietCover DEF NoCall, machine, SamePlaces
<1>5. o.kind \notin Weighty => playback.paused_turn = pending_cancel_turn
  BY <1>0, LightHead DEF AgreeInv, Settled, Agree
<1>6. CASE ActSubmit(o) \/ CallMachine(o) \/ DetectSpeech(o)
  <2>1. ActOnOutputsThen(Rest) /\ UNCHANGED <<playback, tts, tts_requests, tts_results, tts_pending>>
    BY <1>6 DEF ActSubmit, CallMachine, DetectSpeech, playVars, ttsVars
  <2>2. Called
    BY <1>0, <1>6, ItemFields, ResultCalled
    DEF ActSubmit, CallMachine, DetectSpeech, Called, Next, Control, Detectors
  <2>3. playback.paused_turn = pending_cancel_turn
    <3>1. CASE ActSubmit(o)
      <4>1. Kind(agenda, 1, "SubmitUtterance")
        BY <1>0, <3>1 DEF ActSubmit, Kind
      <4>2. Agree
        BY <4>1 DEF AgreeInv, Behind, Calm, Cuts, LightFrom, Kind, Weighty
      <4>. QED  BY <4>2 DEF Agree
    <3>2. CASE CallMachine(o) \/ DetectSpeech(o)
      BY <1>5, <3>2 DEF CallMachine, DetectSpeech, Weighty
    <3>. QED  BY <1>6, <3>1, <3>2
  <2>4. SamePlaces(playback, playback') /\ \A t \in Turn : tts_pending'[t] >= tts_pending[t]
    BY <1>0, <2>1 DEF SamePlaces, LoopTypes
  <2>. QED  BY <1>0, <2>1, <2>2, <2>3, <2>4, CallCover
<1>7. CASE FinishTurnIfSilent(o)
  <2>1. /\ o.turn \in Turn /\ playback.paused_turn = pending_cancel_turn
        /\ UNCHANGED <<playback, tts, tts_requests, tts_results>>
    BY <1>0, <1>5, <1>7, ItemFields DEF FinishTurnIfSilent, Weighty, ttsVars
  <2>2. SamePlaces(playback, playback')
    BY <2>1 DEF SamePlaces
  <2>3. CASE NothingLeftToPlay(o.turn) /\ SignalDrained(o.turn, Rest)
    BY <1>0, <2>1, <2>2, <2>3, DrainedCover DEF NothingLeftToPlay
  <2>4. CASE agenda' = Rest /\ NoCall /\ UNCHANGED tts_pending
    BY <1>0, <2>1, <2>2, <2>4, QuietCover DEF NoCall, machine
  <2>. QED  BY <1>7, <2>3, <2>4 DEF FinishTurnIfSilent
<1>. QED  BY <1>1, <1>2, <1>3, <1>4, <1>6, <1>7 DEF Act

(* The text of a turn not heard yet: nothing of it is on its way. *)
LEMMA TextCover ==
  ASSUME Types, Types', AgreeInv, CoverInv, agenda = <<>>, NEW t \in asked, HandleTextChunk(t),
         UNCHANGED <<tts, tts_requests, tts_results, tts_pending>>
  PROVE  CoverInv'
<1>. USE DEF PB!Recognises, PB!IsLive, PB!IsPaused
<1>0. /\ TurnsOK /\ playback \in PlaybackStates /\ t \in Turn /\ t <= turn_counter
      /\ turn_counter \in Nat
  BY BoundsAssumption
  DEF Types, MachineTypes, MessageTypes, LoopTypes, TurnsOK, AgreeInv, AskedOK
<1>1. Settled
  BY LightHead DEF Types, AgreeInv
<1>2. CASE NoCall /\ UNCHANGED <<agenda, playback>>
  BY <1>2, QuietCover DEF NoCall, machine, SamePlaces
<1>3. CASE /\ PB!Recognises(playback, t) \/ current_turn = t
           /\ playback' = IF PB!Recognises(playback, t) THEN playback ELSE PB!Start(playback, t)
           /\ OnAgentTextArrived(t)
           /\ ActOnOutputsThen(<<Synthesize(t)>>)
  <2>1. CallEffect /\ out' \in Seq(Outputs) /\ <<Synthesize(t)>> \in Seq(Items)
    BY <1>0, <1>3, ResultCalled, CallKinds, Agendas DEF Types, MachineTypes
  <2>2. \A u \in Turn : Mentions(agenda', u) => u = t
    <3>1. \A u : Mentions(<<Synthesize(t)>>, u) => u = t
      BY DEF Mentions, Synthesize
    <3>. QED  BY <1>3, <2>1, <3>1, MentionsAfter DEF ActOnOutputsThen
  <2>3. \A u : InFlight(u)' = InFlight(u) /\ InFlight(u) \in Nat
    BY FlightKept, FlightType
  <2>4. \A u \in Turn : OnItsWay(u)' => OnItsWay(u) \/ u = t
    BY <2>2, <2>3 DEF OnItsWay
  <2>5. turn_counter' >= turn_counter /\ turn_counter' \in Nat
    BY <1>0, <2>1, TurnsMove
  <2>6. PB!Recognises(playback', t)
    BY <1>0, <1>3 DEF PB!Start, PlaybackStates
  <2>7. \A u \in Turn : OnItsWay(u) /\ u = current_turn' /\ u # t => PB!Recognises(playback', u)
    <3>1. CASE PB!Recognises(playback, t)
      <4>1. UNCHANGED playback
        BY <1>3, <3>1
      <4>2. playback.paused_turn = pending_cancel_turn
        BY <1>1 DEF Settled, Agree
      <4>. QED  BY <1>0, <2>1, <4>1, <4>2, KnownAfterCall DEF CoverInv
    <3>2. CASE ~ PB!Recognises(playback, t)
      <4>1. current_turn = t
        BY <1>3, <3>2
      <4>2. current_turn' = t
        BY <1>3, <4>1 DEF OnAgentTextArrived, turnVars, Ignored, machine
      <4>. QED  BY <4>2
    <3>. QED  BY <3>1, <3>2
  <2>8. PhrasesKnown'
    <3>. SUFFICES ASSUME NEW u \in Turn, OnItsWay(u)'
                 PROVE  u <= turn_counter' /\ (u = current_turn' => PB!Recognises(playback', u))
      BY DEF PhrasesKnown
    <3>1. u <= turn_counter /\ u \in Nat
      BY <1>0, <2>4 DEF CoverInv, PhrasesKnown, Turn
    <3>. QED  BY <1>0, <2>4, <2>5, <2>6, <2>7, <3>1
  <2>9. PendingCoversPhrases'
    <3>. SUFFICES ASSUME NEW u \in Turn, PB!Recognises(playback', u)
                 PROVE  InFlight(u)' <= tts_pending'[u]
      BY DEF PendingCoversPhrases
    <3>1. CASE PB!Recognises(playback, u)
      BY <2>3, <3>1 DEF CoverInv, PendingCoversPhrases
    <3>2. CASE ~ PB!Recognises(playback, u)
      <4>1. u = t /\ current_turn = t
        BY <1>0, <1>3, <3>2 DEF PB!Start, PlaybackStates
      <4>2. InFlight(u) = 0
        BY <2>3, <3>2, <4>1 DEF CoverInv, PhrasesKnown, OnItsWay
      <4>3. tts_pending[u] \in Nat
        BY DEF Types, LoopTypes
      <4>. QED  BY <2>3, <4>2, <4>3
    <3>. QED  BY <3>1, <3>2
  <2>. QED  BY <2>8, <2>9 DEF CoverInv, WorkerOK
<1>. QED  BY <1>2, <1>3 DEF HandleTextChunk

(* A phrase comes back: one less on its way, one less counted. *)
LEMMA ResultFlight ==
  ASSUME Types, Types', DrainTts
  PROVE  /\ Head(tts_results).turn \in Turn
         /\ \A t : InFlight(t) = IF t = Head(tts_results).turn THEN InFlight(t)' + 1
                                 ELSE InFlight(t)'
<1>. DEFINE v == Head(tts_results).turn
            P == [kind : {"Synthesize"}, turn : Turn]
<1>1. /\ tts_results \in Seq(P) /\ tts_results # <<>> /\ tts_results' = Tail(tts_results)
      /\ UNCHANGED tts_requests
  BY DEF DrainTts, Types, MessageTypes
<1>2. Head(tts_results) \in P
  <2>. HIDE DEF P
  <2>. QED  BY <1>1
<1>3. v \in Turn /\ Head(tts_results) = Phrase(v)
  BY <1>2 DEF Phrase
<1>. SUFFICES ASSUME NEW t PROVE InFlight(t) = IF t = v THEN InFlight(t)' + 1 ELSE InFlight(t)'
  BY <1>3
<1>. HIDE DEF P, v
<1>4. Count(tts_results, Phrase(t)) =
        IF t = v THEN Count(tts_results', Phrase(t)) + 1 ELSE Count(tts_results', Phrase(t))
  BY <1>1, <1>3, PhrasesDiffer, CountTail
<1>5. /\ InFlight(t) = Count(tts_requests, Phrase(t)) + Count(tts_results, Phrase(t))
      /\ Count(tts_requests, Phrase(t)) \in Nat /\ Count(tts_results, Phrase(t)) \in Nat
  BY FlightType
<1>6. InFlight(t)' = Count(tts_requests, Phrase(t)) + Count(tts_results', Phrase(t))
  BY <1>1 DEF InFlight, Count
<1>7. Count(tts_results', Phrase(t)) \in Nat
  BY CountType DEF Types, MessageTypes
<1>. QED  BY <1>4, <1>5, <1>6, <1>7

LEMMA ResultCover ==
  ASSUME Types, Types', CoverInv, DrainTts
  PROVE  CoverInv'
<1>. DEFINE v == Head(tts_results).turn
            P == [kind : {"Synthesize"}, turn : Turn]
<1>1. /\ tts_results \in Seq(P) /\ tts_results # <<>> /\ tts_results' = Tail(tts_results)
      /\ UNCHANGED <<turnVars, agenda, tts, tts_requests>>
  BY DEF DrainTts, Types, MessageTypes, NoCall, machine
<1>3. v \in Turn
  BY ResultFlight
<1>5. \A t : InFlight(t) = IF t = v THEN InFlight(t)' + 1 ELSE InFlight(t)'
  BY ResultFlight
<1>6. SamePlaces(playback, playback')
  BY DEF DrainTts, RouteChunk, PB!RouteSynthesized, SamePlaces, Types, LoopTypes, PlaybackStates
<1>7. \A t : PB!Recognises(playback', t) <=> PB!Recognises(playback, t)
  BY <1>6 DEF SamePlaces, PB!Recognises, PB!IsLive, PB!IsPaused
<1>8. \A t : InFlight(t) \in Nat /\ InFlight(t)' \in Nat
  BY FlightTypes
<1>9. /\ tts_pending \in [Turn -> Nat]
      /\ tts_pending' = [tts_pending EXCEPT ![v] = IF @ = 0 THEN 0 ELSE @ - 1]
  BY DEF DrainTts, CameBack, Types, LoopTypes
<1>10. PhrasesKnown'
  <2>1. \A t \in Turn : OnItsWay(t)' => OnItsWay(t)
    BY <1>1, <1>5, <1>8 DEF OnItsWay
  <2>. QED  BY <1>1, <1>7, <2>1 DEF CoverInv, PhrasesKnown, turnVars
<1>11. PendingCoversPhrases'
  <2>. SUFFICES ASSUME NEW t \in Turn, PB!Recognises(playback', t)
               PROVE  InFlight(t)' <= tts_pending'[t]
    BY DEF PendingCoversPhrases
  <2>1. InFlight(t) <= tts_pending[t] /\ tts_pending[t] \in Nat
    BY <1>7, <1>9 DEF CoverInv, PendingCoversPhrases
  <2>2. tts_pending'[t] = IF t = v
                          THEN (IF tts_pending[t] = 0 THEN 0 ELSE tts_pending[t] - 1)
                          ELSE tts_pending[t]
    BY <1>9
  <2>. HIDE DEF v
  <2>3. /\ InFlight(t) = IF t = v THEN InFlight(t)' + 1 ELSE InFlight(t)'
        /\ InFlight(t) \in Nat /\ InFlight(t)' \in Nat
    BY <1>5, <1>8
  <2>. QED  BY <2>1, <2>2, <2>3
<1>12. WorkerOK'
  <2>1. tts # "lost"
    BY <1>1 DEF CoverInv, WorkerOK
  <2>. QED  BY <1>1, <2>1 DEF CoverInv, WorkerOK
<1>. QED  BY <1>10, <1>11, <1>12 DEF CoverInv

(* Fewer phrases on their way, and nothing else. *)
LEMMA FewerCover ==
  ASSUME Types, Types', CoverInv, WorkerOK', UNCHANGED <<turnVars, agenda, playback>>,
         \A t \in Turn : InFlight(t)' <= InFlight(t) /\ InFlight(t)' \in Nat,
         \A t \in Turn : tts_pending'[t] >= tts_pending[t] \/ (InFlight(t)' = 0 /\ tts_pending'[t] = 0)
  PROVE  CoverInv'
<1>1. \A t \in Turn : InFlight(t) \in Nat /\ tts_pending[t] \in Nat
  BY FlightType DEF Types, LoopTypes
<1>2. \A t \in Turn : OnItsWay(t)' => OnItsWay(t)
  BY <1>1 DEF OnItsWay
<1>3. PhrasesKnown'
  BY <1>2 DEF CoverInv, PhrasesKnown, turnVars
<1>4. PendingCoversPhrases'
  <2>. SUFFICES ASSUME NEW t \in Turn, PB!Recognises(playback, t)
               PROVE  InFlight(t)' <= tts_pending'[t]
    BY DEF PendingCoversPhrases
  <2>1. InFlight(t) <= tts_pending[t]
    BY DEF CoverInv, PendingCoversPhrases
  <2>2. tts_pending'[t] \in Nat
    BY DEF Types, LoopTypes
  <2>. QED  BY <1>1, <2>1, <2>2
<1>. QED  BY <1>3, <1>4 DEF CoverInv

LEMMA LoopCover ==
  ASSUME Types, Types', AgreeInv, CoverInv, Orchestrate, ~ Act
  PROVE  CoverInv'
<1>0. /\ agenda = <<>> /\ playback \in PlaybackStates /\ <<>> \in Seq(Items)
      /\ \A t : ~ Mentions(<<>>, t)
  BY Agendas
  DEF Mentions, Types, LoopTypes, Orchestrate, DrainControl, Shutdown, TickMachine, PumpFrame,
      NoFrame, CheckDevice, DrainStt, SttDrained, DrainAgent, AgentDrained, DrainTts, TtsDrained,
      FeedPlayback, Idling
<1>1. Settled /\ playback.paused_turn = pending_cancel_turn
  <2>1. Settled
    BY <1>0, LightHead DEF Types, AgreeInv
  <2>. QED  BY <2>1 DEF Settled, Agree
<1>2. CASE DrainControl \/ Shutdown \/ TickMachine
  <2>1. Called /\ ActOnOutputsThen(<<>>)
        /\ UNCHANGED <<playback, tts, tts_requests, tts_results, tts_pending>>
    BY <1>2
    DEF DrainControl, Shutdown, TickMachine, Called, Next, Control, LoopOnly, playVars, ttsVars
  <2>2. SamePlaces(playback, playback') /\ \A t \in Turn : tts_pending'[t] >= tts_pending[t]
    BY <2>1 DEF SamePlaces, Types, LoopTypes
  <2>. QED  BY <1>0, <1>1, <2>1, <2>2, CallCover
<1>3. \A t : ~ Mentions(<<Detect, Transcribe>>, t)
  BY DEF Mentions, Detect, Transcribe, Plain
<1>4. ASSUME NEW count, NEW rest \in Seq(Items), \A t : ~ Mentions(rest, t),
             RebuildEngine(count, rest) \/ KeepEngine(count, rest)
      PROVE  \A t : ~ Mentions(agenda', t)
  <2>. DEFINE a == ResetStt
              b == Dispatch("SessionEnd", NoTurn)
              c == Dispatch("SessionStart", NoTurn)
              s == <<a, b, c>>
  <2>1. s \in Seq(Items) /\ a.kind # "Synthesize" /\ b.kind # "Synthesize" /\ c.kind # "Synthesize"
    BY Agendas DEF ResetStt, Dispatch, Plain
  <2>2. agenda' \in {s \o rest, rest}
    BY <1>4 DEF RebuildEngine, KeepEngine
  <2>3. \A t : ~ Mentions(s, t)
    <3>. HIDE DEF a, b, c
    <3>. QED  BY <2>1 DEF Mentions
  <2>. HIDE DEF s
  <2>4. \A t : ~ Mentions(s \o rest, t)
    BY <1>4, <2>1, <2>3, MentionsEither
  <2>. QED  BY <1>4, <2>2, <2>4
<1>5. CASE PumpFrame \/ NoFrame \/ SttDrained \/ AgentDrained \/ CheckDevice
  <2>1. UNCHANGED <<turnVars, playback, tts, tts_requests, tts_results, tts_pending>>
    BY <1>5
    DEF PumpFrame, NoFrame, SttDrained, AgentDrained, CheckDevice, PushFrame, NoCall, machine,
        LoopOnly, playVars, ttsVars
  <2>2. \A t : ~ Mentions(agenda', t)
    <3>1. CASE CheckDevice
      BY <1>0, <1>4, <3>1 DEF CheckDevice
    <3>2. CASE PumpFrame \/ NoFrame \/ SttDrained \/ AgentDrained
      BY <1>0, <1>3, <3>2 DEF PumpFrame, NoFrame, SttDrained, AgentDrained
    <3>. QED  BY <1>5, <3>1, <3>2
  <2>. QED  BY <2>1, <2>2, QuietCover DEF SamePlaces
<1>6. CASE DrainStt
  <2>. DEFINE r == Head(stt_results)
  <2>1. r.turn \in Turn /\ (r.kind = "Final" => r.text \in Text)
    <3>1. r \in SttResults
      BY <1>6 DEF DrainStt, Types, MessageTypes
    <3>. QED  BY <3>1 DEF SttResults
  <2>2. UNCHANGED <<playback, tts, tts_requests, tts_results, tts_pending>>
    BY <1>6 DEF DrainStt, ttsVars
  <2>3. SamePlaces(playback, playback') /\ \A t \in Turn : tts_pending'[t] >= tts_pending[t]
    BY <2>2 DEF SamePlaces, Types, LoopTypes
  <2>4. CASE HandlePartial(r)
    <3>1. Called /\ ActOnOutputsThen(<<>>)
      BY <2>1, <2>4, ResultCalled DEF HandlePartial
    <3>. QED  BY <1>0, <1>1, <2>2, <2>3, <3>1, CallCover
  <2>5. CASE HandleFinal(r)
    <3>0. PICK submit \in Seq(Items) : \E count :
            (\A t : ~ Mentions(submit, t)) /\ (RebuildEngine(count, submit) \/ KeepEngine(count, submit))
      <4>1. /\ <<Dispatch("Rejected", r.turn)>> \in Seq(Items)
            /\ <<DispatchFinal(r.turn, r.text)>> \in Seq(Items)
            /\ \A t : ~ Mentions(<<Dispatch("Rejected", r.turn)>>, t)
            /\ \A t : ~ Mentions(<<DispatchFinal(r.turn, r.text)>>, t)
        BY <2>1, <2>5, Agendas DEF HandleFinal, Mentions, Dispatch, DispatchFinal
      <4>. QED  BY <2>5, <4>1 DEF HandleFinal
    <3>1. PICK count :
            (\A t : ~ Mentions(submit, t)) /\ (RebuildEngine(count, submit) \/ KeepEngine(count, submit))
      BY <3>0
    <3>2. \A t : ~ Mentions(agenda', t)
      BY <1>4, <3>1
    <3>3. UNCHANGED turnVars
      BY <2>5 DEF HandleFinal, NoCall, machine
    <3>. QED  BY <2>2, <2>3, <3>2, <3>3, QuietCover
  <2>. QED  BY <1>6, <2>4, <2>5 DEF DrainStt
<1>7. CASE DrainAgent
  <2>. DEFINE e == Head(agent_events)
              E == [kind : {"TextChunk", "TurnComplete"}, turn : Turn]
  <2>1. agent_events \in Seq(E) /\ agent_events # <<>>
    BY <1>7 DEF DrainAgent, Types, MessageTypes
  <2>2. e.turn \in asked
    <3>. HIDE DEF E
    <3>1. 1 \in DOMAIN agent_events /\ e = agent_events[1]
      BY <2>1
    <3>. QED  BY <3>1 DEF AgreeInv, AskedOK
  <2>3. UNCHANGED <<tts, tts_requests, tts_results, tts_pending>>
    BY <1>7 DEF DrainAgent, ttsVars
  <2>4. CASE HandleTextChunk(e.turn)
    BY <1>0, <2>2, <2>3, <2>4, TextCover
  <2>5. CASE /\ OnAgentTurnComplete(e.turn) /\ ActOnOutputsThen(<<FinishIfSilent(e.turn)>>)
             /\ UNCHANGED playback
    <3>1. Called /\ <<FinishIfSilent(e.turn)>> \in Seq(Items)
      <4>1. e.turn \in Turn
        BY <2>2 DEF Types, MessageTypes
      <4>. QED  BY <2>5, <4>1, ResultCalled, Agendas
    <3>2. \A t : ~ Mentions(<<FinishIfSilent(e.turn)>>, t)
      BY DEF Mentions, FinishIfSilent
    <3>3. SamePlaces(playback, playback') /\ \A t \in Turn : tts_pending'[t] >= tts_pending[t]
      BY <2>3, <2>5 DEF SamePlaces, Types, LoopTypes
    <3>. QED  BY <1>1, <2>3, <2>5, <3>1, <3>2, <3>3, CallCover
  <2>. QED  BY <1>7, <2>4, <2>5 DEF DrainAgent
<1>8. CASE DrainTts
  BY <1>8, ResultCover
<1>9. CASE TtsDrained
  <2>1. UNCHANGED <<turnVars, agenda, playback, tts_requests, tts_results>> /\ tts_results = <<>>
    BY <1>9 DEF TtsDrained, NoCall, machine
  <2>2. \A t : InFlight(t)' = InFlight(t) /\ InFlight(t) \in Nat
    BY <2>1, FlightKept, FlightType
  <2>3. CASE tts = "dead" /\ tts' = "lost" /\ tts_pending' = [t \in Turn |-> 0]
    <3>1. tts_requests = <<>>
      BY <2>3 DEF CoverInv, WorkerOK
    <3>2. \A t : InFlight(t) = 0
      BY <2>1, <3>1, CountEmpty, FlightType
    <3>3. WorkerOK'
      BY <2>1, <3>1 DEF WorkerOK
    <3>. QED  BY <2>1, <2>2, <2>3, <3>2, <3>3, FewerCover
  <2>4. CASE UNCHANGED <<tts, tts_pending>>
    BY <2>1, <2>4, QuietCover DEF SamePlaces
  <2>. QED  BY <1>9, <2>3, <2>4 DEF TtsDrained
<1>10. CASE FeedPlayback
  <2>. DEFINE t == playback.live_turn
  <2>1. SamePlaces(playback, playback') /\ t \in Turn \cup {NoTurn}
    BY <1>0, <1>10 DEF FeedPlayback, Feed, FeedEndingIf, PB!TakeLive, SamePlaces, PlaybackStates
  <2>2. UNCHANGED <<tts, tts_requests, tts_results>>
    BY <1>10 DEF FeedPlayback, ttsVars
  <2>3. CASE t # NoTurn /\ tts_pending[t] = 0 /\ SignalDrained(t, <<>>)
    BY <1>0, <1>1, <2>1, <2>2, <2>3, DrainedCover
  <2>4. CASE NoCall /\ UNCHANGED <<agenda, tts_pending>>
    BY <2>1, <2>2, <2>4, QuietCover DEF NoCall, machine
  <2>. QED  BY <1>10, <2>3, <2>4 DEF FeedPlayback, Feed, FeedEndingIf
<1>. QED
  BY <1>2, <1>5, <1>6, <1>7, <1>8, <1>9, <1>10 DEF Orchestrate

(* The synthesizer takes a phrase, and answers it or not; or it dies. *)
(* The synthesizer's thread only makes what is on its way less. *)
LEMMA WorkerFlight ==
  ASSUME Types, Types', TtsWork \/ TtsDies
  PROVE  \A t : InFlight(t)' <= InFlight(t) /\ InFlight(t)' \in Nat
<1>. DEFINE R == [kind : {"Synthesize", "Cancel"}, turn : Turn]
            P == [kind : {"Synthesize"}, turn : Turn]
            r == Head(tts_requests)
<1>1. tts_requests \in Seq(R) /\ tts_results \in Seq(P)
  BY DEF Types, MessageTypes
<1>3. \A t : /\ InFlight(t) = Count(tts_requests, Phrase(t)) + Count(tts_results, Phrase(t))
             /\ InFlight(t)' = Count(tts_requests', Phrase(t)) + Count(tts_results', Phrase(t))
             /\ Count(tts_requests, Phrase(t)) \in Nat /\ Count(tts_results, Phrase(t)) \in Nat
  BY FlightType DEF InFlight, Count
<1>4. CASE TtsDies
  <2>1. tts_requests' = <<>> /\ tts_results' = tts_results
    BY <1>4 DEF TtsDies
  <2>. QED  BY <1>3, <2>1, CountEmpty
<1>5. CASE TtsWork
  <2>1. tts_requests # <<>> /\ tts_requests' = Tail(tts_requests)
    BY <1>5 DEF TtsWork
  <2>2. \A t : Count(tts_requests, Phrase(t)) =
              IF r = Phrase(t) THEN Count(tts_requests', Phrase(t)) + 1
                               ELSE Count(tts_requests', Phrase(t))
    <3>. HIDE DEF R
    <3>. QED  BY <1>1, <2>1, CountTail
  <2>3. \A t : Count(tts_requests', Phrase(t)) \in Nat
    BY CountType DEF Types, MessageTypes
  <2>4. tts_results' = tts_results \/ (r \in P /\ tts_results' = Append(tts_results, r))
    <3>1. r \in R
      <4>. HIDE DEF R
      <4>. QED  BY <1>1, <2>1
    <3>2. r.kind = "Synthesize" => r \in P
      BY <3>1
    <3>. QED  BY <1>5, <3>2 DEF TtsWork
  <2>. HIDE DEF r, P, R
  <2>5. \A t : Count(tts_results', Phrase(t)) \in
                 {Count(tts_results, Phrase(t)),
                  IF r = Phrase(t) THEN Count(tts_results, Phrase(t)) + 1
                                   ELSE Count(tts_results, Phrase(t))}
    <3>. SUFFICES ASSUME NEW t, tts_results' # tts_results
                 PROVE  Count(tts_results', Phrase(t)) =
                          IF r = Phrase(t) THEN Count(tts_results, Phrase(t)) + 1
                                           ELSE Count(tts_results, Phrase(t))
      BY Zenon
    <3>1. r \in P /\ tts_results' = Append(tts_results, r) /\ tts_results \in Seq(P)
      BY <1>1, <2>4
    <3>2. Count(Append(tts_results, r), Phrase(t)) =
            IF r = Phrase(t) THEN Count(tts_results, Phrase(t)) + 1
                             ELSE Count(tts_results, Phrase(t))
      BY <3>1, CountAppend
    <3>. QED  BY <3>1, <3>2, Zenon
  <2>. QED  BY <1>3, <2>2, <2>3, <2>5
<1>. QED  BY <1>4, <1>5

LEMMA WorkerCover ==
  ASSUME Types, Types', CoverInv, TtsWork \/ TtsDies
  PROVE  CoverInv'
<1>1. /\ tts_pending \in [Turn -> Nat]
      /\ UNCHANGED <<turnVars, agenda, playback, tts_pending>> /\ tts = "running"
  BY DEF TtsWork, TtsDies, OrchestratorIdle, vars, machine, loopVars, Types, LoopTypes,
         MessageTypes
<1>a. UNCHANGED <<turnVars, agenda, playback>>
  BY <1>1
<1>2. \A t \in Turn : tts_pending'[t] >= tts_pending[t] \/ (InFlight(t)' = 0 /\ tts_pending'[t] = 0)
  <2>1. tts_pending' = tts_pending /\ \A t \in Turn : tts_pending[t] \in Nat
    BY <1>1
  <2>2. \A t \in Turn : tts_pending'[t] >= tts_pending[t]
    BY <2>1
  <2>. QED  BY <2>2, Zenon
<1>3. \A t \in Turn : InFlight(t)' <= InFlight(t) /\ InFlight(t)' \in Nat
  BY WorkerFlight
<1>4. WorkerOK'
  BY <1>1 DEF TtsWork, TtsDies, WorkerOK
<1>. QED  BY <1>a, <1>2, <1>3, <1>4, FewerCover

LEMMA CoverStep ==
  ASSUME Types, Types', AgreeInv, CoverInv, [PNext]_pvars
  PROVE  CoverInv'
<1>1. CASE SttWork \/ SttDies \/ AgentWork \/ PlayOut \/ UNCHANGED pvars
  <2>1. UNCHANGED <<turnVars, agenda, playback, tts, tts_requests, tts_results, tts_pending>>
    BY <1>1
    DEF SttWork, SttDies, AgentWork, PlayOut, OrchestratorIdle, pvars, vars, machine, loopVars,
        playVars, ttsVars
  <2>. QED  BY <2>1, QuietCover DEF SamePlaces
<1>. QED
  BY <1>1, ActCover, LoopCover, WorkerCover DEF PNext, Orchestrate, Stopped

LEMMA CoverInit == ASSUME PInit PROVE CoverInv
<1>1. /\ tts_requests = <<>> /\ tts_results = <<>> /\ agenda = <<>>
      /\ tts_pending = [t \in Turn |-> 0]
  BY DEF PInit
<1>2. \A t : InFlight(t) = 0
  BY <1>1, CountEmpty, TypesInit, FlightType
<1>3. \A t : ~ Mentions(agenda, t)
  BY <1>1 DEF Mentions
<1>4. PhrasesKnown
  BY <1>2, <1>3 DEF PhrasesKnown, OnItsWay
<1>5. PendingCoversPhrases
  BY <1>1, <1>2 DEF PendingCoversPhrases
<1>. QED  BY <1>1, <1>4, <1>5 DEF CoverInv, WorkerOK

LEMMA CoverAlways == PSpec => [](Types /\ AgreeInv /\ CoverInv)
BY TypesInit, AgreeInit, CoverInit, AgreeStep, CoverStep, PTL DEF PSpec

(* However many turns there are, and whatever dies or fails: for a turn that
   can be heard, tts_pending is never less than the phrases of it that are
   with the synthesizer or on their way back, so its end is held open as long
   as audio of it can still come (tts_pending of pipeline.rs). *)
THEOREM PendingCovers == PSpec => []PendingCoversPhrases
BY CoverAlways, PTL DEF CoverInv

----------------------------------------------------------------------------
(* Whoever waits for a transcript has asked for it. *)

Elems(s) == {s[i] : i \in DOMAIN s}

(* The request is yet to be sent, or the answer yet to be handed to the machine. *)
Answering(o, t) ==
  \/ o.kind = "EmitState" /\ o.state = "Finalizing"
  \/ o.kind \in {"Dispatch", "DispatchFinal"} /\ o.turn = t
AnswerComing ==
  \/ Finish(current_turn) \in Elems(stt_requests)
  \/ \E r \in Elems(stt_results) : r.kind = "Final" /\ r.turn = current_turn
  \/ \E o \in Elems(agenda) : Answering(o, current_turn)
FinalComing == state = "Finalizing" /\ stt = "running" => AnswerComing

LEMMA ElemsOf ==
  ASSUME NEW S, NEW s \in Seq(S)
  PROVE  /\ \A x \in S : Elems(Append(s, x)) = Elems(s) \cup {x}
         /\ s # <<>> => Elems(s) = {Head(s)} \cup Elems(Tail(s))
         /\ \A r \in Seq(S) : Elems(s \o r) = Elems(s) \cup Elems(r)
<1>1. ASSUME NEW x \in S PROVE Elems(Append(s, x)) = Elems(s) \cup {x}
  <2>1. /\ DOMAIN s = 1..Len(s) /\ Len(s) \in Nat /\ DOMAIN Append(s, x) = 1..(Len(s) + 1)
        /\ Append(s, x)[Len(s) + 1] = x /\ \A i \in 1..Len(s) : Append(s, x)[i] = s[i]
    OBVIOUS
  <2>. QED  BY <2>1 DEF Elems
<1>2. ASSUME s # <<>> PROVE Elems(s) = {Head(s)} \cup Elems(Tail(s))
  <2>1. /\ DOMAIN s = 1..Len(s) /\ Len(s) \in Nat \ {0} /\ DOMAIN Tail(s) = 1..(Len(s) - 1)
        /\ Head(s) = s[1] /\ \A i \in 1..(Len(s) - 1) : Tail(s)[i] = s[i + 1]
    BY <1>2
  <2>2. \A i \in 1..Len(s) : i = 1 \/ (i - 1 \in 1..(Len(s) - 1) /\ s[i] = Tail(s)[i - 1])
    BY <2>1
  <2>3. \A i \in 1..(Len(s) - 1) : i + 1 \in 1..Len(s)
    BY <2>1
  <2>4. 1 \in 1..Len(s)
    BY <2>1
  <2>5. Elems(s) \subseteq {Head(s)} \cup Elems(Tail(s))
    <3>. SUFFICES ASSUME NEW i \in DOMAIN s PROVE s[i] = Head(s) \/ s[i] \in Elems(Tail(s))
      BY DEF Elems
    <3>1. CASE i = 1
      BY <2>1, <3>1
    <3>2. CASE i - 1 \in DOMAIN Tail(s) /\ s[i] = Tail(s)[i - 1]
      BY <3>2 DEF Elems
    <3>. QED  BY <2>1, <2>2, <3>1, <3>2
  <2>6. Elems(Tail(s)) \subseteq Elems(s)
    <3>1. \A i \in 1..(Len(s) - 1) : i + 1 \in DOMAIN s /\ Tail(s)[i] = s[i + 1]
      BY <2>1, <2>3
    <3>. QED  BY <2>1, <3>1 DEF Elems
  <2>7. Head(s) \in Elems(s)
    BY <2>1, <2>4 DEF Elems
  <2>. QED  BY <2>5, <2>6, <2>7
<1>3. ASSUME NEW r \in Seq(S) PROVE Elems(s \o r) = Elems(s) \cup Elems(r)
  <2>1. /\ DOMAIN (s \o r) = 1..(Len(s) + Len(r)) /\ DOMAIN r = 1..Len(r) /\ DOMAIN s = 1..Len(s)
        /\ Len(s) \in Nat /\ Len(r) \in Nat
        /\ \A j \in 1..(Len(s) + Len(r)) :
             (s \o r)[j] = IF j <= Len(s) THEN s[j] ELSE r[j - Len(s)]
    BY Concatenated
  <2>2. \A j \in 1..(Len(s) + Len(r)) : j \in 1..Len(s) \/ j - Len(s) \in 1..Len(r)
    BY <2>1
  <2>3. /\ \A j \in 1..Len(s) : j \in 1..(Len(s) + Len(r)) /\ j <= Len(s)
        /\ \A j \in 1..Len(r) : /\ j + Len(s) \in 1..(Len(s) + Len(r))
                                /\ ~ (j + Len(s) <= Len(s)) /\ (j + Len(s)) - Len(s) = j
    BY <2>1
  <2>4. /\ \A j \in 1..Len(s) : (s \o r)[j] = s[j]
        /\ \A j \in 1..Len(r) : (s \o r)[j + Len(s)] = r[j]
    BY <2>1, <2>3
  <2>5. Elems(s \o r) \subseteq Elems(s) \cup Elems(r)
    BY <2>1, <2>2 DEF Elems
  <2>6. Elems(s) \cup Elems(r) \subseteq Elems(s \o r)
    BY <2>1, <2>3, <2>4 DEF Elems
  <2>. QED  BY <2>5, <2>6
<1>. QED  BY <1>1, <1>2, <1>3

LEMMA NoElems == Elems(<<>>) = {}
BY DEF Elems

LEMMA EvidenceKept ==
  ASSUME Elems(stt_requests) \subseteq Elems(stt_requests'),
         Elems(stt_results) \subseteq Elems(stt_results'),
         \A o \in Elems(agenda) : o \in Elems(agenda') \/ ~ Answering(o, current_turn),
         UNCHANGED current_turn, AnswerComing
  PROVE  AnswerComing'
BY DEF AnswerComing

LEMMA FinalKept ==
  ASSUME Types, FinalComing, Called, stt' = "running" => stt = "running",
         Elems(out') \subseteq Elems(agenda'),
         \/ state' # "Finalizing"
         \/ stt' = "running" /\ state = "Finalizing" /\ UNCHANGED current_turn /\ AnswerComing
              => AnswerComing'
  PROVE  FinalComing'
<1>. SUFFICES ASSUME state' = "Finalizing", stt' = "running" PROVE AnswerComing'
  BY DEF FinalComing
<1>1. CallEffect
  BY CallKinds DEF Types, MachineTypes
<1>2. StaysPut \/ out' = <<EmitState("Finalizing")>>
  BY <1>1
  DEF CallEffect, Soft, Answers, Starts, Ends, Submits, Confirms, Seizes, BargesIn, Retracts, Moves
<1>3. CASE StaysPut
  BY <1>3 DEF StaysPut, turnVars, FinalComing
<1>4. CASE out' = <<EmitState("Finalizing")>>
  <2>1. EmitState("Finalizing") \in Elems(out')
    BY <1>4 DEF Elems
  <2>. QED  BY <2>1 DEF AnswerComing, Answering, EmitState
<1>. QED  BY <1>2, <1>3, <1>4

LEMMA SttElems ==
  ASSUME stt_requests \in Seq(SttRequests), NEW request \in SttRequests,
         SendStt(request) \/ TrySendStt(request) \/ SttIdle
  PROVE  /\ Elems(stt_requests) \subseteq Elems(stt_requests')
         /\ SendStt(request) /\ stt = "running" => request \in Elems(stt_requests')
<1>1. Elems(Append(stt_requests, request)) = Elems(stt_requests) \cup {request}
  BY ElemsOf
<1>. QED  BY <1>1 DEF SendStt, TrySendStt, SttIdle, sttVars

(* What the orchestrator acts on. *)
LEMMA ActFinal ==
  ASSUME Types, Types', FinalComing, Act
  PROVE  FinalComing'
<1>. DEFINE o == Head(agenda)
<1>0. /\ agenda \in Seq(Items) /\ agenda # <<>> /\ o \in Items /\ Rest \in Seq(Items)
      /\ TurnsOK /\ MachineTypes' /\ stt_requests \in Seq(SttRequests)
  BY HeadItem DEF Types, MachineTypes, LoopTypes, MessageTypes, Act, Rest
<1>1. Elems(agenda) = {o} \cup Elems(Rest)
  BY <1>0, ElemsOf DEF Rest
<1>2. state = "Finalizing" => current_turn \in Turn
  BY <1>0, BoundsAssumption DEF TurnsOK, TurnStructure, NoTurn, Turn
<1>3. ASSUME NoCall, agenda' = Rest, UNCHANGED stt, UNCHANGED stt_results,
             Elems(stt_requests) \subseteq Elems(stt_requests'),
             \/ ~ Answering(o, current_turn)
             \/ Finish(current_turn) \in Elems(stt_requests') \/ state # "Finalizing"
                \/ stt # "running"
      PROVE  FinalComing'
  <2>1. Called /\ Elems(out') \subseteq Elems(agenda') /\ UNCHANGED <<state, current_turn>>
    BY <1>3, NoElems DEF Called, NoCall, machine, turnVars
  <2>2. CASE ~ Answering(o, current_turn)
    <3>1. AnswerComing => AnswerComing'
      BY <1>1, <1>3, <2>1, <2>2, EvidenceKept
    <3>. QED  BY <1>3, <2>1, <3>1, FinalKept
  <2>3. CASE Finish(current_turn) \in Elems(stt_requests')
    BY <2>1, <2>3 DEF FinalComing, AnswerComing
  <2>4. CASE state # "Finalizing" \/ stt # "running"
    BY <1>3, <2>1, <2>4 DEF FinalComing
  <2>. QED  BY <1>3, <2>2, <2>3, <2>4
<1>4. ASSUME Called, ActOnOutputsThen(Rest), UNCHANGED <<stt, stt_requests, stt_results>>,
             \/ ~ Answering(o, current_turn)
             \/ state' # "Finalizing" \/ state # "Finalizing"
      PROVE  FinalComing'
  <2>1. Elems(agenda') = Elems(out') \cup Elems(Rest)
    <3>1. out' \in Seq(Items)
      BY <1>0, <1>4, CallAgenda
    <3>. QED  BY <1>0, <1>4, <3>1, ElemsOf DEF ActOnOutputsThen
  <2>2. ASSUME UNCHANGED current_turn, AnswerComing, ~ Answering(o, current_turn)
        PROVE  AnswerComing'
    BY <1>1, <1>4, <2>1, <2>2, EvidenceKept
  <2>. QED  BY <1>4, <2>1, <2>2, FinalKept
<1>5. CASE ActCapture(o) \/ ActPlayback(o) \/ ActCancelSynthesis(o) \/ SynthesizeChunk(o)
  <2>1. /\ NoCall /\ agenda' = Rest /\ UNCHANGED sttVars
        /\ o.kind \notin {"EmitState", "Dispatch", "DispatchFinal"}
    BY <1>5 DEF ActCapture, ActPlayback, ActCancelSynthesis, SynthesizeChunk
  <2>. QED  BY <1>3, <2>1 DEF sttVars, Answering
<1>6. CASE ActReplay(o) \/ ResetRecognizer(o) \/ TranscribeFrame(o)
  <2>1. /\ NoCall /\ agenda' = Rest
        /\ o.kind \in {"ReplayPreRoll", "ResetStt", "Transcribe"}
    BY <1>6 DEF ActReplay, ResetRecognizer, TranscribeFrame
  <2>2. \E q \in SttRequests : SendStt(q) \/ TrySendStt(q) \/ SttIdle
    <3>1. CASE ActReplay(o)
      <4>1. Audio(o.turn, o.turn) \in SttRequests
        BY <1>0, <3>1, ItemFields, Requests DEF ActReplay
      <4>. QED  BY <3>1, <4>1 DEF ActReplay
    <3>2. CASE ResetRecognizer(o)
      BY <3>2, Requests DEF ResetRecognizer
    <3>3. CASE TranscribeFrame(o)
      <4>1. CASE SttIdle
        BY <4>1, Requests
      <4>2. CASE ~ SttIdle
        <5>1. /\ stt_active_turn # NoTurn /\ state \in {"UserSpeaking", "Interrupting"}
              /\ TrySendStt(Audio(stt_active_turn, current_turn))
          BY <3>3, <4>2 DEF TranscribeFrame
        <5>2. stt_active_turn \in Turn /\ current_turn \in Turn
          BY <1>0, <5>1, BoundsAssumption
          DEF Types, LoopTypes, TurnsOK, TurnStructure, NoTurn, Turn
        <5>. QED  BY <5>1, <5>2, Requests
      <4>. QED  BY <4>1, <4>2
    <3>. QED  BY <1>6, <3>1, <3>2, <3>3
  <2>3. Elems(stt_requests) \subseteq Elems(stt_requests') /\ UNCHANGED <<stt, stt_results>>
    BY <1>0, <2>2, SttElems, SttSends
  <2>. QED  BY <1>3, <2>1, <2>3 DEF Answering
<1>7. CASE ActState(o)
  <2>1. NoCall /\ agenda' = Rest /\ o.kind = "EmitState"
    BY <1>7 DEF ActState, ActStateResetting
  <2>2. CASE o.state = "Finalizing" /\ current_turn # NoTurn
    <3>1. SendStt(Finish(current_turn))
      BY <1>7, <2>2 DEF ActState, ActStateResetting
    <3>2. Finish(current_turn) \in SttRequests
      BY <1>0, <2>2, BoundsAssumption, Requests DEF TurnsOK, TurnStructure, NoTurn, Turn
    <3>3. /\ Elems(stt_requests) \subseteq Elems(stt_requests') /\ UNCHANGED <<stt, stt_results>>
          /\ stt = "running" => Finish(current_turn) \in Elems(stt_requests')
      BY <1>0, <3>1, <3>2, SttElems, SttSends
    <3>. QED  BY <1>3, <2>1, <3>3
  <2>3. CASE ~ (o.state = "Finalizing" /\ current_turn # NoTurn)
    <3>1. SendStt(Plain("Reset")) \/ SttIdle
      BY <1>7, <2>3 DEF ActState, ActStateResetting
    <3>2. Elems(stt_requests) \subseteq Elems(stt_requests') /\ UNCHANGED <<stt, stt_results>>
      BY <1>0, <3>1, Requests, SttElems, SttSends
    <3>3. ~ Answering(o, current_turn) \/ state # "Finalizing"
      BY <1>2, <2>1, <2>3 DEF Answering, NoTurn, Turn
    <3>. QED  BY <1>3, <2>1, <3>2, <3>3
  <2>. QED  BY <2>2, <2>3
<1>8. CASE ActSubmit(o) \/ DetectSpeech(o) \/ CallMachine(o)
  <2>1. ActOnOutputsThen(Rest) /\ UNCHANGED <<stt, stt_requests, stt_results>>
    BY <1>8 DEF ActSubmit, DetectSpeech, CallMachine, sttVars
  <2>2. Called
    <3>1. CASE ActSubmit(o)
      BY <1>0, <3>1, ItemFields, ResultCalled DEF ActSubmit
    <3>2. CASE DetectSpeech(o)
      BY <3>2 DEF DetectSpeech, Called, Next, Detectors
    <3>3. CASE CallMachine(o)
      BY <1>0, <3>3, ItemFields, ResultCalled DEF CallMachine, Called, Next, Control
    <3>. QED  BY <1>8, <3>1, <3>2, <3>3
  <2>3. CASE ActSubmit(o) \/ DetectSpeech(o)
    BY <1>4, <2>1, <2>2, <2>3 DEF ActSubmit, DetectSpeech, Answering
  <2>4. CASE CallMachine(o)
    <3>1. CASE o.kind = "Dispatch" /\ o.input = "SessionEnd" /\ OnSessionEnd
      <4>1. state' # "Finalizing"
        BY <3>1 DEF OnSessionEnd, EndSession, EndSessionCancelling, Ignored, machine
      <4>. QED  BY <1>4, <2>1, <2>2, <4>1
    <3>2. CASE o.kind = "Dispatch" /\ o.input = "SessionStart" /\ OnSessionStart
      <4>1. o.turn = NoTurn
        BY <1>0, <3>2 DEF Items, Outputs, Statements
      <4>. QED  BY <1>2, <1>4, <2>1, <2>2, <3>2, <4>1 DEF Answering, NoTurn, Turn
    <3>3. CASE o.kind = "Dispatch" /\ o.input = "Rejected" /\ OnFinalTranscriptRejected(o.turn)
      <4>1. o.turn = current_turn /\ state = "Finalizing" => state' = "Listening"
        BY <3>3 DEF OnFinalTranscriptRejected, BackToListening, IsCurrent
      <4>2. ~ Answering(o, current_turn) \/ state' # "Finalizing" \/ state # "Finalizing"
        BY <3>3, <4>1 DEF Answering
      <4>. QED  BY <1>4, <2>1, <2>2, <4>2
    <3>4. CASE o.kind = "DispatchFinal" /\ OnFinalTranscript(o.turn, o.text)
      <4>1. o.turn = current_turn /\ state = "Finalizing" => state' = "Submitting"
        BY <3>4 DEF OnFinalTranscript, FinalTranscriptIn, IsCurrent
      <4>2. ~ Answering(o, current_turn) \/ state' # "Finalizing" \/ state # "Finalizing"
        BY <3>4, <4>1 DEF Answering
      <4>. QED  BY <1>4, <2>1, <2>2, <4>2
    <3>. QED  BY <2>4, <3>1, <3>2, <3>3, <3>4 DEF CallMachine
  <2>. QED  BY <1>8, <2>3, <2>4
<1>9. CASE FinishTurnIfSilent(o)
  <2>1. ~ Answering(o, current_turn) /\ UNCHANGED sttVars
    BY <1>9 DEF FinishTurnIfSilent, Answering
  <2>2. CASE SignalDrained(o.turn, Rest)
    <3>1. Called /\ ActOnOutputsThen(Rest)
      BY <1>0, <1>9, <2>2, ItemFields, ResultCalled DEF SignalDrained, FinishTurnIfSilent
    <3>. QED  BY <1>4, <2>1, <3>1 DEF sttVars
  <2>3. CASE agenda' = Rest /\ NoCall
    BY <1>3, <2>1, <2>3 DEF sttVars
  <2>. QED  BY <1>9, <2>2, <2>3 DEF FinishTurnIfSilent
<1>. QED  BY <1>5, <1>6, <1>7, <1>8, <1>9 DEF Act

(* The statements of the loop. *)
LEMMA LoopFinal ==
  ASSUME Types, Types', FinalComing, Orchestrate, ~ Act
  PROVE  FinalComing'
<1>0. /\ agenda = <<>> /\ Elems(agenda) = {} /\ <<>> \in Seq(Items) /\ MachineTypes'
      /\ stt_results \in Seq(SttResults)
  BY Agendas, NoElems
  DEF Orchestrate, DrainControl, Shutdown, TickMachine, PumpFrame, NoFrame, CheckDevice, DrainStt,
      SttDrained, DrainAgent, AgentDrained, DrainTts, TtsDrained, FeedPlayback, Idling, Types,
      MessageTypes
<1>1. ASSUME NoCall, stt' = "running" => stt = "running", UNCHANGED <<stt_requests, stt_results>>
      PROVE  FinalComing'
  <2>1. Called /\ Elems(out') \subseteq Elems(agenda') /\ UNCHANGED <<state, current_turn>>
    BY <1>1, NoElems DEF Called, NoCall, machine, turnVars
  <2>2. AnswerComing => AnswerComing'
    BY <1>0, <1>1, <2>1, EvidenceKept
  <2>. QED  BY <1>1, <2>1, <2>2, FinalKept
<1>2. ASSUME Called, NEW rest \in Seq(Items), ActOnOutputsThen(rest), UNCHANGED <<stt, stt_requests>>,
             \A r \in Elems(stt_results) : r \in Elems(stt_results') \/ r.kind # "Final"
      PROVE  FinalComing'
  <2>1. Elems(out') \subseteq Elems(agenda')
    <3>1. out' \in Seq(Items)
      BY <1>0, <1>2, CallAgenda
    <3>. QED  BY <1>2, <3>1, ElemsOf DEF ActOnOutputsThen
  <2>2. ASSUME UNCHANGED current_turn, AnswerComing PROVE AnswerComing'
    BY <1>0, <1>2, <2>2 DEF AnswerComing
  <2>. QED  BY <1>2, <2>1, <2>2, FinalKept
<1>3. CASE DrainControl \/ Shutdown \/ TickMachine
  <2>1. Called /\ ActOnOutputsThen(<<>>) /\ UNCHANGED <<stt, stt_requests, stt_results>>
    BY <1>3
    DEF DrainControl, Shutdown, TickMachine, Called, Next, Control, LoopOnly, sttVars
  <2>. QED  BY <1>0, <1>2, <2>1
<1>4. CASE PumpFrame
  <2>1. Called /\ out' = <<>> /\ UNCHANGED <<state, current_turn, stt, stt_requests, stt_results>>
    BY <1>4 DEF PumpFrame, Called, Next, PushFrame, NoCall, LoopOnly, machine, turnVars, sttVars
  <2>2. AnswerComing => AnswerComing'
    BY <1>0, <2>1, EvidenceKept
  <2>. QED  BY <2>1, <2>2, NoElems, FinalKept
<1>5. CASE NoFrame \/ CheckDevice \/ SttDrained \/ AgentDrained \/ DrainTts \/ TtsDrained
  BY <1>1, <1>5
  DEF NoFrame, CheckDevice, SttDrained, AgentDrained, DrainTts, TtsDrained, LoopOnly, sttVars
<1>6. CASE DrainStt
  <2>. DEFINE r == Head(stt_results)
  <2>1. Elems(stt_results) = {r} \cup Elems(stt_results') /\ r \in SttResults
    <3>1. stt_results # <<>> /\ stt_results' = Tail(stt_results)
      BY <1>6 DEF DrainStt
    <3>. QED  BY <1>0, <3>1, ElemsOf
  <2>2. UNCHANGED <<stt, stt_requests>>
    BY <1>6 DEF DrainStt
  <2>3. CASE HandlePartial(r)
    <3>1. Called /\ ActOnOutputsThen(<<>>) /\ r.kind # "Final"
      BY <2>1, <2>3, ResultCalled DEF HandlePartial, SttResults
    <3>. QED  BY <1>0, <1>2, <2>1, <2>2, <3>1
  <2>4. CASE HandleFinal(r)
    <3>1. r.turn \in Turn /\ r.text \in Text
      BY <2>1, <2>4 DEF HandleFinal, SttResults
    <3>0. PICK s \in {Dispatch("Rejected", r.turn), DispatchFinal(r.turn, r.text)} :
            \E n : RebuildEngine(n, <<s>>) \/ KeepEngine(n, <<s>>)
      BY <2>4 DEF HandleFinal
    <3>2. PICK n : RebuildEngine(n, <<s>>) \/ KeepEngine(n, <<s>>)
      BY <3>0
    <3>3. s \in Elems(agenda')
      <4>. DEFINE q == <<s>>
      <4>1. q \in Seq(Items) /\ s \in Elems(q)
        BY <3>1, <3>2, Agendas DEF Elems
      <4>2. agenda' = q \/ \E x \in Seq(Items) : agenda' = x \o q
        BY <3>2, Agendas DEF RebuildEngine, KeepEngine
      <4>. HIDE DEF q
      <4>3. \A x \in Seq(Items) : Elems(x \o q) = Elems(x) \cup Elems(q)
        BY <4>1, ElemsOf
      <4>. QED  BY <4>1, <4>2, <4>3
    <3>4. Answering(s, r.turn)
      BY <3>2 DEF Answering, Dispatch, DispatchFinal
    <3>5. NoCall /\ Called /\ out' = <<>> /\ UNCHANGED <<state, current_turn>>
      BY <2>4 DEF HandleFinal, NoCall, Called, machine, turnVars
    <3>6. AnswerComing => AnswerComing'
      BY <1>0, <2>1, <2>2, <3>3, <3>4, <3>5 DEF AnswerComing
    <3>. QED  BY <2>2, <3>5, <3>6, NoElems, FinalKept
  <2>. QED  BY <1>6, <2>3, <2>4 DEF DrainStt
<1>7. CASE DrainAgent
  <2>. DEFINE e == Head(agent_events)
  <2>1. e.turn \in Turn /\ UNCHANGED <<stt, stt_requests, stt_results>>
    <3>. DEFINE E == [kind : {"TextChunk", "TurnComplete"}, turn : Turn]
    <3>1. agent_events \in Seq(E) /\ agent_events # <<>>
      BY <1>7 DEF DrainAgent, Types, MessageTypes
    <3>2. e \in E
      <4>. HIDE DEF E
      <4>. QED  BY <3>1
    <3>3. UNCHANGED <<stt, stt_requests, stt_results>>
      BY <1>7 DEF DrainAgent, sttVars
    <3>. QED  BY <3>2, <3>3
  <2>2. NoCall \/ (Called /\ \E rest \in Seq(Items) : ActOnOutputsThen(rest))
    BY <1>7, <2>1, Agendas, ResultCalled DEF DrainAgent, HandleTextChunk
  <2>. QED  BY <1>1, <1>2, <2>1, <2>2
<1>8. CASE FeedPlayback
  <2>1. UNCHANGED <<stt, stt_requests, stt_results>>
    BY <1>8 DEF FeedPlayback, sttVars
  <2>2. NoCall \/ (Called /\ ActOnOutputsThen(<<>>))
    <3>1. CASE NoCall
      BY <3>1
    <3>2. CASE playback.live_turn # NoTurn /\ SignalDrained(playback.live_turn, <<>>)
      <4>1. playback.live_turn \in Turn
        BY <3>2 DEF Types, LoopTypes, PlaybackStates
      <4>. QED  BY <3>2, <4>1, ResultCalled DEF SignalDrained
    <3>. QED  BY <1>8, <3>1, <3>2 DEF FeedPlayback, Feed, FeedEndingIf
  <2>. QED  BY <1>0, <1>1, <1>2, <2>1, <2>2
<1>. QED  BY <1>3, <1>4, <1>5, <1>6, <1>7, <1>8 DEF Orchestrate

(* The recognizer answers the request to finish with a final, whatever it heard. *)
LEMMA OthersFinal ==
  ASSUME Types, FinalComing,
         \/ SttWork \/ SttDies \/ TtsWork \/ TtsDies \/ AgentWork \/ PlayOut \/ UNCHANGED pvars
  PROVE  FinalComing'
<1>0. UNCHANGED <<state, current_turn, agenda>>
  BY DEF SttWork, SttDies, TtsWork, TtsDies, AgentWork, PlayOut, OrchestratorIdle, pvars, vars,
         machine, turnVars, loopVars
<1>1. CASE SttDies
  BY <1>1 DEF SttDies, FinalComing
<1>2. CASE TtsWork \/ TtsDies \/ AgentWork \/ PlayOut \/ UNCHANGED pvars
  <2>1. UNCHANGED <<stt, stt_requests, stt_results>>
    BY <1>2 DEF TtsWork, TtsDies, AgentWork, PlayOut, pvars, sttVars
  <2>. QED  BY <1>0, <2>1 DEF FinalComing, AnswerComing
<1>3. CASE SttWork
  <2>. DEFINE r == Head(stt_requests)
  <2>1. /\ stt_requests # <<>> /\ stt_requests' = Tail(stt_requests) /\ UNCHANGED stt
        /\ stt_requests \in Seq(SttRequests) /\ stt_results \in Seq(SttResults)
        /\ hearing \subseteq Turn
    BY <1>3 DEF SttWork, Types, MessageTypes
  <2>2. Elems(stt_requests) = {r} \cup Elems(stt_requests') /\ r \in SttRequests
    BY <2>1, ElemsOf
  <2>3. CASE FinishUtterance(r)
    <3>1. r.turn \in Turn /\ r.kind = "FinishUtterance"
      BY <2>2, <2>3 DEF FinishUtterance, SttRequests
    <3>2. PICK text \in SUBSET Turn : stt_results' = Append(stt_results, Final(r.turn, text))
      BY <2>1, <2>3 DEF FinishUtterance
    <3>3. Elems(stt_results') = Elems(stt_results) \cup {Final(r.turn, text)}
      <4>1. Final(r.turn, text) \in SttResults
        BY <3>1, UtteranceAssumption DEF Final, SttResults
      <4>. QED  BY <2>1, <3>2, <4>1, ElemsOf
    <3>4. r = Finish(current_turn) => r.turn = current_turn
      BY DEF Finish
    <3>5. Final(r.turn, text).kind = "Final" /\ Final(r.turn, text).turn = r.turn
      BY DEF Final
    <3>. QED  BY <1>0, <2>1, <2>2, <3>3, <3>4, <3>5 DEF FinalComing, AnswerComing
  <2>4. CASE DecodeAudio(r) \/ (r.kind = "Reset" /\ UNCHANGED stt_results)
    <3>1. r # Finish(current_turn)
      BY <2>4 DEF DecodeAudio, Finish
    <3>2. Elems(stt_results) \subseteq Elems(stt_results')
      <4>1. CASE UNCHANGED stt_results
        BY <4>1
      <4>2. CASE DecodeAudio(r) /\ stt_results' = Append(stt_results, Partial(r.turn))
        <5>1. Partial(r.turn) \in SttResults
          BY <2>2, <4>2 DEF DecodeAudio, SttRequests, SttResults, Partial
        <5>. QED  BY <2>1, <4>2, <5>1, ElemsOf
      <4>. QED  BY <2>4, <4>1, <4>2 DEF DecodeAudio
    <3>. QED  BY <1>0, <2>1, <2>2, <3>1, <3>2 DEF FinalComing, AnswerComing
  <2>. QED  BY <1>3, <2>3, <2>4 DEF SttWork
<1>. QED  BY <1>1, <1>2, <1>3

LEMMA FinalStep ==
  ASSUME Types, FinalComing, [PNext]_pvars
  PROVE  Types' /\ FinalComing'
<1>1. Types'
  BY TypesStep
<1>. QED  BY <1>1, ActFinal, LoopFinal, OthersFinal DEF PNext, Orchestrate, Stopped

(* For any number of turns, any size of the recognizer's queue and whatever of
   the hazards happen: as long as the recognizer runs, whoever waits in
   Finalizing for a transcript has its request or its answer on the way
   (on_state_changed of pipeline.rs). *)
THEOREM FinalComes == PSpec => []FinalIsOnItsWay
<1>1. PInit => FinalComing
  BY DEF PInit, Init, FinalComing
<1>2. ASSUME Types, FinalComing PROVE FinalIsOnItsWay
  <2>. SUFFICES ASSUME agenda = <<>>, state = "Finalizing", stt = "running"
               PROVE  \/ Finish(current_turn) \in Elems(stt_requests)
                      \/ \E r \in Elems(stt_results) : r.kind = "Final" /\ r.turn = current_turn
    BY DEF FinalIsOnItsWay, Idling, Elems
  <2>. QED  BY <1>2, NoElems DEF FinalComing, AnswerComing
<1>. QED  BY <1>1, <1>2, TypesInit, FinalStep, PTL DEF PSpec

----------------------------------------------------------------------------
(* Only the agent whose turn it is is heard. *)

(* What waits to be heard is of the turn it waits for. *)
OwnPieces(p) ==
  /\ \A i \in DOMAIN p.live : p.live[i].turn = p.live_turn
  /\ \A i \in DOMAIN p.queued : p.queued[i].turn = p.paused_turn

(* The agent has said all of the turn t, and nothing of it is on its way to
   the playback any more. *)
Ended(t) == t \in complete /\ \A e \in Elems(agent_events) : e.kind = "TextChunk" => e.turn # t
Over(t) == Ended(t) /\ ~ OnItsWay(t)

(* The end of a turn is reported once, after its text. *)
ReportsInOrder ==
  /\ \A i, j \in DOMAIN agent_events :
       i < j /\ agent_events[i].kind = "TurnComplete" /\ agent_events[j].kind = "TextChunk"
         => agent_events[i].turn # agent_events[j].turn
  /\ \A e \in Elems(agent_events) : e.kind = "TurnComplete" => e.turn \in complete

(* The flag is about the turn that is speaking, or was when it was interrupted. *)
FlagOK ==
  agent_turn_complete =>
    /\ state = "AgentSpeaking" => Ended(current_turn)
    /\ state = "Interrupting" => Ended(pending_cancel_turn)

(* Nothing is left to be heard of a turn that does not speak, and nothing of it
   will come. *)
Hush == playback.live = <<>> /\ (playback.live_turn # NoTurn => Over(playback.live_turn))

(* A turn that does not speak is hushed, or is just about to be silenced. *)
Silent == state = "AgentSpeaking" \/ Kind(agenda, 1, "CancelPlayback") \/ Hush

(* Where the loop reads the results and feeds, nothing is left to act on; and
   an agent's end is not looked at before its text is with the synthesizer. *)
Resting == phase \in {"tts", "feed"} => agenda = <<>>
EndsApart ==
  \A o, u \in Elems(agenda) : ~ (o.kind = "FinishIfSilent" /\ u.kind = "Synthesize")

SpokenInv ==
  OwnPieces(playback) /\ ReportsInOrder /\ FlagOK /\ Silent /\ Resting /\ EndsApart

Events == [kind : {"TextChunk", "TurnComplete"}, turn : Turn]

LEMMA EmptyOwn ==
  ASSUME NEW p \in PlaybackStates, OwnPieces(p)
  PROVE  p.live_turn = NoTurn => p.live = <<>>
<1>. SUFFICES ASSUME p.live_turn = NoTurn, p.live # <<>> PROVE FALSE
  OBVIOUS
<1>1. p.live \in Seq(Piece)
  BY DEF PlaybackStates
<1>2. 1 \in DOMAIN p.live /\ p.live[1] \in Piece
  <2>. HIDE DEF Piece
  <2>. QED  BY <1>1
<1>3. p.live[1].turn = NoTurn
  BY <1>2 DEF OwnPieces
<1>. QED  BY <1>2, <1>3 DEF Piece, NoTurn, Turn

(* The methods of the playback keep the pieces with their turns. *)
LEMMA OwnKept ==
  ASSUME NEW p \in PlaybackStates, OwnPieces(p)
  PROVE  /\ OwnPieces(PB!CancelPlayback(p)) /\ OwnPieces(PB!Flush(p))
         /\ \A n \in Nat : OwnPieces(PB!TakeLive(p, n))
         /\ \A t \in Turn :
              /\ OwnPieces(PB!Resume(p, t)) /\ OwnPieces(PB!CancelSynthesis(p, t))
              /\ OwnPieces(PB!Start(p, t))
              /\ \A k \in Nat : OwnPieces(PB!RouteSynthesized(p, t, PiecesOf(t, k)))
<1>. USE DEF NoTurn, PB!NoTurn
<1>0. /\ p.live_turn \in Turn \cup {0} /\ p.paused_turn \in Turn \cup {0}
      /\ p.live \in Seq(Piece) /\ p.queued \in Seq(Piece) /\ p.abandoned \in SUBSET Turn
      /\ p = [live_turn |-> p.live_turn, live |-> p.live, paused_turn |-> p.paused_turn,
              queued |-> p.queued, abandoned |-> p.abandoned]
      /\ \A i \in DOMAIN p.live : p.live[i].turn = p.live_turn
      /\ \A i \in DOMAIN p.queued : p.queued[i].turn = p.paused_turn
  BY DEF PlaybackStates, OwnPieces
<1>a. OwnPieces(PB!CancelPlayback(p))
  BY <1>0 DEF PB!CancelPlayback, PB!Silenced, OwnPieces
<1>1. OwnPieces(PB!CancelPlayback(p)) /\ OwnPieces(PB!Flush(p))
  BY <1>0, <1>a DEF PB!Flush, OwnPieces
<1>2. ASSUME NEW t \in Turn PROVE OwnPieces(PB!Resume(p, t))
  BY <1>0 DEF PB!Resume, PB!IsPaused, PB!Unparked, OwnPieces
<1>3. ASSUME NEW t \in Turn PROVE OwnPieces(PB!CancelSynthesis(p, t))
  BY <1>0 DEF PB!CancelSynthesis, PB!Unparked, PB!Silenced, OwnPieces
<1>4. ASSUME NEW t \in Turn PROVE OwnPieces(PB!Start(p, t))
  BY <1>0 DEF PB!Start, OwnPieces
<1>5. ASSUME NEW t \in Turn, NEW k \in Nat
      PROVE  OwnPieces(PB!RouteSynthesized(p, t, PiecesOf(t, k)))
  <2>. DEFINE s == PiecesOf(t, k)
  <2>1. s \in Seq(Piece) /\ \A i \in DOMAIN s : s[i].turn = t
    BY DEF PiecesOf, Piece
  <2>. HIDE DEF s
  <2>2. ASSUME NEW q \in Seq(Piece), \A i \in DOMAIN q : q[i].turn = t
        PROVE  \A i \in DOMAIN (q \o s) : (q \o s)[i].turn = t
    <3>. HIDE DEF Piece
    <3>1. /\ DOMAIN (q \o s) = 1..(Len(q) + Len(s)) /\ DOMAIN s = 1..Len(s) /\ DOMAIN q = 1..Len(q)
          /\ Len(q) \in Nat /\ Len(s) \in Nat
          /\ \A j \in 1..(Len(q) + Len(s)) :
               (q \o s)[j] = IF j <= Len(q) THEN q[j] ELSE s[j - Len(q)]
      BY <2>1, Concatenated
    <3>2. \A j \in 1..(Len(q) + Len(s)) : j \in 1..Len(q) \/ j - Len(q) \in 1..Len(s)
      BY <3>1
    <3>. QED  BY <2>1, <2>2, <3>1, <3>2
  <2>3. IF p.live_turn = t THEN \A i \in DOMAIN (p.live \o s) : (p.live \o s)[i].turn = t ELSE TRUE
    BY <1>0, <2>2
  <2>4. IF p.paused_turn = t THEN \A i \in DOMAIN (p.queued \o s) : (p.queued \o s)[i].turn = t
                             ELSE TRUE
    BY <1>0, <2>2
  <2>5. CASE t \in p.abandoned
    BY <1>0, <2>5 DEF PB!RouteSynthesized, OwnPieces, s
  <2>6. CASE t \notin p.abandoned /\ p.live_turn = t
    BY <1>0, <2>3, <2>6 DEF PB!RouteSynthesized, PB!IsLive, OwnPieces, s
  <2>7. CASE t \notin p.abandoned /\ p.live_turn # t
    BY <1>0, <2>4, <2>7 DEF PB!RouteSynthesized, PB!IsLive, PB!IsPaused, OwnPieces, s
  <2>. QED  BY <2>5, <2>6, <2>7
<1>6. ASSUME NEW n \in Nat PROVE OwnPieces(PB!TakeLive(p, n))
  <2>. DEFINE s == SubSeq(p.live, n + 1, Len(p.live))
  <2>1. \A i \in DOMAIN s : s[i].turn = p.live_turn
    <3>. HIDE DEF Piece
    <3>1. \A i \in DOMAIN s : n + i \in DOMAIN p.live /\ s[i] = p.live[n + i]
      BY <1>0
    <3>. QED  BY <1>0, <3>1
  <2>. HIDE DEF s
  <2>. QED  BY <1>0, <2>1 DEF PB!TakeLive, OwnPieces, s
<1>. QED  BY <1>1, <1>2, <1>3, <1>4, <1>5, <1>6

----------------------------------------------------------------------------
(* Nothing gets on its way but by a text that is handled. *)

LEMMA CountElems ==
  ASSUME NEW S, NEW s \in Seq(S), NEW x
  PROVE  Count(s, x) > 0 <=> x \in Elems(s)
<1>. DEFINE P == {i \in DOMAIN s : s[i] = x}
<1>1. IsFiniteSet(P) /\ Cardinality(P) \in Nat
  BY CountType DEF Count
<1>2. Cardinality(P) = 0 <=> P = {}
  BY <1>1, FS_EmptySet
<1>3. P # {} <=> x \in Elems(s)
  BY DEF Elems
<1>. HIDE DEF P
<1>4. Cardinality(P) > 0 <=> x \in Elems(s)
  BY <1>1, <1>2, <1>3
<1>. QED  BY <1>4 DEF Count, P

Underway(t) == Phrase(t) \in Elems(tts_requests) \cup Elems(tts_results)

LEMMA FlightElems ==
  ASSUME Types, Types', NEW t
  PROVE  (InFlight(t) > 0 <=> Underway(t)) /\ (InFlight(t)' > 0 <=> Underway(t)')
<1>1. /\ tts_requests \in Seq([kind : {"Synthesize", "Cancel"}, turn : Turn])
      /\ tts_requests' \in Seq([kind : {"Synthesize", "Cancel"}, turn : Turn])
      /\ tts_results \in Seq([kind : {"Synthesize"}, turn : Turn])
      /\ tts_results' \in Seq([kind : {"Synthesize"}, turn : Turn])
  BY DEF Types, MessageTypes
<1>2. /\ InFlight(t) = Count(tts_requests, Phrase(t)) + Count(tts_results, Phrase(t))
      /\ InFlight(t)' = Count(tts_requests', Phrase(t)) + Count(tts_results', Phrase(t))
  BY DEF InFlight, Count
<1>3. /\ Count(tts_requests, Phrase(t)) \in Nat /\ Count(tts_requests', Phrase(t)) \in Nat
      /\ Count(tts_results, Phrase(t)) \in Nat /\ Count(tts_results', Phrase(t)) \in Nat
  BY <1>1, CountType
<1>4. /\ Count(tts_requests, Phrase(t)) > 0 <=> Phrase(t) \in Elems(tts_requests)
      /\ Count(tts_requests', Phrase(t)) > 0 <=> Phrase(t) \in Elems(tts_requests')
      /\ Count(tts_results, Phrase(t)) > 0 <=> Phrase(t) \in Elems(tts_results)
      /\ Count(tts_results', Phrase(t)) > 0 <=> Phrase(t) \in Elems(tts_results')
  BY <1>1, CountElems
<1>. QED  BY <1>2, <1>3, <1>4 DEF Underway

LEMMA SendElems ==
  ASSUME Types, NEW q \in Seq([kind : {"Synthesize", "Cancel"}, turn : Turn]), SendTts(q)
  PROVE  Elems(tts_requests') \subseteq Elems(tts_requests) \cup Elems(q)
<1>. DEFINE R == [kind : {"Synthesize", "Cancel"}, turn : Turn]
<1>1. tts_requests \in Seq(R) /\ q \in Seq(R)
  BY DEF Types, MessageTypes
<1>. HIDE DEF R
<1>2. Elems(tts_requests \o q) = Elems(tts_requests) \cup Elems(q)
  BY <1>1, ElemsOf
<1>. QED  BY <1>2 DEF SendTts

(* A phrase that is new with the synthesizer is of the chunk acted on. *)
LEMMA UnderwayStep ==
  ASSUME Types, AgreeInv, [PNext]_pvars, NEW t \in Turn, Underway(t)'
  PROVE  Underway(t) \/ (Act /\ Head(agenda).kind = "Synthesize" /\ Head(agenda).turn = t)
<1>. DEFINE o == Head(agenda)
<1>1. ASSUME UNCHANGED <<tts_requests, tts_results>> PROVE Underway(t)
  BY <1>1 DEF Underway
<1>2. CASE Act /\ ~ SynthesizeChunk(o) /\ ~ ActCancelSynthesis(o)
  BY <1>1, <1>2
  DEF Act, ActCapture, ActPlayback, ActSubmit, ActReplay, ActState, ActStateResetting, CallMachine,
      FinishTurnIfSilent, ResetRecognizer, DetectSpeech, TranscribeFrame, ttsVars
<1>3. CASE Act /\ SynthesizeChunk(o)
  <2>1. o.kind = "Synthesize" /\ o.turn \in Turn
    <3>1. o \in Items
      BY <1>3, HeadItem DEF Act, Types, LoopTypes
    <3>. QED  BY <1>3, <3>1, ItemFields DEF SynthesizeChunk
  <2>2. CASE UNCHANGED ttsVars
    BY <1>1, <2>2 DEF ttsVars
  <2>3. ASSUME NEW n \in 0..MaxPhrases, SendTts([i \in 1..n |-> Phrase(o.turn)])
        PROVE  Underway(t) \/ o.turn = t
    <3>. DEFINE q == [i \in 1..n |-> Phrase(o.turn)]
    <3>1. q \in Seq([kind : {"Synthesize", "Cancel"}, turn : Turn])
          /\ \A x \in Elems(q) : x.turn = o.turn
      <4>1. n \in Nat
        BY PipelineAssumption
      <4>. QED  BY <2>1, <4>1 DEF Phrase, Elems
    <3>. HIDE DEF q
    <3>2. Elems(tts_requests') \subseteq Elems(tts_requests) \cup Elems(q)
      BY <2>3, <3>1, SendElems DEF q
    <3>3. UNCHANGED tts_results
      BY <2>3 DEF SendTts
    <3>. QED  BY <3>1, <3>2, <3>3 DEF Underway, Phrase
  <2>. QED  BY <1>3, <2>1, <2>2, <2>3 DEF SynthesizeChunk
<1>4. CASE Act /\ ActCancelSynthesis(o)
  <2>. DEFINE q == <<Cancel(o.turn)>>
  <2>1. o.turn \in Turn
    <3>1. o \in Items
      BY <1>4, HeadItem DEF Act, Types, LoopTypes
    <3>. QED  BY <1>4, <3>1, ItemFields DEF ActCancelSynthesis
  <2>2. q \in Seq([kind : {"Synthesize", "Cancel"}, turn : Turn])
        /\ \A x \in Elems(q) : x.kind = "Cancel"
    BY <2>1 DEF Cancel, Elems
  <2>. HIDE DEF q
  <2>3. SendTts(q)
    BY <1>4 DEF ActCancelSynthesis, q
  <2>4. Elems(tts_requests') \subseteq Elems(tts_requests) \cup Elems(q) /\ UNCHANGED tts_results
    BY <2>2, <2>3, SendElems DEF SendTts
  <2>. QED  BY <2>2, <2>4 DEF Underway, Phrase
<1>5. CASE DrainTts
  <2>1. Elems(tts_results') \subseteq Elems(tts_results) /\ UNCHANGED tts_requests
    <3>. DEFINE P == [kind : {"Synthesize"}, turn : Turn]
    <3>1. tts_results \in Seq(P) /\ tts_results # <<>> /\ tts_results' = Tail(tts_results)
      BY <1>5 DEF DrainTts, Types, MessageTypes
    <3>. HIDE DEF P
    <3>. QED  BY <1>5, <3>1, ElemsOf DEF DrainTts
  <2>. QED  BY <2>1 DEF Underway
<1>6. CASE DrainControl \/ Shutdown \/ TickMachine \/ PumpFrame \/ NoFrame \/ CheckDevice
           \/ DrainStt \/ SttDrained \/ DrainAgent \/ AgentDrained \/ TtsDrained \/ FeedPlayback
  BY <1>1, <1>6
  DEF DrainControl, Shutdown, TickMachine, PumpFrame, NoFrame, CheckDevice, DrainStt, SttDrained,
      DrainAgent, AgentDrained, TtsDrained, FeedPlayback, LoopOnly, ttsVars
<1>7. CASE SttWork \/ SttDies \/ AgentWork \/ PlayOut \/ UNCHANGED pvars
  BY <1>1, <1>7 DEF SttWork, SttDies, AgentWork, PlayOut, pvars, ttsVars
<1>8. CASE TtsWork \/ TtsDies
  <2>. DEFINE r == Head(tts_requests)
  <2>1. Elems(tts_requests') \subseteq Elems(tts_requests)
        /\ (TtsWork => r \in Elems(tts_requests))
    <3>. DEFINE R == [kind : {"Synthesize", "Cancel"}, turn : Turn]
    <3>1. /\ tts_requests \in Seq(R)
          /\ tts_requests' = <<>> \/ (tts_requests # <<>> /\ tts_requests' = Tail(tts_requests))
          /\ TtsWork => tts_requests # <<>>
      BY <1>8 DEF TtsWork, TtsDies, Types, MessageTypes
    <3>. HIDE DEF R
    <3>. QED  BY <3>1, ElemsOf, NoElems
  <2>2. Elems(tts_results') \subseteq Elems(tts_results) \cup Elems(tts_requests)
    <3>. DEFINE P == [kind : {"Synthesize"}, turn : Turn]
    <3>1. tts_results \in Seq(P)
      BY DEF Types, MessageTypes
    <3>2. UNCHANGED tts_results \/ (TtsWork /\ r.kind = "Synthesize" /\ tts_results' = Append(tts_results, r))
      BY <1>8 DEF TtsWork, TtsDies
    <3>3. TtsWork /\ r.kind = "Synthesize" => r \in P
      <4>. DEFINE R == [kind : {"Synthesize", "Cancel"}, turn : Turn]
      <4>1. TtsWork => r \in R
        <5>1. TtsWork => tts_requests \in Seq(R) /\ tts_requests # <<>>
          BY DEF TtsWork, Types, MessageTypes
        <5>. HIDE DEF R
        <5>. QED  BY <5>1
      <4>. QED  BY <4>1
    <3>. HIDE DEF P, r
    <3>4. \A x \in P : Elems(Append(tts_results, x)) = Elems(tts_results) \cup {x}
      BY <3>1, ElemsOf
    <3>. QED  BY <2>1, <3>2, <3>3, <3>4
  <2>. QED  BY <2>1, <2>2 DEF Underway
<1>. QED
  BY <1>2, <1>3, <1>4, <1>5, <1>6, <1>7, <1>8 DEF PNext, Orchestrate, Stopped

(* What is new on the agenda besides outputs and nested calls. *)
Spoken == {"Synthesize", "FinishIfSilent"}

LEMMA OutputsThen ==
  ASSUME MachineTypes', NEW rest \in Seq(Items), ActOnOutputsThen(rest), NEW o \in Elems(agenda')
  PROVE  o \in Elems(rest) \/ o.kind \notin Spoken
<1>1. out' \in Seq(Items) /\ out' \in Seq(Outputs)
  BY CallAgenda DEF MachineTypes
<1>2. Elems(agenda') = Elems(out') \cup Elems(rest)
  BY <1>1, ElemsOf DEF ActOnOutputsThen
<1>3. Elems(out') \subseteq Outputs
  <2>. HIDE DEF Outputs
  <2>. QED  BY <1>1 DEF Elems
<1>. QED  BY <1>2, <1>3 DEF Outputs, Spoken

LEMMA NewItems ==
  ASSUME Types, Types', [PNext]_pvars, NEW o \in Elems(agenda')
  PROVE  \/ o \in Elems(agenda) \/ o.kind \notin Spoken
         \/ /\ DrainAgent
            /\ o \in {Synthesize(Head(agent_events).turn), FinishIfSilent(Head(agent_events).turn)}
            /\ o.kind = "Synthesize" <=> Head(agent_events).kind = "TextChunk"
<1>. DEFINE h == Head(agenda)
<1>1. MachineTypes' /\ <<>> \in Seq(Items) /\ agenda \in Seq(Items) /\ Elems(<<>>) = {}
  BY Agendas, NoElems DEF Types, LoopTypes
<1>2. CASE Act
  <2>1. Rest \in Seq(Items) /\ Elems(agenda) = {h} \cup Elems(Rest)
    BY <1>1, <1>2, HeadItem, ElemsOf DEF Act, Rest
  <2>2. agenda' = Rest \/ ActOnOutputsThen(Rest)
    BY <1>2
    DEF Act, ActCapture, ActPlayback, ActCancelSynthesis, ActSubmit, ActReplay, ActState,
        ActStateResetting, CallMachine, SynthesizeChunk, FinishTurnIfSilent, SignalDrained,
        ResetRecognizer, DetectSpeech, TranscribeFrame
  <2>. QED  BY <1>1, <2>1, <2>2, OutputsThen
<1>3. CASE DrainControl \/ Shutdown \/ TickMachine
  <2>1. ActOnOutputsThen(<<>>)
    BY <1>3 DEF DrainControl, Shutdown, TickMachine
  <2>. QED  BY <1>1, <2>1, OutputsThen
<1>4. CASE PumpFrame
  <2>1. Elems(<<Detect, Transcribe>>) = {Detect, Transcribe}
    BY DEF Elems
  <2>. QED  BY <1>4, <2>1 DEF PumpFrame, Detect, Transcribe, Plain, Spoken
<1>5. CASE NoFrame \/ SttDrained \/ AgentDrained \/ DrainTts \/ TtsDrained
  BY <1>5 DEF NoFrame, SttDrained, AgentDrained, DrainTts, TtsDrained
<1>6. ASSUME NEW count, NEW rest \in Seq(Items), \A x \in Elems(rest) : x.kind \notin Spoken,
             RebuildEngine(count, rest) \/ KeepEngine(count, rest)
      PROVE  o.kind \notin Spoken
  <2>. DEFINE s == <<ResetStt, Dispatch("SessionEnd", NoTurn), Dispatch("SessionStart", NoTurn)>>
  <2>1. s \in Seq(Items)
    BY Agendas
  <2>2. \A x \in Elems(s) : x.kind \notin Spoken
    <3>1. Elems(s) = {ResetStt, Dispatch("SessionEnd", NoTurn), Dispatch("SessionStart", NoTurn)}
      BY DEF Elems
    <3>. QED  BY <3>1 DEF ResetStt, Dispatch, Plain, Spoken
  <2>3. agenda' \in {s \o rest, rest}
    BY <1>6 DEF RebuildEngine, KeepEngine
  <2>. HIDE DEF s
  <2>4. Elems(s \o rest) = Elems(s) \cup Elems(rest)
    BY <1>6, <2>1, ElemsOf
  <2>. QED  BY <1>6, <2>2, <2>3, <2>4
<1>7. CASE CheckDevice
  BY <1>1, <1>6, <1>7 DEF CheckDevice
<1>8. CASE DrainStt
  <2>. DEFINE r == Head(stt_results)
  <2>1. r.turn \in Turn /\ (r.kind = "Final" => r.text \in Text)
    <3>1. r \in SttResults
      BY <1>8 DEF DrainStt, Types, MessageTypes
    <3>. QED  BY <3>1 DEF SttResults
  <2>2. CASE HandlePartial(r)
    BY <1>1, <2>2, OutputsThen DEF HandlePartial
  <2>3. CASE HandleFinal(r)
    <3>1. PICK x \in {Dispatch("Rejected", r.turn), DispatchFinal(r.turn, r.text)} :
            \E n : RebuildEngine(n, <<x>>) \/ KeepEngine(n, <<x>>)
      BY <2>3 DEF HandleFinal
    <3>2. <<x>> \in Seq(Items) /\ x.kind \notin Spoken /\ Elems(<<x>>) = {x}
      <4>1. <<x>> \in Seq(Items)
        BY <2>1, <2>3, <3>1, Agendas DEF HandleFinal
      <4>2. x.kind \notin Spoken
        BY <3>1 DEF Dispatch, DispatchFinal, Spoken
      <4>. QED  BY <4>1, <4>2 DEF Elems
    <3>. QED  BY <1>6, <3>1, <3>2
  <2>. QED  BY <1>8, <2>2, <2>3 DEF DrainStt
<1>9. CASE DrainAgent
  <2>. DEFINE e == Head(agent_events)
              x == Synthesize(e.turn)
              y == FinishIfSilent(e.turn)
  <2>1. e \in Events
    <3>1. agent_events \in Seq(Events) /\ agent_events # <<>>
      BY <1>9 DEF DrainAgent, Types, MessageTypes, Events
    <3>. HIDE DEF Events
    <3>. QED  BY <3>1
  <2>2. /\ <<x>> \in Seq(Items) /\ <<y>> \in Seq(Items)
        /\ Elems(<<x>>) = {x} /\ Elems(<<y>>) = {y}
        /\ x.kind = "Synthesize" /\ y.kind = "FinishIfSilent"
    BY <2>1, Agendas DEF Elems, Events, Synthesize, FinishIfSilent
  <2>3. \/ UNCHANGED agenda \/ (e.kind = "TextChunk" /\ ActOnOutputsThen(<<x>>))
        \/ (e.kind = "TurnComplete" /\ ActOnOutputsThen(<<y>>))
    BY <1>9 DEF DrainAgent, HandleTextChunk
  <2>. HIDE DEF x, y
  <2>4. o \in Elems(agenda) \/ o.kind \notin Spoken \/ (o = x /\ e.kind = "TextChunk")
        \/ (o = y /\ e.kind = "TurnComplete")
    BY <1>1, <2>2, <2>3, OutputsThen
  <2>. QED  BY <1>9, <2>2, <2>4 DEF x, y
<1>10. CASE FeedPlayback
  <2>1. UNCHANGED agenda \/ ActOnOutputsThen(<<>>)
    BY <1>10 DEF FeedPlayback, Feed, FeedEndingIf, SignalDrained
  <2>. QED  BY <1>1, <2>1, OutputsThen
<1>11. CASE SttWork \/ SttDies \/ TtsWork \/ TtsDies \/ AgentWork \/ PlayOut \/ UNCHANGED pvars
  BY <1>11
  DEF SttWork, SttDies, TtsWork, TtsDies, AgentWork, PlayOut, OrchestratorIdle, pvars, loopVars
<1>. QED
  BY <1>2, <1>3, <1>4, <1>5, <1>7, <1>8, <1>9, <1>10, <1>11 DEF PNext, Orchestrate, Stopped

(* What is on its way was already, or is the text just handled. *)
LEMMA OnItsWayStep ==
  ASSUME Types, Types', AgreeInv, [PNext]_pvars, NEW t \in Turn, OnItsWay(t)'
  PROVE  OnItsWay(t) \/ (DrainAgent /\ Head(agent_events).kind = "TextChunk"
                         /\ Head(agent_events).turn = t)
<1>1. CASE InFlight(t)' > 0
  <2>1. Underway(t) \/ (Act /\ Head(agenda).kind = "Synthesize" /\ Head(agenda).turn = t)
    BY <1>1, FlightElems, UnderwayStep
  <2>2. CASE Act /\ Head(agenda).kind = "Synthesize" /\ Head(agenda).turn = t
    <3>1. 1 \in DOMAIN agenda /\ Head(agenda) = agenda[1]
      BY <2>2, HeadItem DEF Act, Types, LoopTypes
    <3>. QED  BY <2>2, <3>1 DEF OnItsWay, Mentions
  <2>. QED  BY <2>1, <2>2, FlightElems DEF OnItsWay
<1>2. CASE Mentions(agenda', t)
  <2>1. PICK o \in Elems(agenda') : o.kind = "Synthesize" /\ o.turn = t
    BY <1>2 DEF Mentions, Elems
  <2>2. CASE o \in Elems(agenda)
    BY <2>1, <2>2 DEF OnItsWay, Mentions, Elems
  <2>3. CASE DrainAgent /\ Head(agent_events).kind = "TextChunk"
             /\ o \in {Synthesize(Head(agent_events).turn), FinishIfSilent(Head(agent_events).turn)}
    BY <2>1, <2>3 DEF Synthesize, FinishIfSilent
  <2>. QED  BY <2>1, <2>2, <2>3, NewItems DEF Spoken
<1>. QED  BY <1>1, <1>2 DEF OnItsWay

LEMMA EndsApartStep ==
  ASSUME Types, Types', EndsApart, [PNext]_pvars
  PROVE  EndsApart'
<1>. SUFFICES ASSUME NEW o \in Elems(agenda'), NEW u \in Elems(agenda'),
                     o.kind = "FinishIfSilent", u.kind = "Synthesize"
              PROVE  FALSE
  BY DEF EndsApart
<1>1. CASE o \in Elems(agenda) /\ u \in Elems(agenda)
  BY <1>1 DEF EndsApart
<1>2. CASE o \notin Elems(agenda) \/ u \notin Elems(agenda)
  <2>1. DrainAgent
    BY <1>2, NewItems DEF Spoken
  <2>2. Elems(agenda) = {}
    BY <2>1, NoElems DEF DrainAgent, Idling
  <2>. QED  BY <2>2, NewItems DEF Spoken
<1>. QED  BY <1>1, <1>2

----------------------------------------------------------------------------
(* What the agent says. *)

AgentQuiet == UNCHANGED <<complete, agent_events>>

LEMMA AgentMoves ==
  ASSUME [PNext]_pvars
  PROVE  AgentQuiet \/ DrainAgent \/ AgentWork
<1>1. CASE Act
  BY <1>1
  DEF Act, ActCapture, ActPlayback, ActCancelSynthesis, ActSubmit, ActReplay, ActState,
      ActStateResetting, CallMachine, SynthesizeChunk, FinishTurnIfSilent, ResetRecognizer,
      DetectSpeech, TranscribeFrame, agentVars, AgentQuiet
<1>2. CASE DrainControl \/ Shutdown \/ TickMachine \/ PumpFrame \/ NoFrame \/ CheckDevice
           \/ DrainStt \/ SttDrained \/ AgentDrained \/ DrainTts \/ TtsDrained \/ FeedPlayback
  BY <1>2
  DEF DrainControl, Shutdown, TickMachine, PumpFrame, NoFrame, CheckDevice, DrainStt, SttDrained,
      AgentDrained, DrainTts, TtsDrained, FeedPlayback, LoopOnly, agentVars, AgentQuiet
<1>3. CASE SttWork \/ SttDies \/ TtsWork \/ TtsDies \/ PlayOut \/ UNCHANGED pvars
  BY <1>3 DEF SttWork, SttDies, TtsWork, TtsDies, PlayOut, pvars, agentVars, AgentQuiet
<1>. QED  BY <1>1, <1>2, <1>3 DEF PNext, Orchestrate, Stopped

LEMMA TailShape ==
  ASSUME NEW S, NEW s \in Seq(S), s # <<>>
  PROVE  /\ \A i \in DOMAIN Tail(s) : /\ i \in Nat \ {0} /\ i + 1 \in DOMAIN s
                                      /\ Tail(s)[i] = s[i + 1]
         /\ 1 \in DOMAIN s /\ Head(s) = s[1] /\ Len(Tail(s)) < Len(s)
OBVIOUS

LEMMA AppendShape ==
  ASSUME NEW S, NEW s \in Seq(S), NEW x \in S
  PROVE  /\ \A i \in DOMAIN Append(s, x) : \/ i = Len(s) + 1 /\ Append(s, x)[i] = x
                                           \/ i \in DOMAIN s /\ Append(s, x)[i] = s[i]
         /\ \A i \in DOMAIN s : i < Len(s) + 1 /\ i \in Nat
         /\ Len(s) < Len(Append(s, x)) /\ Len(s) \in Nat
OBVIOUS

(* The agent's backend does not take a silence for the end. *)
Punctual == "late reply" \notin Hazards

LEMMA PunctualSays ==
  ASSUME Punctual, NEW t, AgentSays(t)
  PROVE  /\ t \notin complete /\ UNCHANGED complete
         /\ agent_events' = Append(agent_events, [kind |-> "TextChunk", turn |-> t])
BY Zenon DEF Punctual, AgentSays

(* An agent that has ended a turn says no more of it. *)
LEMMA EndedStep ==
  ASSUME Punctual, Types, ReportsInOrder, [PNext]_pvars
  PROVE  /\ ReportsInOrder'
         /\ \A t : Ended(t) => Ended(t)'
         /\ \A t : DrainAgent /\ Head(agent_events).kind = "TurnComplete"
                  /\ Head(agent_events).turn = t => Ended(t)'
<1>1. agent_events \in Seq(Events) /\ complete \subseteq Turn
  BY DEF Types, MessageTypes, Events
<1>2. CASE AgentQuiet /\ ~ DrainAgent
  BY <1>2 DEF AgentQuiet, ReportsInOrder, Ended
<1>3. CASE DrainAgent
  <2>. DEFINE e == Head(agent_events)
  <2>. HIDE DEF Events
  <2>1. /\ agent_events # <<>> /\ agent_events' = Tail(agent_events) /\ UNCHANGED complete
        /\ Elems(agent_events) = {e} \cup Elems(agent_events')
    BY <1>1, <1>3, ElemsOf DEF DrainAgent
  <2>2. /\ \A i \in DOMAIN agent_events' : /\ i \in Nat \ {0} /\ i + 1 \in DOMAIN agent_events
                                           /\ agent_events'[i] = agent_events[i + 1]
        /\ 1 \in DOMAIN agent_events /\ e = agent_events[1]
    BY <1>1, <2>1, TailShape, Zenon
  <2>4. ReportsInOrder'
    <3>1. \A i, j \in DOMAIN agent_events' : i < j => i + 1 < j + 1
      BY <2>2
    <3>2. ASSUME NEW i \in DOMAIN agent_events', NEW j \in DOMAIN agent_events', i < j,
                 agent_events'[i].kind = "TurnComplete", agent_events'[j].kind = "TextChunk"
          PROVE  agent_events'[i].turn # agent_events'[j].turn
      BY <2>2, <3>1, <3>2 DEF ReportsInOrder
    <3>3. \A x \in Elems(agent_events') : x.kind = "TurnComplete" => x.turn \in complete'
      BY <2>1 DEF ReportsInOrder
    <3>. QED  BY <3>2, <3>3 DEF ReportsInOrder
  <2>5. \A t : Ended(t) => Ended(t)'
    BY <2>1 DEF Ended
  <2>6. \A t : e.kind = "TurnComplete" /\ e.turn = t => Ended(t)'
    <3>. SUFFICES ASSUME e.kind = "TurnComplete", NEW t, e.turn = t PROVE Ended(t)'
      OBVIOUS
    <3>1. t \in complete'
      BY <2>1 DEF ReportsInOrder
    <3>2. ASSUME NEW x \in Elems(agent_events'), x.kind = "TextChunk" PROVE x.turn # t
      <4>1. PICK j \in DOMAIN agent_events' : x = agent_events'[j]
        BY DEF Elems
      <4>2. j + 1 \in DOMAIN agent_events /\ x = agent_events[j + 1] /\ 1 < j + 1
        <5>1. j \in Nat \ {0} => 1 < j + 1
          OBVIOUS
        <5>. QED  BY <2>2, <4>1, <5>1
      <4>. QED  BY <2>2, <3>2, <4>2 DEF ReportsInOrder
    <3>. QED  BY <3>1, <3>2 DEF Ended
  <2>. QED  BY <2>4, <2>5, <2>6
<1>4. CASE AgentWork
  <2>1. PICK t \in Turn : AgentSays(t) \/ AgentEnds(t)
    BY <1>4 DEF AgentWork, Types, MessageTypes
  <2>2. PICK e \in Events : /\ agent_events' = Append(agent_events, e) /\ t \notin complete
                            /\ e.turn = t
                            /\ \/ e.kind = "TextChunk" /\ complete' = complete
                               \/ e.kind = "TurnComplete" /\ complete' = complete \cup {t}
    <3>1. CASE AgentSays(t)
      <4>. DEFINE w == [kind |-> "TextChunk", turn |-> t]
      <4>1. w \in Events /\ w.turn = t /\ w.kind = "TextChunk"
        BY DEF Events
      <4>2. t \notin complete /\ UNCHANGED complete /\ agent_events' = Append(agent_events, w)
        BY <3>1, PunctualSays, Zenon
      <4>. QED  BY <4>1, <4>2, Zenon
    <3>2. CASE AgentEnds(t)
      BY <3>2 DEF AgentEnds, Events
    <3>. QED  BY <2>1, <3>1, <3>2
  <2>. HIDE DEF Events
  <2>3. Elems(agent_events') = Elems(agent_events) \cup {e}
    BY <1>1, <2>2, ElemsOf
  <2>4. \A u : Ended(u) => Ended(u)'
    BY <2>2, <2>3 DEF Ended
  <2>5. ReportsInOrder'
    <3>1. ASSUME NEW i \in DOMAIN agent_events', NEW j \in DOMAIN agent_events', i < j,
                 agent_events'[i].kind = "TurnComplete", agent_events'[j].kind = "TextChunk"
          PROVE  agent_events'[i].turn # agent_events'[j].turn
      <4>1. /\ i \in DOMAIN agent_events /\ agent_events'[i] = agent_events[i]
            /\ \/ j \in DOMAIN agent_events /\ agent_events'[j] = agent_events[j]
               \/ agent_events'[j] = e
        <5>1. \A k \in DOMAIN agent_events' :
                 \/ k = Len(agent_events) + 1 /\ agent_events'[k] = e
                 \/ k \in DOMAIN agent_events /\ agent_events'[k] = agent_events[k]
          BY <1>1, <2>2, AppendShape
        <5>2. \A k \in DOMAIN agent_events : k < Len(agent_events) + 1 /\ k \in Nat
          BY <1>1, <2>2, AppendShape, Zenon
        <5>3. Len(agent_events) \in Nat
          BY <1>1
        <5>4. i # Len(agent_events) + 1
          BY <3>1, <5>1, <5>2, <5>3
        <5>. QED  BY <5>1, <5>4
      <4>2. agent_events[i] \in Elems(agent_events)
        BY <4>1 DEF Elems
      <4>. QED  BY <2>2, <3>1, <4>1, <4>2 DEF ReportsInOrder
    <3>2. \A x \in Elems(agent_events') : x.kind = "TurnComplete" => x.turn \in complete'
      BY <2>2, <2>3 DEF ReportsInOrder
    <3>. QED  BY <3>1, <3>2 DEF ReportsInOrder
  <2>6. ~ DrainAgent
    <3>1. Len(agent_events) < Len(agent_events')
      BY <1>1, <2>2, AppendShape, Zenon
    <3>2. DrainAgent => Len(agent_events') < Len(agent_events)
      BY <1>1, TailShape DEF DrainAgent
    <3>3. Len(agent_events) \in Nat /\ Len(agent_events') \in Nat
      BY <1>1, <2>2
    <3>. QED  BY <3>1, <3>2, <3>3
  <2>. QED  BY <2>4, <2>5, <2>6
<1>. QED  BY <1>2, <1>3, <1>4, AgentMoves

----------------------------------------------------------------------------
(* The calls, and who speaks. *)

(* The calls that are not about the agent. *)
UserCall ==
  \/ NoCall \/ Control \/ Detectors \/ Tick \/ PushFrame
  \/ \E t \in Turn :
       \/ OnPartialTranscript(t)
       \/ \E text \in Text : OnFinalTranscript(t, text)
       \/ OnFinalTranscriptRejected(t) \/ OnSubmitSucceeded(t)

(* They never set the flag, and end the agent's speech only by silencing it
   first. *)
LEMMA UserCallEffects ==
  ASSUME TurnsOK, UserCall
  PROVE  /\ Called /\ CallEffect /\ ~ Answers
         /\ agent_turn_complete' => agent_turn_complete
         /\ state = "AgentSpeaking" /\ state' # "AgentSpeaking" =>
              1 \in DOMAIN out' /\ out'[1] = CancelPlayback
<1>1. Called /\ CallEffect /\ ~ Answers
  BY OtherCallEffects DEF UserCall, OtherCall
<1>2. ASSUME NEW t \in Turn,
             \/ OnPartialTranscript(t) \/ OnFinalTranscriptRejected(t) \/ OnSubmitSucceeded(t)
             \/ \E text \in Text : OnFinalTranscript(t, text)
      PROVE  /\ UNCHANGED agent_turn_complete
             /\ state = "AgentSpeaking" => state' = "AgentSpeaking"
  BY <1>2
  DEF OnPartialTranscript, OnFinalTranscriptRejected, OnSubmitSucceeded, OnFinalTranscript,
      FinalTranscriptIn, ConfirmGenuineBargeIn, Ignored, machine
<1>3. ASSUME NoCall \/ Detectors \/ PushFrame \/ Control
      PROVE  /\ agent_turn_complete' => agent_turn_complete
             /\ state = "AgentSpeaking" => state' # "Listening"
  BY <1>3
  DEF NoCall, Ignored, machine, Control, Detectors, PushFrame, OnSessionStart, OnSessionEnd,
      EndSession, EndSessionCancelling, OnPttPressed, OnPttReleased, SeizeTurn, OnSpeechStart,
      OnSpeechEnd, OnBargeInConfirmed, ConfirmGenuineBargeIn, Finalize
<1>4. ASSUME Tick
      PROVE  /\ agent_turn_complete' => agent_turn_complete
             /\ state = "AgentSpeaking" => state' # "Listening"
  BY <1>4
  DEF Tick, OnTick, TimePasses, GiveUpOnTurn, BackToListening, Timed, EndSession,
      EndSessionCancelling, ForceEndpoint, RetractBargeIn, Ignored, machine
<1>5. /\ agent_turn_complete' => agent_turn_complete
      /\ state = "AgentSpeaking" => state' # "Listening"
  BY <1>2, <1>3, <1>4 DEF UserCall
<1>6. ASSUME state = "AgentSpeaking", state' # "AgentSpeaking", state' # "Listening"
      PROVE  1 \in DOMAIN out' /\ out'[1] = CancelPlayback
  <2>1. Ends \/ Seizes \/ BargesIn
    BY <1>1, <1>6
    DEF CallEffect, StaysPut, Soft, Starts, Submits, Confirms, Retracts, Moves
  <2>. QED  BY <1>6, <2>1 DEF Ends, Seizes, BargesIn
<1>. QED  BY <1>1, <1>5, <1>6

LEMMA DrainedEffects ==
  ASSUME TurnsOK, NEW t \in Turn, OnPlaybackDrained(t)
  PROVE  /\ Called /\ CallEffect /\ ~ Answers
         /\ agent_turn_complete' => agent_turn_complete
         /\ state = "AgentSpeaking" /\ state' # "AgentSpeaking" =>
              current_turn = t /\ agent_turn_complete
<1>1. Called /\ CallEffect /\ ~ Answers
  BY OtherCallEffects DEF OtherCall
<1>. QED
  BY <1>1 DEF OnPlaybackDrained, IsCurrent, EndTurnReturnToListening, Ignored, machine

LEMMA FlagKept ==
  ASSUME CallEffect, ~ Answers, FlagOK, agent_turn_complete' => agent_turn_complete,
         \A t : Ended(t) => Ended(t)'
  PROVE  FlagOK'
<1>. USE DEF Moves, SameTurn, NewTurn, NoTurns, turnVars
<1>1. \/ state' \notin {"AgentSpeaking", "Interrupting"}
      \/ UNCHANGED <<state, current_turn, pending_cancel_turn>>
      \/ state' = "AgentSpeaking" /\ state = "Interrupting" /\ current_turn' = pending_cancel_turn
      \/ state' = "Interrupting" /\ state = "AgentSpeaking" /\ pending_cancel_turn' = current_turn
  BY DEF CallEffect, StaysPut, Soft, Starts, Ends, Submits, Confirms, Seizes, BargesIn, Retracts
<1>2. PICK c, p : c = current_turn' /\ p = pending_cancel_turn'
  OBVIOUS
<1>3. agent_turn_complete' =>
        /\ state' = "AgentSpeaking" => Ended(c)
        /\ state' = "Interrupting" => Ended(p)
  BY <1>1, <1>2 DEF FlagOK
<1>. QED  BY <1>2, <1>3 DEF FlagOK

(* The end of the agent's turn, while it speaks. *)
LEMMA CompleteFlag ==
  ASSUME TurnsOK, NEW t \in Turn, OnAgentTurnComplete(t), FlagOK, Ended(t)',
         \A u : Ended(u) => Ended(u)'
  PROVE  /\ FlagOK' /\ (state = "AgentSpeaking" => state' = "AgentSpeaking")
<1>1. CallEffect /\ ~ Answers
  BY OtherCallEffects DEF OtherCall
<1>2. CASE agent_turn_complete' => agent_turn_complete
  BY <1>1, <1>2, FlagKept
  DEF OnAgentTurnComplete, EndTurnReturnToListening, Ignored, machine
<1>3. CASE ~ (agent_turn_complete' => agent_turn_complete)
  <2>1. current_turn = t /\ state = "AgentSpeaking" /\ UNCHANGED <<state, turnVars>>
    BY <1>3 DEF OnAgentTurnComplete, IsCurrent, EndTurnReturnToListening, Ignored, machine
  <2>2. current_turn' = t /\ state' = "AgentSpeaking"
    BY <2>1 DEF turnVars
  <2>. QED  BY <2>1, <2>2 DEF FlagOK
<1>. QED  BY <1>2, <1>3

(* The first text clears the flag of an earlier reply. *)
LEMMA TextFlag ==
  ASSUME TurnsOK, NEW t \in Turn, OnAgentTextArrived(t), FlagOK, \A u : Ended(u) => Ended(u)'
  PROVE  FlagOK' /\ (state = "AgentSpeaking" => state' = "AgentSpeaking")
<1>1. CASE Ignored
  <2>1. UNCHANGED <<state, current_turn, pending_cancel_turn, agent_turn_complete>>
    BY <1>1 DEF Ignored, machine, turnVars
  <2>2. PICK c, p : c = current_turn' /\ p = pending_cancel_turn'
    OBVIOUS
  <2>. QED  BY <2>1, <2>2 DEF FlagOK
<1>2. CASE agent_turn_complete' = FALSE /\ state' = "AgentSpeaking"
  BY <1>2 DEF FlagOK
<1>. QED  BY <1>1, <1>2 DEF OnAgentTextArrived

(* Which call of the machine a step makes. *)
LEMMA CallOfStep ==
  ASSUME Types, [PNext]_pvars
  PROVE  UNCHANGED machine \/ UserCall \/ DrainAgent \/ \E t \in Turn : OnPlaybackDrained(t)
<1>. DEFINE o == Head(agenda)
<1>1. CASE Act
  <2>0. o \in Items
    BY <1>1, HeadItem DEF Act, Types, LoopTypes
  <2>1. CASE FinishTurnIfSilent(o)
    <3>1. o.turn \in Turn
      BY <2>0, <2>1, ItemFields DEF FinishTurnIfSilent
    <3>. QED  BY <2>1, <3>1 DEF FinishTurnIfSilent, SignalDrained, NoCall
  <2>2. CASE ActSubmit(o)
    <3>1. o.turn \in Turn
      BY <2>0, <2>2, ItemFields DEF ActSubmit
    <3>. QED  BY <2>2, <3>1 DEF ActSubmit, UserCall
  <2>3. CASE CallMachine(o)
    BY <2>0, <2>3, ItemFields DEF CallMachine, UserCall, Control
  <2>4. CASE DetectSpeech(o)
    BY <2>4 DEF DetectSpeech, UserCall, Detectors
  <2>5. CASE \/ ActCapture(o) \/ ActPlayback(o) \/ ActCancelSynthesis(o) \/ ActReplay(o)
             \/ ActState(o) \/ SynthesizeChunk(o) \/ ResetRecognizer(o) \/ TranscribeFrame(o)
    BY <2>5
    DEF ActCapture, ActPlayback, ActCancelSynthesis, ActReplay, ActState, ActStateResetting,
        SynthesizeChunk, ResetRecognizer, TranscribeFrame, NoCall
  <2>. QED  BY <1>1, <2>1, <2>2, <2>3, <2>4, <2>5 DEF Act
<1>2. CASE DrainControl \/ Shutdown \/ TickMachine \/ PumpFrame
  BY <1>2 DEF DrainControl, Shutdown, TickMachine, PumpFrame, UserCall, Control, NoCall
<1>3. CASE NoFrame \/ CheckDevice \/ SttDrained \/ AgentDrained \/ DrainTts \/ TtsDrained
  BY <1>3 DEF NoFrame, CheckDevice, SttDrained, AgentDrained, DrainTts, TtsDrained, NoCall
<1>4. CASE DrainStt
  <2>. DEFINE r == Head(stt_results)
  <2>1. r.turn \in Turn
    <3>1. r \in SttResults
      BY <1>4 DEF DrainStt, Types, MessageTypes
    <3>. QED  BY <3>1 DEF SttResults
  <2>. QED  BY <1>4, <2>1 DEF DrainStt, HandlePartial, HandleFinal, UserCall, NoCall
<1>5. CASE FeedPlayback
  <2>1. playback.live_turn \in Turn \cup {NoTurn}
    BY DEF Types, LoopTypes, PlaybackStates
  <2>. QED  BY <1>5, <2>1 DEF FeedPlayback, Feed, FeedEndingIf, SignalDrained, NoCall
<1>6. CASE \/ SttWork \/ SttDies \/ TtsWork \/ TtsDies \/ AgentWork \/ PlayOut
           \/ UNCHANGED pvars
  BY <1>6
  DEF SttWork, SttDies, TtsWork, TtsDies, AgentWork, PlayOut, OrchestratorIdle, vars, pvars
<1>. QED
  BY <1>1, <1>2, <1>3, <1>4, <1>5, <1>6 DEF PNext, Orchestrate, Stopped

LEMMA EventTurn ==
  ASSUME Types, DrainAgent
  PROVE  /\ Head(agent_events) \in Elems(agent_events)
         /\ Head(agent_events).turn \in Turn
<1>1. agent_events \in Seq(Events) /\ agent_events # <<>>
  BY DEF DrainAgent, Types, MessageTypes, Events
<1>2. Head(agent_events) \in Events /\ Head(agent_events) \in Elems(agent_events)
  <2>. HIDE DEF Events
  <2>. QED  BY <1>1, ElemsOf
<1>. QED  BY <1>2 DEF Events

LEMMA FlagStep ==
  ASSUME Punctual, Types, ReportsInOrder, FlagOK, [PNext]_pvars
  PROVE  FlagOK'
<1>0. TurnsOK /\ \A t : Ended(t) => Ended(t)'
  BY EndedStep DEF Types, MachineTypes
<1>1. CASE UNCHANGED machine
  <2>1. UNCHANGED <<state, current_turn, pending_cancel_turn, agent_turn_complete>>
    BY <1>1 DEF machine, turnVars
  <2>2. PICK c, p : c = current_turn' /\ p = pending_cancel_turn'
    OBVIOUS
  <2>. QED  BY <1>0, <2>1, <2>2 DEF FlagOK
<1>2. CASE UserCall
  BY <1>0, <1>2, UserCallEffects, FlagKept
<1>3. ASSUME NEW t \in Turn, OnPlaybackDrained(t) PROVE FlagOK'
  BY <1>0, <1>3, DrainedEffects, FlagKept
<1>4. CASE DrainAgent
  <2>. DEFINE e == Head(agent_events)
  <2>0. e.turn \in Turn
    BY <1>4, EventTurn
  <2>1. CASE e.kind = "TextChunk" /\ HandleTextChunk(e.turn)
    <3>1. UNCHANGED machine \/ OnAgentTextArrived(e.turn)
      BY <2>1 DEF HandleTextChunk, NoCall
    <3>. QED  BY <1>0, <1>1, <2>0, <3>1, TextFlag
  <2>2. ASSUME NEW t \in Turn, t = e.turn, e.kind = "TurnComplete", OnAgentTurnComplete(t)
        PROVE  FlagOK'
    <3>1. Ended(t)'
      BY <1>4, <2>2, EndedStep
    <3>. QED  BY <1>0, <2>2, <3>1, CompleteFlag
  <2>. QED  BY <1>4, <2>0, <2>1, <2>2 DEF DrainAgent
<1>. QED  BY <1>1, <1>2, <1>3, <1>4, CallOfStep DEF Types

(* The few steps that change what may be heard. *)
LEMMA PlaybackMoves ==
  ASSUME [PNext]_pvars
  PROVE  \/ UNCHANGED playback
         \/ Act /\ (ActPlayback(Head(agenda)) \/ ActCancelSynthesis(Head(agenda)))
         \/ DrainAgent \/ DrainTts \/ FeedPlayback
<1>1. CASE Act /\ ~ ActPlayback(Head(agenda)) /\ ~ ActCancelSynthesis(Head(agenda))
  BY <1>1
  DEF Act, ActCapture, ActSubmit, ActReplay, ActState, ActStateResetting, CallMachine,
      SynthesizeChunk, FinishTurnIfSilent, ResetRecognizer, DetectSpeech, TranscribeFrame, playVars
<1>2. CASE DrainControl \/ Shutdown \/ TickMachine \/ PumpFrame \/ NoFrame \/ CheckDevice
           \/ DrainStt \/ SttDrained \/ AgentDrained \/ TtsDrained
  BY <1>2
  DEF DrainControl, Shutdown, TickMachine, PumpFrame, NoFrame, CheckDevice, DrainStt, SttDrained,
      AgentDrained, TtsDrained, LoopOnly, playVars
<1>3. CASE \/ SttWork \/ SttDies \/ TtsWork \/ TtsDies \/ AgentWork \/ PlayOut
           \/ UNCHANGED pvars
  BY <1>3
  DEF SttWork, SttDies, TtsWork, TtsDies, AgentWork, PlayOut, OrchestratorIdle, pvars, playVars
<1>. QED  BY <1>1, <1>2, <1>3 DEF PNext, Orchestrate, Stopped

LEMMA FedBounds ==
  ASSUME Types
  PROVE  FedCount \in Nat /\ FedCount <= Len(playback.live) /\ Len(playback.live) \in Nat
<1>1. ahead \in Int /\ ahead <= Lead /\ Lead \in Nat /\ Len(playback.live) \in Nat
  <2>1. playback.live \in Seq(Piece)
    BY DEF Types, LoopTypes, PlaybackStates
  <2>. HIDE DEF Piece
  <2>. QED  BY <2>1, PipelineAssumption DEF Types, LoopTypes
<1>. QED  BY <1>1 DEF FedCount, Resident

LEMMA OwnStep ==
  ASSUME Types, AgreeInv, OwnPieces(playback), [PNext]_pvars
  PROVE  OwnPieces(playback')
<1>0. playback \in PlaybackStates
  BY DEF Types, LoopTypes
<1>1. CASE Act /\ (ActPlayback(Head(agenda)) \/ ActCancelSynthesis(Head(agenda)))
  <2>1. Head(agenda) \in Items
    BY <1>1, HeadItem DEF Act, Types, LoopTypes
  <2>2. Head(agenda).kind \in {"ResumeSpeaking", "CancelSynthesis"} => Head(agenda).turn \in Turn
    BY <2>1, ItemFields
  <2>. QED  BY <1>0, <1>1, <2>2, OwnKept DEF ActPlayback, ActCancelSynthesis
<1>2. CASE DrainAgent
  BY <1>0, <1>2, OwnKept, EventTurn DEF DrainAgent, HandleTextChunk
<1>3. CASE DrainTts
  <2>1. Head(tts_results).turn \in Turn
    <3>. DEFINE P == [kind : {"Synthesize"}, turn : Turn]
    <3>1. Head(tts_results) \in P
      <4>1. tts_results \in Seq(P) /\ tts_results # <<>>
        BY <1>3 DEF DrainTts, Types, MessageTypes
      <4>. HIDE DEF P
      <4>. QED  BY <4>1
    <3>. QED  BY <3>1
  <2>2. Pieces \subseteq Nat
    BY PipelineAssumption
  <2>. QED  BY <1>0, <1>3, <2>1, <2>2, OwnKept DEF DrainTts, RouteChunk
<1>4. CASE FeedPlayback
  <2>1. FedCount \in Nat
    BY FedBounds
  <2>2. playback' = PB!TakeLive(playback, FedCount)
    BY <1>4 DEF FeedPlayback, Feed, FeedEndingIf
  <2>. QED  BY <1>0, <2>1, <2>2, OwnKept
<1>. QED  BY <1>1, <1>2, <1>3, <1>4, PlaybackMoves

LEMMA RestingStep ==
  ASSUME Resting, [PNext]_pvars
  PROVE  Resting'
<1>1. CASE Act
  <2>1. UNCHANGED phase
    BY <1>1
    DEF Act, ActCapture, ActPlayback, ActCancelSynthesis, ActSubmit, ActReplay, ActState,
        ActStateResetting, CallMachine, SynthesizeChunk, FinishTurnIfSilent, ResetRecognizer,
        DetectSpeech, TranscribeFrame
  <2>. QED  BY <1>1, <2>1 DEF Resting, Act
<1>2. CASE DrainControl \/ Shutdown \/ TickMachine \/ PumpFrame \/ NoFrame \/ CheckDevice
           \/ DrainStt \/ SttDrained \/ DrainAgent \/ FeedPlayback
  BY <1>2
  DEF DrainControl, Shutdown, TickMachine, PumpFrame, NoFrame, CheckDevice, DrainStt, SttDrained,
      DrainAgent, FeedPlayback, Resting
<1>3. CASE AgentDrained \/ DrainTts \/ TtsDrained
  BY <1>3 DEF AgentDrained, DrainTts, TtsDrained, Idling, Resting
<1>4. CASE \/ SttWork \/ SttDies \/ TtsWork \/ TtsDies \/ AgentWork \/ PlayOut
           \/ UNCHANGED pvars
  BY <1>4
  DEF SttWork, SttDies, TtsWork, TtsDies, AgentWork, PlayOut, OrchestratorIdle, pvars, loopVars,
      Resting
<1>. QED  BY <1>1, <1>2, <1>3, <1>4 DEF PNext, Orchestrate, Stopped

----------------------------------------------------------------------------
(* Who does not speak is silent. *)

LEMMA StaysOver ==
  ASSUME Punctual, Types, Types', AgreeInv, ReportsInOrder, [PNext]_pvars,
         NEW t \in Turn, Over(t)
  PROVE  Over(t)'
<1>1. Ended(t)'
  BY EndedStep DEF Over
<1>2. ~ (DrainAgent /\ Head(agent_events).kind = "TextChunk" /\ Head(agent_events).turn = t)
  BY EventTurn DEF Over, Ended
<1>3. ~ OnItsWay(t)'
  BY <1>2, OnItsWayStep DEF Over
<1>. QED  BY <1>1, <1>3 DEF Over

LEMMA HushKept ==
  ASSUME Punctual, Types, Types', AgreeInv, ReportsInOrder, [PNext]_pvars, Hush,
         playback'.live = <<>>, playback'.live_turn \in {NoTurn, playback.live_turn}
  PROVE  Hush'
<1>1. CASE playback'.live_turn = NoTurn
  BY <1>1 DEF Hush
<1>2. ASSUME NEW t, t = playback.live_turn, t # NoTurn, playback'.live_turn = t PROVE Hush'
  <2>1. t \in Turn /\ Over(t)
    BY <1>2 DEF Types, LoopTypes, PlaybackStates, Hush
  <2>2. Over(t)'
    BY <2>1, StaysOver
  <2>. QED  BY <1>2, <2>2 DEF Hush
<1>. QED  BY <1>1, <1>2

(* A step that neither ends the agent's speech nor makes another turn heard. *)
LEMMA QuietSilent ==
  ASSUME Punctual, Types, Types', AgreeInv, ReportsInOrder, [PNext]_pvars,
         Silent, ~ Kind(agenda, 1, "CancelPlayback"),
         state = "AgentSpeaking" => state' = "AgentSpeaking",
         playback.live = <<>> => playback'.live = <<>>,
         playback'.live_turn \in {NoTurn, playback.live_turn}
  PROVE  Silent'
<1>1. CASE state = "AgentSpeaking"
  BY <1>1 DEF Silent
<1>2. CASE Hush
  <2>1. Hush'
    BY <1>2, HushKept DEF Hush
  <2>. QED  BY <2>1 DEF Silent
<1>. QED  BY <1>1, <1>2 DEF Silent

(* A call that is not about the agent. *)
LEMMA CallSilent ==
  ASSUME Punctual, Types, Types', AgreeInv, ReportsInOrder, [PNext]_pvars,
         Silent, ~ Kind(agenda, 1, "CancelPlayback"),
         UserCall, NEW rest \in Seq(Items), ActOnOutputsThen(rest), UNCHANGED playback
  PROVE  Silent'
<1>0. TurnsOK /\ MachineTypes'
  BY DEF Types, MachineTypes
<1>1. CASE state = "AgentSpeaking" => state' = "AgentSpeaking"
  BY <1>1, QuietSilent
<1>2. CASE state = "AgentSpeaking" /\ state' # "AgentSpeaking"
  <2>1. 1 \in DOMAIN out' /\ out'[1] = CancelPlayback
    BY <1>0, <1>2, UserCallEffects
  <2>2. out' \in Seq(Items) /\ agenda' = out' \o rest
    BY <1>0, CallAgenda DEF ActOnOutputsThen
  <2>3. 1 \in DOMAIN agenda' /\ agenda'[1] = out'[1]
    <3>1. \A s \in Seq(Items) : 1 \in DOMAIN s => 1 \in DOMAIN (s \o rest) /\ (s \o rest)[1] = s[1]
      <4>. HIDE DEF Items
      <4>. QED  OBVIOUS
    <3>. QED  BY <2>1, <2>2, <3>1
  <2>4. Kind(agenda', 1, "CancelPlayback")
    BY <2>1, <2>3 DEF Kind, CancelPlayback, Plain
  <2>. QED  BY <2>4 DEF Silent
<1>. QED  BY <1>1, <1>2

(* A turn that is over to the agent, and of which the playback waits for
   nothing, is over. *)
LEMMA PlayedOut ==
  ASSUME Types, PendingCoversPhrases, NEW t \in Turn, Ended(t), PB!Recognises(playback, t),
         tts_pending[t] = 0, ~ Mentions(agenda, t)
  PROVE  Over(t)
<1>1. InFlight(t) <= 0 /\ InFlight(t) \in Nat
  BY FlightType DEF PendingCoversPhrases
<1>2. ~ (InFlight(t) > 0)
  BY <1>1
<1>. QED  BY <1>2 DEF Over, OnItsWay

(* The end of a turn that has been heard. *)
LEMMA DrainedSilent ==
  ASSUME Punctual, Types, Types', AgreeInv, ReportsInOrder, PendingCoversPhrases, FlagOK,
         [PNext]_pvars, Silent, ~ Kind(agenda, 1, "CancelPlayback"),
         NEW t \in Turn, OnPlaybackDrained(t), tts_pending[t] = 0, ~ Mentions(agenda, t),
         state = "AgentSpeaking" /\ current_turn = t =>
           playback.live_turn = t /\ playback'.live = <<>>,
         playback.live = <<>> => playback'.live = <<>>,
         playback'.live_turn = playback.live_turn
  PROVE  Silent'
<1>0. TurnsOK
  BY DEF Types, MachineTypes
<1>1. CASE state = "AgentSpeaking" => state' = "AgentSpeaking"
  BY <1>1, QuietSilent
<1>2. CASE state = "AgentSpeaking" /\ state' # "AgentSpeaking"
  <2>1. current_turn = t /\ agent_turn_complete
    BY <1>0, <1>2, DrainedEffects
  <2>2. Ended(t) /\ playback.live_turn = t /\ playback'.live = <<>>
    BY <1>2, <2>1 DEF FlagOK
  <2>3. Over(t)
    BY <2>2, PlayedOut DEF PB!Recognises, PB!IsLive
  <2>4. Over(t)'
    BY <2>3, StaysOver
  <2>5. playback'.live_turn = t
    BY <2>2
  <2>6. Hush'
    BY <2>2, <2>4, <2>5 DEF Hush
  <2>. QED  BY <2>6 DEF Silent
<1>. QED  BY <1>1, <1>2

LEMMA ActPlaybackSilent ==
  ASSUME Punctual, Types, Types', AgreeInv, ReportsInOrder, OwnPieces(playback), [PNext]_pvars,
         Silent, agenda # <<>>,
         ActPlayback(Head(agenda)) \/ ActCancelSynthesis(Head(agenda))
  PROVE  Silent'
<1>. DEFINE o == Head(agenda)
<1>0. /\ playback \in PlaybackStates /\ o = agenda[1] /\ 1 \in DOMAIN agenda
      /\ UNCHANGED state
  BY HeadItem DEF Types, LoopTypes, ActPlayback, ActCancelSynthesis, NoCall, machine
<1>1. CASE o.kind = "CancelPlayback"
  <2>1. playback' = PB!CancelPlayback(playback)
    BY <1>1 DEF ActPlayback, ActCancelSynthesis
  <2>2. playback'.live = <<>> /\ playback'.live_turn = NoTurn
    BY <1>0, <2>1, Silencing, EmptyOwn DEF PlaybackStates
  <2>. QED  BY <2>2 DEF Silent, Hush
<1>2. CASE o.kind \in {"ShowPartial", "FlushOutputBuffer", "CancelSynthesis"}
  <2>1. ~ Kind(agenda, 1, "CancelPlayback")
    BY <1>0, <1>2 DEF Kind
  <2>2. /\ playback.live = <<>> => playback'.live = <<>>
        /\ playback'.live_turn \in {NoTurn, playback.live_turn}
    <3>1. CASE o.kind = "ShowPartial"
      BY <3>1 DEF ActPlayback, ActCancelSynthesis
    <3>2. CASE o.kind = "FlushOutputBuffer"
      BY <1>0, <3>2, Silencing, ZenonT(30) DEF ActPlayback, ActCancelSynthesis, PlaybackStates
    <3>3. CASE o.kind = "CancelSynthesis"
      BY <1>0, <3>3
      DEF ActPlayback, ActCancelSynthesis, PB!CancelSynthesis, PB!IsLive, PB!IsPaused,
          PB!Unparked, PB!Silenced, PB!NoTurn, NoTurn, PlaybackStates
    <3>. QED  BY <1>2, <3>1, <3>2, <3>3
  <2>. QED  BY <1>0, <2>1, <2>2, QuietSilent
<1>3. CASE o.kind = "ResumeSpeaking"
  <2>1. state = "AgentSpeaking"
    <3>1. Kind(agenda, 1, "ResumeSpeaking")
      BY <1>0, <1>3 DEF Kind
    <3>. QED  BY <3>1 DEF AgreeInv, Behind, Calm, Cuts, LightFrom, Kind, Weighty, Resuming
  <2>. QED  BY <1>0, <2>1 DEF Silent
<1>. QED  BY <1>1, <1>2, <1>3 DEF ActPlayback, ActCancelSynthesis

LEMMA ActSilent ==
  ASSUME Punctual, Types, Types', AgreeInv, PendingCoversPhrases, SpokenInv, [PNext]_pvars, Act
  PROVE  Silent'
<1>. DEFINE o == Head(agenda)
<1>0. /\ agenda \in Seq(Items) /\ agenda # <<>> /\ o \in Items /\ Rest \in Seq(Items)
      /\ o = agenda[1] /\ 1 \in DOMAIN agenda
      /\ ReportsInOrder /\ FlagOK /\ Silent /\ OwnPieces(playback)
  BY HeadItem DEF Types, LoopTypes, Act, Rest, SpokenInv
<1>1. o.kind # "CancelPlayback" => ~ Kind(agenda, 1, "CancelPlayback")
  BY <1>0 DEF Kind
<1>2. CASE ActPlayback(o) \/ ActCancelSynthesis(o)
  BY <1>0, <1>2, ActPlaybackSilent
<1>3. CASE \/ ActCapture(o) \/ ActReplay(o) \/ ActState(o) \/ SynthesizeChunk(o)
           \/ ResetRecognizer(o) \/ TranscribeFrame(o)
  <2>1. UNCHANGED <<state, playback>> /\ o.kind # "CancelPlayback"
    BY <1>3
    DEF ActCapture, ActReplay, ActState, ActStateResetting, SynthesizeChunk, ResetRecognizer,
        TranscribeFrame, NoCall, machine, playVars
  <2>2. /\ playback.live = <<>> => playback'.live = <<>>
        /\ playback'.live_turn \in {NoTurn, playback.live_turn}
        /\ state = "AgentSpeaking" => state' = "AgentSpeaking"
    BY <2>1
  <2>. QED  BY <1>0, <1>1, <2>1, <2>2, QuietSilent
<1>4. CASE ActSubmit(o) \/ CallMachine(o) \/ DetectSpeech(o)
  <2>1. o.kind # "CancelPlayback" /\ UNCHANGED playback /\ ActOnOutputsThen(Rest)
    BY <1>4 DEF ActSubmit, CallMachine, DetectSpeech, playVars
  <2>2. UserCall
    BY <1>0, <1>4, ItemFields
    DEF ActSubmit, CallMachine, DetectSpeech, UserCall, Control, Detectors
  <2>. QED  BY <1>0, <1>1, <2>1, <2>2, CallSilent
<1>5. CASE FinishTurnIfSilent(o)
  <2>1. o.kind = "FinishIfSilent" /\ UNCHANGED playback /\ o.turn \in Turn
    BY <1>0, <1>5, ItemFields DEF FinishTurnIfSilent
  <2>2. CASE NoCall
    <3>1. /\ playback.live = <<>> => playback'.live = <<>>
          /\ playback'.live_turn \in {NoTurn, playback.live_turn}
          /\ state = "AgentSpeaking" => state' = "AgentSpeaking"
      BY <2>1, <2>2 DEF NoCall, machine
    <3>. QED  BY <1>0, <1>1, <2>1, <3>1, QuietSilent
  <2>3. ASSUME NEW t \in Turn, t = o.turn, NothingLeftToPlay(t), OnPlaybackDrained(t)
        PROVE  Silent'
    <3>1. ~ Mentions(agenda, t)
      <4>1. o \in Elems(agenda)
        BY <1>0 DEF Elems
      <4>. QED  BY <2>1, <4>1 DEF Mentions, Elems, SpokenInv, EndsApart
    <3>2. Settled
      BY <1>0, <2>1, LightHead DEF Types, AgreeInv, Weighty
    <3>3. CASE PB!Recognises(playback, t)
      <4>1. tts_pending[t] = 0 /\ playback.live_turn = t /\ playback.live = <<>>
        BY <2>3, <3>3 DEF NothingLeftToPlay, PB!IsLive
      <4>2. /\ playback.live = <<>> => playback'.live = <<>>
            /\ playback'.live_turn = playback.live_turn /\ playback'.live = <<>>
        BY <2>1, <4>1
      <4>. QED  BY <1>0, <1>1, <2>1, <2>3, <3>1, <4>1, <4>2, DrainedSilent
    <3>4. CASE ~ PB!Recognises(playback, t)
      <4>1. ~ (state = "AgentSpeaking" /\ current_turn = t)
        BY <3>2, <3>4 DEF Settled, Agree, PB!Recognises, PB!IsLive
      <4>2. state = "AgentSpeaking" => state' = "AgentSpeaking"
        BY <2>3, <4>1, DrainedEffects DEF Types, MachineTypes
      <4>3. /\ playback.live = <<>> => playback'.live = <<>>
            /\ playback'.live_turn \in {NoTurn, playback.live_turn}
        BY <2>1
      <4>. QED  BY <1>0, <1>1, <2>1, <4>2, <4>3, QuietSilent
    <3>. QED  BY <3>3, <3>4
  <2>. QED  BY <1>5, <2>1, <2>2, <2>3 DEF FinishTurnIfSilent, SignalDrained
<1>. QED  BY <1>2, <1>3, <1>4, <1>5 DEF Act

LEMMA TextSilent ==
  ASSUME Punctual, Types, Types', AgreeInv, ReportsInOrder, [PNext]_pvars, Silent, Settled,
         ~ Kind(agenda, 1, "CancelPlayback"), NEW t \in asked, HandleTextChunk(t)
  PROVE  Silent'
<1>1. t \in Turn /\ TurnsOK
  BY DEF Types, MachineTypes, MessageTypes
<1>2. CASE UNCHANGED playback
  <2>1. state = "AgentSpeaking" => state' = "AgentSpeaking"
    BY DEF HandleTextChunk, NoCall, machine, OnAgentTextArrived, Ignored
  <2>2. /\ playback.live = <<>> => playback'.live = <<>>
        /\ playback'.live_turn \in {NoTurn, playback.live_turn}
    BY <1>2
  <2>. QED  BY <2>1, <2>2, QuietSilent
<1>3. CASE ~ UNCHANGED playback
  <2>1. ~ PB!Recognises(playback, t) /\ current_turn = t /\ OnAgentTextArrived(t)
    BY <1>3 DEF HandleTextChunk
  <2>2. state = "AwaitingAgent"
    BY <2>1 DEF AgreeInv, AskedOK, Settled, Agree, PB!Recognises, PB!IsLive
  <2>3. state' = "AgentSpeaking"
    BY <2>1, <2>2 DEF OnAgentTextArrived, IsCurrent
  <2>. QED  BY <2>3 DEF Silent
<1>. QED  BY <1>2, <1>3

(* What comes back is not of a turn that is over. *)
LEMMA ResultSilent ==
  ASSUME Punctual, Types, Types', AgreeInv, ReportsInOrder, [PNext]_pvars, Silent, DrainTts
  PROVE  Silent'
<1>1. UNCHANGED <<state, agenda>> /\ playback \in PlaybackStates
  BY DEF DrainTts, NoCall, machine, Types, LoopTypes
<1>2. CASE state = "AgentSpeaking" \/ Kind(agenda, 1, "CancelPlayback")
  BY <1>1, <1>2 DEF Silent
<1>3. CASE Hush
  <2>1. PICK t \in Turn : t = Head(tts_results).turn /\ Underway(t)
    <3>. DEFINE P == [kind : {"Synthesize"}, turn : Turn]
                r == Head(tts_results)
    <3>1. r \in P /\ r \in Elems(tts_results)
      <4>1. tts_results \in Seq(P) /\ tts_results # <<>>
        BY DEF DrainTts, Types, MessageTypes
      <4>. HIDE DEF P
      <4>. QED  BY <4>1, ElemsOf
    <3>2. r.turn \in Turn /\ r = Phrase(r.turn)
      BY <3>1 DEF Phrase
    <3>. QED  BY <3>1, <3>2 DEF Underway
  <2>2. playback.live_turn # t
    <3>1. OnItsWay(t)
      BY <2>1, FlightElems DEF OnItsWay
    <3>2. t # NoTurn
      BY DEF Turn, NoTurn
    <3>. QED  BY <1>3, <3>1, <3>2, Zenon DEF Hush, Over
  <2>3. playback'.live = playback.live /\ playback'.live_turn = playback.live_turn
    BY <1>1, <2>1, <2>2
    DEF DrainTts, RouteChunk, PB!RouteSynthesized, PB!IsLive, PlaybackStates
  <2>4. Hush'
    BY <1>3, <2>3, HushKept DEF Hush
  <2>. QED  BY <2>4 DEF Silent
<1>. QED  BY <1>2, <1>3 DEF Silent

(* What is taken from a queue that is fed to its end. *)
LEMMA FedAway ==
  ASSUME Types, FeedPlayback
  PROVE  /\ playback'.live_turn = playback.live_turn
         /\ playback.live = <<>> => playback'.live = <<>>
         /\ RunsDry => playback'.live = <<>>
<1>1. playback \in PlaybackStates /\ playback' = PB!TakeLive(playback, FedCount)
  BY DEF Types, LoopTypes, FeedPlayback, Feed, FeedEndingIf
<1>2. /\ playback'.live_turn = playback.live_turn
      /\ playback'.live = SubSeq(playback.live, FedCount + 1, Len(playback.live))
  BY <1>1 DEF PB!TakeLive, PlaybackStates
<1>3. FedCount \in Nat /\ FedCount <= Len(playback.live)
  BY FedBounds
<1>4. FedCount = Len(playback.live) => playback'.live = <<>>
  <2>1. \A s \in Seq(Piece) : SubSeq(s, Len(s) + 1, Len(s)) = <<>>
    <3>. HIDE DEF Piece
    <3>. QED  OBVIOUS
  <2>. QED  BY <1>1, <1>2, <2>1 DEF PlaybackStates
<1>5. playback.live = <<>> => FedCount = Len(playback.live)
  BY <1>3
<1>. QED  BY <1>2, <1>4, <1>5 DEF RunsDry

LEMMA FeedSilent ==
  ASSUME Punctual, Types, Types', AgreeInv, PendingCoversPhrases, SpokenInv, [PNext]_pvars,
         FeedPlayback, Settled
  PROVE  Silent'
<1>0. /\ ReportsInOrder /\ FlagOK /\ Silent /\ agenda = <<>>
      /\ ~ Kind(agenda, 1, "CancelPlayback")
  BY DEF SpokenInv, FeedPlayback, Idling, Kind
<1>1. /\ playback'.live_turn = playback.live_turn
      /\ playback.live = <<>> => playback'.live = <<>>
      /\ RunsDry => playback'.live = <<>>
  BY FedAway
<1>2. CASE NoCall
  <2>1. state = "AgentSpeaking" => state' = "AgentSpeaking"
    BY <1>2 DEF NoCall, machine
  <2>. QED  BY <1>0, <1>1, <2>1, QuietSilent
<1>3. ASSUME NEW t \in Turn, t = playback.live_turn, OnPlaybackDrained(t), RunsDry,
             tts_pending[t] = 0
      PROVE  Silent'
  <2>1. ~ Mentions(agenda, t)
    BY <1>0 DEF Mentions
  <2>2. state = "AgentSpeaking" /\ current_turn = t =>
          playback.live_turn = t /\ playback'.live = <<>>
    BY <1>1, <1>3
  <2>. QED  BY <1>0, <1>1, <1>3, <2>1, <2>2, DrainedSilent
<1>4. playback.live_turn \in Turn \cup {NoTurn}
  BY DEF Types, LoopTypes, PlaybackStates
<1>. QED  BY <1>2, <1>3, <1>4 DEF FeedPlayback, Feed, FeedEndingIf, SignalDrained

LEMMA LoopSilent ==
  ASSUME Punctual, Types, Types', AgreeInv, PendingCoversPhrases, SpokenInv, [PNext]_pvars,
         Orchestrate, ~ Act
  PROVE  Silent'
<1>0. /\ agenda = <<>> /\ ~ Kind(agenda, 1, "CancelPlayback") /\ <<>> \in Seq(Items)
      /\ ReportsInOrder /\ FlagOK /\ Silent /\ Settled
  <2>1. agenda = <<>>
    BY DEF Orchestrate, DrainControl, Shutdown, TickMachine, PumpFrame, NoFrame, CheckDevice,
           DrainStt, SttDrained, DrainAgent, AgentDrained, DrainTts, TtsDrained, FeedPlayback,
           Idling
  <2>. QED  BY <2>1, LightHead, Agendas DEF Types, AgreeInv, SpokenInv, Kind
<1>1. ASSUME UNCHANGED <<state, playback>> PROVE Silent'
  <2>1. /\ playback.live = <<>> => playback'.live = <<>>
        /\ playback'.live_turn \in {NoTurn, playback.live_turn}
        /\ state = "AgentSpeaking" => state' = "AgentSpeaking"
    BY <1>1
  <2>. QED  BY <1>0, <2>1, QuietSilent
<1>2. CASE DrainControl \/ Shutdown \/ TickMachine
  <2>1. UserCall /\ ActOnOutputsThen(<<>>) /\ UNCHANGED playback
    BY <1>2
    DEF DrainControl, Shutdown, TickMachine, UserCall, Control, LoopOnly, playVars
  <2>. QED  BY <1>0, <2>1, CallSilent
<1>3. CASE PumpFrame \/ NoFrame \/ CheckDevice \/ SttDrained \/ AgentDrained \/ TtsDrained
  <2>1. UNCHANGED <<state, playback>>
    BY <1>3
    DEF PumpFrame, NoFrame, CheckDevice, SttDrained, AgentDrained, TtsDrained, PushFrame, NoCall,
        machine, LoopOnly, playVars
  <2>. QED  BY <1>1, <2>1
<1>4. CASE DrainStt
  <2>. DEFINE r == Head(stt_results)
  <2>1. CASE HandlePartial(r)
    <3>1. r.turn \in Turn
      <4>1. r \in SttResults
        BY <1>4 DEF DrainStt, Types, MessageTypes
      <4>. QED  BY <4>1 DEF SttResults
    <3>2. UserCall /\ ActOnOutputsThen(<<>>) /\ UNCHANGED playback
      BY <1>4, <2>1, <3>1 DEF DrainStt, HandlePartial, UserCall
    <3>. QED  BY <1>0, <3>2, CallSilent
  <2>2. CASE HandleFinal(r)
    <3>1. UNCHANGED <<state, playback>>
      BY <1>4, <2>2 DEF DrainStt, HandleFinal, NoCall, machine
    <3>. QED  BY <1>1, <3>1
  <2>. QED  BY <1>4, <2>1, <2>2 DEF DrainStt
<1>5. CASE DrainAgent
  <2>. DEFINE e == Head(agent_events)
  <2>0. e.turn \in asked /\ e.turn \in Turn
    <3>1. e \in Elems(agent_events) /\ e.turn \in Turn
      BY <1>5, EventTurn
    <3>. QED  BY <3>1 DEF Elems, AgreeInv, AskedOK
  <2>1. CASE e.kind = "TextChunk" /\ HandleTextChunk(e.turn)
    BY <1>0, <2>0, <2>1, TextSilent
  <2>2. CASE OnAgentTurnComplete(e.turn) /\ UNCHANGED playback
    <3>1. state = "AgentSpeaking" => state' = "AgentSpeaking"
      BY <2>2 DEF OnAgentTurnComplete, EndTurnReturnToListening, Ignored, machine
    <3>2. /\ playback.live = <<>> => playback'.live = <<>>
          /\ playback'.live_turn \in {NoTurn, playback.live_turn}
      BY <2>2
    <3>. QED  BY <1>0, <3>1, <3>2, QuietSilent
  <2>. QED  BY <1>5, <2>1, <2>2 DEF DrainAgent
<1>6. CASE DrainTts
  BY <1>0, <1>6, ResultSilent
<1>7. CASE FeedPlayback
  BY <1>0, <1>7, FeedSilent
<1>. QED  BY <1>2, <1>3, <1>4, <1>5, <1>6, <1>7 DEF Orchestrate

LEMMA SilentStep ==
  ASSUME Punctual, Types, Types', AgreeInv, PendingCoversPhrases, SpokenInv, [PNext]_pvars
  PROVE  Silent'
<1>1. CASE \/ SttWork \/ SttDies \/ TtsWork \/ TtsDies \/ AgentWork \/ PlayOut
           \/ UNCHANGED pvars
  <2>1. UNCHANGED <<state, agenda, playback>>
    BY <1>1
    DEF SttWork, SttDies, TtsWork, TtsDies, AgentWork, PlayOut, OrchestratorIdle, vars, machine,
        loopVars, playVars, pvars
  <2>2. CASE state = "AgentSpeaking" \/ Kind(agenda, 1, "CancelPlayback")
    BY <2>1, <2>2 DEF Silent
  <2>3. CASE Hush
    <3>1. playback'.live = <<>> /\ playback'.live_turn \in {NoTurn, playback.live_turn}
      BY <2>1, <2>3 DEF Hush
    <3>2. Hush'
      BY <2>3, <3>1, HushKept DEF SpokenInv
    <3>. QED  BY <3>2 DEF Silent
  <2>. QED  BY <2>2, <2>3 DEF SpokenInv, Silent
<1>. QED  BY <1>1, ActSilent, LoopSilent DEF PNext, Orchestrate, Stopped

LEMMA SpokenInit == ASSUME PInit PROVE SpokenInv
<1>1. /\ agenda = <<>> /\ phase = "control" /\ playback = PB!Empty /\ agent_events = <<>>
      /\ agent_turn_complete = FALSE
  BY DEF PInit, Init
<1>2. playback.live = <<>> /\ playback.queued = <<>> /\ playback.live_turn = NoTurn
  BY <1>1 DEF PB!Empty, PB!NoTurn, NoTurn
<1>3. OwnPieces(playback) /\ Silent
  BY <1>2 DEF OwnPieces, Silent, Hush
<1>4. ReportsInOrder /\ FlagOK /\ Resting /\ EndsApart
  <2>1. Elems(<<>>) = {}
    BY NoElems
  <2>. QED  BY <1>1, <2>1 DEF ReportsInOrder, FlagOK, Resting, EndsApart
<1>. QED  BY <1>3, <1>4 DEF SpokenInv

LEMMA SpokenStep ==
  ASSUME Punctual, Types, Types', AgreeInv, CoverInv, SpokenInv, [PNext]_pvars
  PROVE  SpokenInv'
<1>1. OwnPieces(playback)'
  <2>1. OwnPieces(playback')
    BY OwnStep DEF SpokenInv
  <2>. QED  BY <2>1 DEF OwnPieces
<1>2. ReportsInOrder' /\ FlagOK'
  BY EndedStep, FlagStep DEF SpokenInv
<1>3. Resting' /\ EndsApart'
  BY RestingStep, EndsApartStep DEF SpokenInv
<1>4. Silent'
  BY SilentStep DEF CoverInv
<1>. QED  BY <1>1, <1>2, <1>3, <1>4 DEF SpokenInv

LEMMA FirstItems ==
  ASSUME NEW S, NEW s \in Seq(S), NEW n \in Nat, n <= Len(s)
  PROVE  \A i \in 1..n : i \in DOMAIN s /\ SubSeq(s, 1, n)[i] = s[i]
OBVIOUS

(* Where the feeder gives audio to the engine, it is the current turn's. *)
LEMMA FedIsCurrent ==
  ASSUME Types, AgreeInv, SpokenInv, [PNext]_pvars, phase = "feed", playback' # playback
  PROVE  state = "AgentSpeaking" /\ \A i \in 1..FedCount : Fed[i].turn = current_turn
<1>1. agenda = <<>> /\ playback \in PlaybackStates
  BY DEF SpokenInv, Resting, Types, LoopTypes
<1>2. FeedPlayback
  BY <1>1, PlaybackMoves DEF Act, DrainAgent, DrainTts
<1>3. Settled
  BY <1>1, LightHead DEF Types, AgreeInv
<1>4. playback.live # <<>>
  <2>. SUFFICES ASSUME playback.live = <<>> PROVE FALSE
    OBVIOUS
  <2>1. playback'.live = playback.live
    BY <1>2, FedAway
  <2>2. playback' = [playback EXCEPT !.live = playback'.live]
    BY <1>1, <1>2 DEF FeedPlayback, Feed, FeedEndingIf, PB!TakeLive, PlaybackStates
  <2>. QED  BY <1>1, <2>1, <2>2 DEF PlaybackStates
<1>5. state = "AgentSpeaking"
  BY <1>1, <1>4 DEF SpokenInv, Silent, Hush, Kind
<1>6. playback.live_turn = current_turn
  BY <1>3, <1>5 DEF Settled, Agree
<1>7. \A i \in 1..FedCount : i \in DOMAIN playback.live /\ Fed[i] = playback.live[i]
  <2>1. FedCount \in Nat /\ FedCount <= Len(playback.live) /\ playback.live \in Seq(Piece)
    BY <1>1, FedBounds DEF PlaybackStates
  <2>. QED  BY <2>1, FirstItems DEF Fed
<1>. QED  BY <1>5, <1>6, <1>7 DEF SpokenInv, OwnPieces

(* Provided the agent's backend does not report text of a reply it has called
   complete, only the agent whose turn it is is heard: for any number of turns,
   any sizes and whatever else happens, audio is given to the engine only while
   the machine is AgentSpeaking, and it is the current turn's (feed_playback
   of pipeline.rs over the routing of playback.rs). *)
THEOREM OnlyTheSpeakerIsHeard ==
  ASSUME "late reply" \notin Hazards
  PROVE  PSpec => SpokenWithTheFloor
<1>1. Punctual
  BY Zenon DEF Punctual
<1>2. PInit => SpokenInv
  BY SpokenInit
<1>3. Types /\ Types' /\ AgreeInv /\ CoverInv /\ SpokenInv /\ [PNext]_pvars => SpokenInv'
  BY <1>1, SpokenStep
<1>4. /\ Types /\ AgreeInv /\ SpokenInv /\ [PNext]_pvars
      => [phase = "feed" /\ playback' # playback
            => state = "AgentSpeaking" /\ \A i \in 1..FedCount : Fed[i].turn = current_turn]_pvars
  BY FedIsCurrent
<1>. QED  BY <1>2, <1>3, <1>4, CoverAlways, PTL DEF PSpec, SpokenWithTheFloor

----------------------------------------------------------------------------
(* A reply is heard whole. *)

(* What makes the pipeline lose phrases it was asked for: a barge-in drops what
   waits, a synthesizer that dies what it was making. *)
Uninterrupted == "barge-in" \notin Hazards
Unbroken == Uninterrupted /\ "tts dies" \notin Hazards

LEMMA UnbrokenSays == ASSUME Unbroken PROVE Uninterrupted /\ ~ TtsDies
BY DEF Unbroken, TtsDies

LEMMA UninterruptedSays ==
  ASSUME Uninterrupted
  PROVE  \A o : DetectSpeech(o) => OnSpeechStart \/ OnSpeechEnd \/ NoCall
BY DEF Uninterrupted, DetectSpeech

(* The calls that do not interrupt the agent. *)
PatientCall ==
  \/ NoCall \/ Control \/ Tick \/ PushFrame \/ OnSpeechStart \/ OnSpeechEnd
  \/ \E t \in Turn :
       \/ OnPartialTranscript(t)
       \/ \E text \in Text : OnFinalTranscript(t, text)
       \/ OnFinalTranscriptRejected(t) \/ OnSubmitSucceeded(t)

LEMMA UninterruptedCall ==
  ASSUME Uninterrupted, Types, [PNext]_pvars
  PROVE  \/ UNCHANGED machine \/ PatientCall \/ DrainAgent \/ FeedPlayback
         \/ Act /\ FinishTurnIfSilent(Head(agenda))
<1>. DEFINE o == Head(agenda)
<1>1. CASE Act
  <2>0. o \in Items
    BY <1>1, HeadItem DEF Act, Types, LoopTypes
  <2>1. CASE ActSubmit(o)
    <3>1. o.turn \in Turn
      BY <2>0, <2>1, ItemFields DEF ActSubmit
    <3>. QED  BY <2>1, <3>1 DEF ActSubmit, PatientCall
  <2>2. CASE CallMachine(o)
    BY <2>0, <2>2, ItemFields DEF CallMachine, PatientCall, Control
  <2>3. CASE DetectSpeech(o)
    BY <2>3, UninterruptedSays DEF PatientCall
  <2>4. CASE \/ ActCapture(o) \/ ActPlayback(o) \/ ActCancelSynthesis(o) \/ ActReplay(o)
             \/ ActState(o) \/ SynthesizeChunk(o) \/ ResetRecognizer(o) \/ TranscribeFrame(o)
    BY <2>4
    DEF ActCapture, ActPlayback, ActCancelSynthesis, ActReplay, ActState, ActStateResetting,
        SynthesizeChunk, ResetRecognizer, TranscribeFrame, NoCall
  <2>. QED  BY <1>1, <2>1, <2>2, <2>3, <2>4 DEF Act
<1>2. CASE DrainControl \/ Shutdown \/ TickMachine \/ PumpFrame
  BY <1>2 DEF DrainControl, Shutdown, TickMachine, PumpFrame, PatientCall, Control, NoCall
<1>3. CASE NoFrame \/ CheckDevice \/ SttDrained \/ AgentDrained \/ DrainTts \/ TtsDrained
  BY <1>3 DEF NoFrame, CheckDevice, SttDrained, AgentDrained, DrainTts, TtsDrained, NoCall
<1>4. CASE DrainStt
  <2>. DEFINE r == Head(stt_results)
  <2>1. r.turn \in Turn
    <3>1. r \in SttResults
      BY <1>4 DEF DrainStt, Types, MessageTypes
    <3>. QED  BY <3>1 DEF SttResults
  <2>. QED  BY <1>4, <2>1 DEF DrainStt, HandlePartial, HandleFinal, PatientCall, NoCall
<1>5. CASE \/ SttWork \/ SttDies \/ TtsWork \/ TtsDies \/ AgentWork \/ PlayOut
           \/ UNCHANGED pvars
  BY <1>5
  DEF SttWork, SttDies, TtsWork, TtsDies, AgentWork, PlayOut, OrchestratorIdle, vars, pvars
<1>. QED  BY <1>1, <1>2, <1>3, <1>4, <1>5 DEF PNext, Orchestrate, Stopped

LEMMA PatientCallEffects ==
  ASSUME TurnsOK, PatientCall, state # "Interrupting"
  PROVE  CallEffect /\ ~ Answers /\ state' # "Interrupting"
<1>1. UserCall
  BY DEF PatientCall, UserCall, Detectors
<1>2. CallEffect /\ ~ Answers
  BY <1>1, UserCallEffects
<1>3. ASSUME NEW t \in Turn
      PROVE  /\ OnPartialTranscript(t) \/ OnFinalTranscriptRejected(t) \/ OnSubmitSucceeded(t)
                  => state' # "Interrupting"
             /\ \A text \in Text : OnFinalTranscript(t, text) => state' # "Interrupting"
  BY DEF OnPartialTranscript, OnFinalTranscriptRejected, OnSubmitSucceeded, OnFinalTranscript,
         FinalTranscriptIn, ConfirmGenuineBargeIn, BackToListening, Ignored, machine
<1>4. NoCall \/ OnSpeechStart \/ OnSpeechEnd \/ PushFrame \/ Control => state' # "Interrupting"
  BY DEF NoCall, Ignored, machine, Control, PushFrame, OnSessionStart, OnSessionEnd,
         EndSession, EndSessionCancelling, OnPttPressed, OnPttReleased, SeizeTurn, OnSpeechStart,
         OnSpeechEnd, ConfirmGenuineBargeIn, Finalize
<1>5. Tick => state' # "Interrupting"
  BY DEF Tick, OnTick, TimePasses, GiveUpOnTurn, BackToListening, Timed, EndSession,
         EndSessionCancelling, ForceEndpoint, RetractBargeIn, Ignored, machine
<1>. QED  BY <1>2, <1>3, <1>4, <1>5 DEF PatientCall

(* Nobody talks over the agent: it speaks the turn that playback has live. *)
Undisturbed ==
  /\ state # "Interrupting"
  /\ state = "AgentSpeaking" => playback.live_turn = current_turn

(* What such a call does to the turns. *)
TurnsGo ==
  /\ turn_counter' >= turn_counter
  /\ current_turn' \in {NoTurn, current_turn, turn_counter + 1}
  /\ current_turn' = current_turn /\ current_turn # NoTurn =>
       (state' = "AgentSpeaking" <=> state = "AgentSpeaking")
  /\ state' = "AgentSpeaking" => current_turn' = current_turn /\ current_turn # NoTurn

LEMMA CallTurnsGo ==
  ASSUME TurnsOK, CallEffect, ~ Answers, state # "Interrupting", state' # "Interrupting"
  PROVE  TurnsGo
<1>. USE DEF Moves, SameTurn, NewTurn, NoTurns, turnVars, NoTurn
<1>1. /\ turn_counter \in Nat /\ current_turn \in Nat /\ current_turn <= turn_counter
      /\ state = "AgentSpeaking" => current_turn # NoTurn
  BY BoundsAssumption DEF TurnsOK, TurnStructure, Turn
<1>2. CASE StaysPut
  BY <1>1, <1>2 DEF StaysPut, TurnsGo
<1>3. CASE Soft
  BY <1>1, <1>3 DEF Soft, TurnsGo
<1>4. CASE Starts \/ Ends \/ Submits
  BY <1>1, <1>4 DEF Starts, Ends, Submits, TurnsGo
<1>5. CASE Seizes
  BY <1>1, <1>5 DEF Seizes, TurnsGo
<1>. QED  BY <1>2, <1>3, <1>4, <1>5 DEF CallEffect, Confirms, BargesIn, Retracts

LEMMA QuietTurnsGo ==
  ASSUME TurnsOK, UNCHANGED machine
  PROVE  TurnsGo
<1>1. turn_counter \in Nat /\ (state = "AgentSpeaking" => current_turn # NoTurn)
  BY BoundsAssumption DEF TurnsOK, TurnStructure, Turn
<1>. QED  BY <1>1 DEF machine, turnVars, TurnsGo

(* Every step but the agent's text. *)
LEMMA StepTurnsGo ==
  ASSUME Uninterrupted, Types, Undisturbed, [PNext]_pvars, ~ DrainAgent
  PROVE  TurnsGo /\ state' # "Interrupting"
<1>0. TurnsOK /\ state # "Interrupting"
  BY DEF Types, MachineTypes, Undisturbed
<1>1. CASE UNCHANGED machine
  BY <1>0, <1>1, QuietTurnsGo DEF machine
<1>2. CASE PatientCall
  BY <1>0, <1>2, PatientCallEffects, CallTurnsGo
<1>3. ASSUME NEW t \in Turn, OnPlaybackDrained(t) PROVE TurnsGo /\ state' # "Interrupting"
  <2>1. CallEffect /\ ~ Answers
    BY <1>0, <1>3, DrainedEffects
  <2>2. state' # "Interrupting"
    BY <1>0, <1>3
    DEF OnPlaybackDrained, EndTurnReturnToListening, BackToListening, Ignored, machine
  <2>. QED  BY <1>0, <2>1, <2>2, CallTurnsGo
<1>4. CASE FeedPlayback
  <2>1. playback.live_turn \in Turn \cup {NoTurn}
    BY DEF Types, LoopTypes, PlaybackStates
  <2>2. UNCHANGED machine \/ \E t \in Turn : OnPlaybackDrained(t)
    BY <1>4, <2>1 DEF FeedPlayback, Feed, FeedEndingIf, SignalDrained, NoCall
  <2>. QED  BY <1>1, <1>3, <2>2
<1>5. CASE Act /\ FinishTurnIfSilent(Head(agenda))
  <2>1. Head(agenda).turn \in Turn
    <3>1. Head(agenda) \in Items
      BY <1>5, HeadItem DEF Act, Types, LoopTypes
    <3>. QED  BY <1>5, <3>1, ItemFields DEF FinishTurnIfSilent
  <2>2. UNCHANGED machine \/ \E t \in Turn : OnPlaybackDrained(t)
    BY <1>5, <2>1 DEF FinishTurnIfSilent, SignalDrained, NoCall
  <2>. QED  BY <1>1, <1>3, <2>2
<1>. QED  BY <1>1, <1>2, <1>4, <1>5, UninterruptedCall

(* Whose audio is live changes only where the agent begins. *)
LEMMA UndisturbedStep ==
  ASSUME Uninterrupted, Types, Types', AgreeInv, Undisturbed, [PNext]_pvars
  PROVE  Undisturbed'
<1>. USE DEF NoTurn
<1>0. /\ playback \in PlaybackStates /\ TurnsOK /\ TurnsOK' /\ state # "Interrupting"
      /\ NoTurn \notin Turn
  BY DEF Types, LoopTypes, MachineTypes, Undisturbed, Turn
<1>1. CASE ~ DrainAgent
  <2>1. TurnsGo /\ state' # "Interrupting"
    BY <1>1, StepTurnsGo
  <2>2. ASSUME state' = "AgentSpeaking" PROVE playback'.live_turn = current_turn'
    <3>1. /\ current_turn' = current_turn /\ state = "AgentSpeaking" /\ current_turn # NoTurn
          /\ playback.live_turn = current_turn
      BY <2>1, <2>2 DEF TurnsGo, Undisturbed
    <3>2. CASE UNCHANGED playback
      BY <3>1, <3>2
    <3>3. CASE Act /\ ActPlayback(Head(agenda))
      <4>1. 1 \in DOMAIN agenda /\ Head(agenda) = agenda[1]
        BY <3>3, HeadItem DEF Act, Types, LoopTypes
      <4>2. Head(agenda).kind \notin {"CancelPlayback", "ResumeSpeaking"}
        BY <3>1, <4>1
        DEF AgreeInv, Behind, Calm, Cuts, LightFrom, Kind, Weighty, Doomed, Parked, GivenUp,
            Barging, Resuming
      <4>3. playback'.live_turn = playback.live_turn
        BY <1>0, <3>3, <4>2, SilencedTurns DEF ActPlayback
      <4>. QED  BY <3>1, <4>3
    <3>4. CASE Act /\ ActCancelSynthesis(Head(agenda))
      <4>1. Head(agenda).turn # current_turn
        BY <3>4, CancelBehind DEF AgreeInv, Act
      <4>2. playback'.live_turn = playback.live_turn
        BY <1>0, <3>1, <3>4, <4>1
        DEF ActCancelSynthesis, PB!CancelSynthesis, PB!IsLive, PB!IsPaused, PB!Unparked,
            PB!Silenced, PlaybackStates
      <4>. QED  BY <3>1, <4>2
    <3>5. CASE DrainTts
      BY <1>0, <3>1, <3>5 DEF DrainTts, RouteChunk, PB!RouteSynthesized, PlaybackStates
    <3>6. CASE FeedPlayback
      BY <3>1, <3>6, FedAway
    <3>. QED  BY <1>1, <3>2, <3>3, <3>4, <3>5, <3>6, PlaybackMoves
  <2>. QED  BY <2>1, <2>2 DEF Undisturbed
<1>2. CASE DrainAgent
  <2>. DEFINE e == Head(agent_events)
              t == e.turn
  <2>0. t \in Turn /\ Settled
    BY <1>2, EventTurn, LightHead DEF DrainAgent, Idling, Types, AgreeInv
  <2>1. CASE HandleTextChunk(t)
    <3>1. UNCHANGED machine \/ OnAgentTextArrived(t)
      BY <2>1 DEF HandleTextChunk, NoCall
    <3>2. state' # "Interrupting" /\ current_turn' = current_turn
          /\ (state' = "AgentSpeaking" /\ state # "AgentSpeaking" => current_turn = t)
          /\ (state' # state => state = "AwaitingAgent")
      BY <1>0, <3>1 DEF OnAgentTextArrived, IsCurrent, Ignored, machine, turnVars
    <3>3. playback' = playback \/ (~ PB!Recognises(playback, t) /\ playback' = PB!Start(playback, t)
                                   /\ current_turn = t)
      BY <2>1 DEF HandleTextChunk
    <3>4. ASSUME state' = "AgentSpeaking" PROVE playback'.live_turn = current_turn'
      <4>1. CASE state = "AgentSpeaking"
        <5>1. playback.live_turn = current_turn
          BY <4>1 DEF Undisturbed
        <5>. QED  BY <1>0, <3>2, <3>3, <5>1 DEF PB!Start, PlaybackStates
      <4>2. CASE state # "AgentSpeaking"
        <5>1. state = "AwaitingAgent" /\ current_turn = t
          BY <3>2, <3>4, <4>2
        <5>2. pending_cancel_turn = NoTurn
          BY <1>0, <5>1 DEF TurnsOK, TurnStructure
        <5>3. playback.paused_turn = NoTurn
          BY <2>0, <5>2 DEF Settled, Agree
        <5>4. playback' = PB!Start(playback, t)
          <6>1. t # NoTurn
            BY <2>0, <1>0
          <6>2. ~ PB!Recognises(playback, t)
            BY <2>0, <5>1, <5>3, <6>1
            DEF Settled, Agree, PB!Recognises, PB!IsLive, PB!IsPaused
          <6>. QED  BY <2>1, <5>1, <6>2 DEF HandleTextChunk
        <5>. QED  BY <1>0, <3>2, <5>1, <5>4 DEF PB!Start, PlaybackStates
      <4>. QED  BY <4>1, <4>2
    <3>. QED  BY <3>2, <3>4 DEF Undisturbed
  <2>2. CASE OnAgentTurnComplete(t) /\ UNCHANGED playback
    <3>1. state' # "Interrupting"
          /\ (state' = "AgentSpeaking" => UNCHANGED <<state, current_turn>>)
      BY <1>0, <2>2
      DEF OnAgentTurnComplete, EndTurnReturnToListening, BackToListening, Ignored, machine, turnVars
    <3>. QED  BY <2>2, <3>1 DEF Undisturbed
  <2>. QED  BY <1>2, <2>1, <2>2 DEF DrainAgent
<1>. QED  BY <1>1, <1>2

----------------------------------------------------------------------------
(* The last piece of a phrase of t. *)
EndPiece(t) == [turn |-> t, last |-> TRUE]

(* Phrases of t that wait for the feeder, whole or in part. *)
Held(p, t) == Count(p.live, EndPiece(t))

(* A phrase that was asked for and not wholly given to the engine is on its way
   or waits for the feeder, or is counted without ever coming; and a turn the
   agent has not spoken in has none. *)
HeardOK(t) ==
  /\ unheard[t] \in Int
  /\ t > turn_counter \/ (t = current_turn /\ state # "AgentSpeaking") => unheard[t] = 0
  /\ t = current_turn /\ state = "AgentSpeaking" =>
       /\ InFlight(t) + Held(playback, t) <= unheard[t]
       /\ unheard[t] <= tts_pending[t] + Held(playback, t)

HeardInv ==
  /\ Undisturbed /\ OwnPieces(playback) /\ tts # "dead"
  /\ unheard \in [Turn -> Int] /\ \A t \in Turn : HeardOK(t)

LEMMA HeldType ==
  ASSUME Types, NEW t
  PROVE  Held(playback, t) \in Nat
<1>1. playback.live \in Seq(Piece)
  BY DEF Types, LoopTypes, PlaybackStates
<1>. HIDE DEF Piece
<1>. QED  BY <1>1, CountType DEF Held

(* A step that makes phrases neither appear nor vanish unnoticed. *)
LEMMA HeardKept ==
  ASSUME Types, Types', TurnsGo, NEW t \in Turn, HeardOK(t), unheard'[t] \in Int,
         t > turn_counter \/ (t = current_turn /\ state # "AgentSpeaking") =>
           unheard'[t] = unheard[t],
         t = current_turn /\ state = "AgentSpeaking" =>
           /\ InFlight(t)' + Held(playback', t) - unheard'[t]
                <= InFlight(t) + Held(playback, t) - unheard[t]
           /\ unheard'[t] - tts_pending'[t] - Held(playback', t)
                <= unheard[t] - tts_pending[t] - Held(playback, t)
  PROVE  HeardOK(t)'
<1>1. /\ t \in Nat /\ turn_counter \in Nat /\ turn_counter' \in Nat
      /\ tts_pending[t] \in Nat /\ tts_pending'[t] \in Nat
      /\ InFlight(t) \in Nat /\ InFlight(t)' \in Nat
      /\ Held(playback, t) \in Nat
  <2>1. t \in Nat /\ turn_counter \in Nat /\ turn_counter' \in Nat
    BY BoundsAssumption DEF Types, MachineTypes, TurnsOK, Turn
  <2>2. tts_pending[t] \in Nat /\ tts_pending'[t] \in Nat
    BY DEF Types, LoopTypes
  <2>3. InFlight(t) \in Nat /\ InFlight(t)' \in Nat
    BY FlightTypes
  <2>4. Held(playback, t) \in Nat
    BY HeldType
  <2>. QED  BY <2>1, <2>2, <2>3, <2>4
<1>2. Held(playback', t) \in Nat
  <2>1. playback'.live \in Seq(Piece)
    BY DEF Types, LoopTypes, PlaybackStates
  <2>. HIDE DEF Piece
  <2>. QED  BY <2>1, CountType DEF Held
<1>3. PICK n : n = InFlight(t)'
  OBVIOUS
<1>4. t > turn_counter' => unheard'[t] = 0
  BY <1>1 DEF HeardOK, TurnsGo
<1>5. t = current_turn' /\ state' # "AgentSpeaking" => unheard'[t] = 0
  <2>1. t # NoTurn
    BY DEF Turn, NoTurn
  <2>. QED  BY <1>1, <2>1 DEF HeardOK, TurnsGo
<1>6. t = current_turn' /\ state' = "AgentSpeaking" =>
        /\ n + Held(playback', t) <= unheard'[t]
        /\ unheard'[t] <= tts_pending'[t] + Held(playback', t)
  <2>. SUFFICES ASSUME t = current_turn', state' = "AgentSpeaking"
                PROVE  /\ n + Held(playback', t) <= unheard'[t]
                       /\ unheard'[t] <= tts_pending'[t] + Held(playback', t)
    OBVIOUS
  <2>1. t = current_turn /\ state = "AgentSpeaking"
    BY DEF TurnsGo
  <2>. QED  BY <1>1, <1>2, <1>3, <2>1 DEF HeardOK
<1>. QED  BY <1>3, <1>4, <1>5, <1>6 DEF HeardOK, Held

----------------------------------------------------------------------------
(* A sequence cut in two, and two put together. *)
LEMMA CountSplit ==
  ASSUME NEW S, NEW s \in Seq(S), NEW n \in Nat, n <= Len(s), NEW x
  PROVE  Count(s, x) = Count(SubSeq(s, 1, n), x) + Count(SubSeq(s, n + 1, Len(s)), x)
<1>. DEFINE a == SubSeq(s, 1, n)
            b == SubSeq(s, n + 1, Len(s))
            A == {i \in DOMAIN a : a[i] = x}
            B == {i \in DOMAIN b : b[i] = x}
            C == {i \in (n + 1)..Len(s) : s[i] = x}
            D == {i \in DOMAIN s : s[i] = x}
            f == [i \in B |-> i + n]
<1>1. /\ DOMAIN s = 1..Len(s) /\ Len(s) \in Nat
      /\ DOMAIN a = 1..n /\ \A i \in 1..n : a[i] = s[i]
      /\ DOMAIN b = 1..(Len(s) - n) /\ \A i \in 1..(Len(s) - n) : b[i] = s[i + n]
  OBVIOUS
<1>2. D = A \cup C /\ A \cap C = {}
  BY <1>1
<1>3. f \in [B -> C] /\ (\A i, j \in B : f[i] = f[j] => i = j)
      /\ \A k \in C : k - n \in B /\ f[k - n] = k
  BY <1>1
<1>4. a \in Seq(S) /\ b \in Seq(S)
  OBVIOUS
<1>. HIDE DEF a, b
<1>5. IsFiniteSet(A) /\ IsFiniteSet(B) /\ Cardinality(A) \in Nat /\ Cardinality(B) \in Nat
  BY <1>4, CountType DEF Count
<1>. HIDE DEF A, B, C, D, f
<1>6. f \in Bijection(B, C)
  BY <1>3 DEF Bijection, Injection, IsInjective, Surjection
<1>7. IsFiniteSet(C) /\ Cardinality(C) = Cardinality(B)
  BY <1>5, <1>6, FS_Bijection DEF ExistsBijection
<1>8. Cardinality(A \cap C) = 0
  BY <1>2, FS_EmptySet, Zenon
<1>9. Cardinality(A \cup C) = Cardinality(A) + Cardinality(C) - Cardinality(A \cap C)
  BY <1>5, <1>7, FS_Union
<1>10. Cardinality(D) = Cardinality(A) + Cardinality(B)
  BY <1>2, <1>5, <1>7, <1>8, <1>9
<1>. QED  BY <1>10 DEF Count, A, B, D, a, b

LEMMA CountJoin ==
  ASSUME NEW S, NEW s \in Seq(S), NEW u \in Seq(S), NEW x
  PROVE  Count(s \o u, x) = Count(s, x) + Count(u, x)
<1>. DEFINE w == s \o u
<1>1. w \in Seq(S) /\ Len(s) \in Nat /\ Len(s) <= Len(w)
  OBVIOUS
<1>2. SubSeq(w, 1, Len(s)) = s /\ SubSeq(w, Len(s) + 1, Len(w)) = u
  OBVIOUS
<1>. HIDE DEF w
<1>3. Count(w, x) = Count(SubSeq(w, 1, Len(s)), x) + Count(SubSeq(w, Len(s) + 1, Len(w)), x)
  BY <1>1, CountSplit
<1>. QED  BY <1>2, <1>3 DEF w

(* A phrase has one last piece. *)
LEMMA CountPieces ==
  ASSUME NEW t \in Turn, NEW u \in Turn, NEW k \in Nat \ {0}
  PROVE  /\ PiecesOf(t, k) \in Seq(Piece)
         /\ Count(PiecesOf(t, k), EndPiece(u)) = IF t = u THEN 1 ELSE 0
<1>. DEFINE p == PiecesOf(t, k)
            A == {i \in DOMAIN p : p[i] = EndPiece(u)}
<1>1. DOMAIN p = 1..k /\ \A i \in 1..k : p[i] = [turn |-> t, last |-> i = k]
  BY Zenon DEF PiecesOf
<1>2. \A i \in 1..k : p[i] \in Piece
  <2>1. \A b \in BOOLEAN : [turn |-> t, last |-> b] \in Piece
    BY DEF Piece
  <2>2. \A i \in 1..k : (i = k) \in BOOLEAN
    OBVIOUS
  <2>. QED  BY <1>1, <2>1, <2>2, Zenon
<1>3. p \in Seq(Piece)
  <2>. HIDE DEF Piece
  <2>1. p \in [1..k -> Piece]
    BY <1>2 DEF PiecesOf
  <2>. QED  BY <2>1
<1>4. \A i \in 1..k : p[i].turn = t /\ p[i].last = (i = k)
  <2>1. \A b : [turn |-> t, last |-> b].turn = t /\ [turn |-> t, last |-> b].last = b
    OBVIOUS
  <2>. QED  BY <1>1, <2>1, ZenonT(30)
<1>5. EndPiece(u).turn = u /\ EndPiece(u).last = TRUE
  BY DEF EndPiece
<1>6. \A i \in 1..k : p[i] = EndPiece(u) => t = u /\ i = k
  BY <1>4, <1>5, Zenon
<1>8. k \in 1..k
  OBVIOUS
<1>7. t = u => p[k] = EndPiece(u)
  <2>1. (k = k) = TRUE
    BY Zenon
  <2>2. p[k] = [turn |-> t, last |-> TRUE]
    BY <1>1, <1>8, <2>1, Zenon
  <2>. QED  BY <2>2, Zenon DEF EndPiece
<1>9. A = IF t = u THEN {k} ELSE {}
  <2>1. CASE t = u
    BY <1>1, <1>6, <1>7, <1>8, <2>1
  <2>2. CASE t # u
    BY <1>1, <1>6, <2>2
  <2>. QED  BY <2>1, <2>2
<1>. HIDE DEF A, p
<1>10. Cardinality({}) = 0 /\ Cardinality({k}) = 1
  BY FS_EmptySet, FS_Singleton
<1>11. Cardinality(A) = IF t = u THEN 1 ELSE 0
  BY <1>9, <1>10
<1>. QED  BY <1>3, <1>11 DEF Count, A, p

LEMMA ItemsOf == ASSUME NEW S, NEW s \in Seq(S) PROVE \A i \in DOMAIN s : s[i] \in S
OBVIOUS

(* The feeder ends as many phrases as last pieces it takes away. *)
LEMMA FedHeld ==
  ASSUME Types, FeedPlayback, NEW t \in Turn
  PROVE  /\ Finished(t) \in Nat
         /\ Held(playback, t) = Finished(t) + Held(playback', t)
<1>1. /\ playback.live \in Seq(Piece) /\ FedCount \in Nat /\ FedCount <= Len(playback.live)
      /\ playback'.live = SubSeq(playback.live, FedCount + 1, Len(playback.live))
  <2>1. playback \in PlaybackStates /\ playback' = PB!TakeLive(playback, FedCount)
    BY DEF Types, LoopTypes, FeedPlayback, Feed, FeedEndingIf
  <2>. QED  BY <2>1, FedBounds DEF PB!TakeLive, PlaybackStates
<1>2. Count(playback.live, EndPiece(t)) = Count(Fed, EndPiece(t)) + Count(playback'.live, EndPiece(t))
  <2>. HIDE DEF Piece
  <2>. QED  BY <1>1, CountSplit DEF Fed
<1>3. Fed \in Seq(Piece) /\ DOMAIN Fed = 1..FedCount
  <2>. HIDE DEF Piece
  <2>. QED  BY <1>1 DEF Fed
<1>4. Count(Fed, EndPiece(t)) \in Nat
  <2>. HIDE DEF Piece
  <2>. QED  BY <1>3, CountType
<1>5. \A i \in 1..FedCount : Fed[i] \in Piece
  <2>. HIDE DEF Piece
  <2>1. \A i \in DOMAIN Fed : Fed[i] \in Piece
    BY <1>3, ItemsOf, Zenon
  <2>. QED  BY <1>3, <2>1
<1>6. \A p \in Piece : p = EndPiece(t) <=> p.turn = t /\ p.last
  <2>1. ASSUME NEW p \in Piece, p.turn = t, p.last PROVE p = EndPiece(t)
    <3>1. p.last \in BOOLEAN /\ p = [turn |-> p.turn, last |-> p.last]
      BY DEF Piece
    <3>2. p.last = TRUE
      BY <2>1, <3>1, Zenon
    <3>. QED  BY <2>1, <3>1, <3>2, Zenon DEF EndPiece
  <2>. QED  BY <2>1 DEF EndPiece
<1>7. {i \in 1..FedCount : Fed[i] = EndPiece(t)}
        = {i \in 1..FedCount : Fed[i].turn = t /\ Fed[i].last}
  <2>1. \A i \in 1..FedCount : Fed[i] = EndPiece(t) <=> Fed[i].turn = t /\ Fed[i].last
    BY <1>5, <1>6
  <2>. QED  BY <2>1, Zenon
<1>8. Count(Fed, EndPiece(t)) = Finished(t)
  BY <1>3, <1>7, Zenon DEF Count, Finished
<1>. QED  BY <1>2, <1>4, <1>8 DEF Held

----------------------------------------------------------------------------
(* While the agent speaks, no output silences it. *)
LEMMA NobodySilences ==
  ASSUME Types, Behind, Undisturbed, state = "AgentSpeaking", agenda # <<>>
  PROVE  Head(agenda).kind \notin {"CancelPlayback", "FlushOutputBuffer", "ResumeSpeaking",
                                   "CancelSynthesis"}
<1>1. 1 \in DOMAIN agenda /\ Head(agenda) = agenda[1]
  BY HeadItem DEF Types, LoopTypes
<1>2. current_turn # NoTurn
  BY DEF Types, MachineTypes, TurnsOK, TurnStructure
<1>3. \A n : ~ Kind(agenda, 1, n) \/ Head(agenda).kind = n
  BY <1>1 DEF Kind
<1>4. ~ Resuming /\ ~ Barging /\ \A v : ~ Parked(v) /\ ~ Doomed(v)
  BY <1>2 DEF Undisturbed, Resuming, Barging, Parked, Doomed, GivenUp
<1>5. Calm(agenda, 1)
  BY <1>4 DEF Behind
<1>. QED  BY <1>1, <1>5 DEF Calm, LightFrom, Kind, Weighty

(* A step that leaves the phrases alone. *)
LEMMA QuietHeard ==
  ASSUME Types, Types', TurnsGo, HeardInv, NEW t \in Turn, UNCHANGED unheard,
         InFlight(t)' <= InFlight(t),
         state = "AgentSpeaking" => playback'.live = playback.live,
         tts_pending'[t] >= tts_pending[t]
  PROVE  HeardOK(t)'
<1>1. /\ tts_pending[t] \in Nat /\ tts_pending'[t] \in Nat /\ unheard[t] \in Int
      /\ InFlight(t) \in Nat /\ InFlight(t)' \in Nat /\ Held(playback, t) \in Nat
  BY HeldType, FlightTypes DEF HeardInv, HeardOK, Types, LoopTypes
<1>2. state = "AgentSpeaking" => Held(playback', t) = Held(playback, t)
  BY DEF Held
<1>3. state = "AgentSpeaking" =>
        /\ InFlight(t)' + Held(playback', t) - unheard'[t]
             <= InFlight(t) + Held(playback, t) - unheard[t]
        /\ unheard'[t] - tts_pending'[t] - Held(playback', t)
             <= unheard[t] - tts_pending[t] - Held(playback, t)
  BY <1>1, <1>2
<1>4. unheard'[t] = unheard[t] /\ HeardOK(t)
  BY DEF HeardInv
<1>. QED  BY <1>1, <1>3, <1>4, HeardKept

LEMMA SynthesizeHeard ==
  ASSUME Types, Types', AgreeInv, CoverInv, HeardInv, TurnsGo, agenda # <<>>,
         SynthesizeChunk(Head(agenda)), NEW t \in Turn
  PROVE  unheard' \in [Turn -> Int] /\ HeardOK(t)'
<1>. DEFINE o == Head(agenda)
            v == o.turn
<1>0. o \in Items /\ o = agenda[1] /\ 1 \in DOMAIN agenda /\ o.kind = "Synthesize"
      /\ UNCHANGED playback
  BY HeadItem DEF Types, LoopTypes, SynthesizeChunk
<1>1. v \in Turn /\ Mentions(agenda, v)
  BY <1>0, ItemFields DEF Mentions
<1>2. v <= turn_counter /\ (v = current_turn => state = "AgentSpeaking")
  <2>1. v <= turn_counter /\ (v = current_turn => PB!Recognises(playback, v))
    BY <1>1 DEF CoverInv, PhrasesKnown, OnItsWay
  <2>2. Settled
    BY <1>0, LightHead DEF Types, AgreeInv, Weighty
  <2>3. pending_cancel_turn = NoTurn
    BY DEF HeardInv, Undisturbed, Types, MachineTypes, TurnsOK, TurnStructure
  <2>4. v # NoTurn
    BY <1>1 DEF Turn, NoTurn
  <2>. QED  BY <2>1, <2>2, <2>3, <2>4
       DEF Settled, Agree, PB!Recognises, PB!IsLive, PB!IsPaused
<1>3. unheard \in [Turn -> Int] /\ HeardOK(t) /\ tts_pending \in [Turn -> Nat]
      /\ turn_counter \in Nat /\ v \in Nat
  <2>1. unheard \in [Turn -> Int] /\ HeardOK(t) /\ tts_pending \in [Turn -> Nat]
    BY DEF HeardInv, Types, LoopTypes
  <2>2. turn_counter \in Nat
    BY BoundsAssumption DEF Types, MachineTypes, TurnsOK
  <2>3. v \in Nat
    BY <1>1, BoundsAssumption DEF Turn
  <2>. QED  BY <2>1, <2>2, <2>3
<1>4. CASE tts = "lost"
  <2>1. UNCHANGED <<tts_requests, tts_results, tts_pending, unheard>>
    BY <1>4 DEF SynthesizeChunk, ttsVars
  <2>2. InFlight(t)' = InFlight(t)
    BY <2>1, FlightKept
  <2>3. InFlight(t)' <= InFlight(t) /\ tts_pending'[t] >= tts_pending[t]
    BY <1>3, <2>1, <2>2, FlightTypes
  <2>. QED  BY <1>0, <1>3, <2>1, <2>3, QuietHeard
<1>5. CASE tts # "lost"
  <2>1. PICK n \in 0..MaxPhrases :
           /\ SendTts([i \in 1..n |-> Phrase(v)]) /\ CountPhrases(v, n)
           /\ unheard' = [unheard EXCEPT ![v] = @ + n]
    BY <1>5 DEF SynthesizeChunk
  <2>2. n \in Nat
    BY PipelineAssumption
  <2>3. InFlight(t)' \in {InFlight(t), IF t = v THEN InFlight(t) + n ELSE InFlight(t)}
    BY <1>1, <2>1, <2>2, SynthesizeFlight
  <2>4. /\ unheard' \in [Turn -> Int]
        /\ unheard'[t] = IF t = v THEN unheard[t] + n ELSE unheard[t]
        /\ tts_pending'[t] = IF t = v THEN tts_pending[t] + n ELSE tts_pending[t]
    BY <1>1, <1>3, <2>1, <2>2 DEF CountPhrases
  <2>5. /\ InFlight(t) \in Nat /\ InFlight(t)' \in Nat /\ Held(playback, t) \in Nat
        /\ tts_pending[t] \in Nat /\ unheard[t] \in Int /\ unheard'[t] \in Int
        /\ Held(playback', t) = Held(playback, t)
    BY <1>0, <1>3, <2>4, HeldType, FlightTypes
  <2>6. t > turn_counter \/ (t = current_turn /\ state # "AgentSpeaking") =>
          unheard'[t] = unheard[t]
    BY <1>2, <1>3, <2>4
  <2>. HIDE DEF v, o
  <2>7. /\ InFlight(t)' + Held(playback', t) - unheard'[t]
             <= InFlight(t) + Held(playback, t) - unheard[t]
        /\ unheard'[t] - tts_pending'[t] - Held(playback', t)
             <= unheard[t] - tts_pending[t] - Held(playback, t)
    BY <2>2, <2>3, <2>4, <2>5, SMTT(30)
  <2>. QED  BY <1>3, <2>4, <2>5, <2>6, <2>7, HeardKept
<1>. QED  BY <1>4, <1>5

(* A phrase that comes back waits for the feeder, if its turn is heard. *)
LEMMA ResultHeard ==
  ASSUME Types, Types', AgreeInv, CoverInv, HeardInv, TurnsGo, DrainTts, NEW t \in Turn
  PROVE  HeardOK(t)'
<1>. DEFINE v == Head(tts_results).turn
<1>1. v \in Turn /\ InFlight(t) = IF t = v THEN InFlight(t)' + 1 ELSE InFlight(t)'
  BY ResultFlight
<1>2. /\ playback \in PlaybackStates /\ tts_pending \in [Turn -> Nat]
      /\ tts_pending' = [tts_pending EXCEPT ![v] = IF @ = 0 THEN 0 ELSE @ - 1]
      /\ UNCHANGED unheard /\ unheard[t] \in Int /\ HeardOK(t)
  BY DEF DrainTts, CameBack, Types, LoopTypes, HeardInv
<1>3. /\ InFlight(t) \in Nat /\ InFlight(t)' \in Nat /\ Held(playback, t) \in Nat
      /\ tts_pending[t] \in Nat
      /\ tts_pending'[t] = IF t = v THEN (IF tts_pending[t] = 0 THEN 0 ELSE tts_pending[t] - 1)
                           ELSE tts_pending[t]
  BY <1>1, <1>2, HeldType, FlightTypes
<1>4. ASSUME t = current_turn, state = "AgentSpeaking"
      PROVE  /\ Held(playback', t) = IF t = v THEN Held(playback, t) + 1 ELSE Held(playback, t)
             /\ InFlight(t) <= tts_pending[t]
  <2>1. playback.live_turn = t /\ t \notin playback.abandoned
    BY <1>4 DEF HeardInv, Undisturbed, AgreeInv, PlaybackOK, Untainted
  <2>2. InFlight(t) <= tts_pending[t]
    BY <2>1 DEF CoverInv, PendingCoversPhrases, PB!Recognises, PB!IsLive
  <2>3. PICK k \in Pieces : playback' = PB!RouteSynthesized(playback, v, PiecesOf(v, k))
    BY DEF DrainTts, RouteChunk
  <2>4. k \in Nat \ {0}
    BY PipelineAssumption
  <2>5. CASE t = v
    <3>1. playback'.live = playback.live \o PiecesOf(t, k)
      BY <1>2, <2>1, <2>3, <2>5 DEF PB!RouteSynthesized, PB!IsLive, PlaybackStates
    <3>2. PiecesOf(t, k) \in Seq(Piece) /\ Count(PiecesOf(t, k), EndPiece(t)) = 1
      BY <2>4, CountPieces
    <3>3. playback.live \in Seq(Piece)
      BY <1>2 DEF PlaybackStates
    <3>4. Count(playback'.live, EndPiece(t)) = Count(playback.live, EndPiece(t)) + 1
      <4>. HIDE DEF Piece
      <4>. QED  BY <3>1, <3>2, <3>3, CountJoin
    <3>. QED  BY <2>2, <2>5, <3>4 DEF Held
  <2>6. CASE t # v
    <3>1. playback'.live = playback.live
      BY <1>2, <2>1, <2>3, <2>6
      DEF PB!RouteSynthesized, PB!IsLive, PB!IsPaused, PlaybackStates
    <3>. QED  BY <2>2, <2>6, <3>1 DEF Held
  <2>. QED  BY <2>5, <2>6
<1>. HIDE DEF v
<1>5. t = current_turn /\ state = "AgentSpeaking" =>
        /\ InFlight(t)' + Held(playback', t) - unheard'[t]
             <= InFlight(t) + Held(playback, t) - unheard[t]
        /\ unheard'[t] - tts_pending'[t] - Held(playback', t)
             <= unheard[t] - tts_pending[t] - Held(playback, t)
  BY <1>1, <1>2, <1>3, <1>4
<1>. QED  BY <1>2, <1>5, HeardKept

(* What the feeder takes away of a phrase's end is heard. *)
LEMMA FeedHeard ==
  ASSUME Types, Types', AgreeInv, HeardInv, TurnsGo, FeedPlayback, NEW t \in Turn
  PROVE  unheard' \in [Turn -> Int] /\ HeardOK(t)'
<1>1. /\ unheard \in [Turn -> Int] /\ HeardOK(t) /\ tts_pending \in [Turn -> Nat]
      /\ unheard' = [u \in Turn |-> unheard[u] - Finished(u)]
      /\ UNCHANGED <<tts_requests, tts_results>> /\ NoTurn \notin Turn
  BY DEF FeedPlayback, Feed, FeedEndingIf, ttsVars, HeardInv, Types, LoopTypes, Turn, NoTurn
<1>2. \A u \in Turn : Finished(u) \in Nat /\ Held(playback, u) = Finished(u) + Held(playback', u)
  BY FedHeld
<1>3. unheard' \in [Turn -> Int] /\ unheard'[t] = unheard[t] - Finished(t)
  BY <1>1, <1>2
<1>4. InFlight(t)' = InFlight(t) /\ InFlight(t) \in Nat
  BY <1>1, FlightKept, FlightTypes
<1>5. tts_pending' = tts_pending
  <2>1. CASE UNCHANGED tts_pending
    BY <2>1
  <2>2. CASE /\ tts_pending[playback.live_turn] = 0
             /\ tts_pending' = [tts_pending EXCEPT ![playback.live_turn] = 0]
    BY <1>1, <2>2
  <2>. QED  BY <2>1, <2>2 DEF FeedPlayback, Feed, FeedEndingIf, SignalDrained
<1>6. ASSUME t > turn_counter \/ (t = current_turn /\ state # "AgentSpeaking")
      PROVE  Finished(t) = 0
  <2>1. playback.live_turn # t
    <3>1. Settled /\ turn_counter \in Nat /\ playback.live_turn \in 0..turn_counter /\ t \in Nat
      BY LightHead, BoundsAssumption
      DEF FeedPlayback, Idling, Types, MachineTypes, TurnsOK, AgreeInv, PlaybackOK, Turn
    <3>2. t # NoTurn
      BY <1>1
    <3>. QED  BY <1>6, <3>1, <3>2 DEF Settled, Agree
  <2>2. \A i \in 1..FedCount : Fed[i].turn = playback.live_turn
    <3>1. FedCount \in Nat /\ FedCount <= Len(playback.live) /\ playback.live \in Seq(Piece)
      BY FedBounds DEF Types, LoopTypes, PlaybackStates
    <3>2. \A i \in 1..FedCount : i \in DOMAIN playback.live /\ Fed[i] = playback.live[i]
      BY <3>1, FirstItems DEF Fed
    <3>. QED  BY <3>2 DEF HeardInv, OwnPieces
  <2>3. {i \in 1..FedCount : Fed[i].turn = t /\ Fed[i].last} = {}
    BY <2>1, <2>2
  <2>. QED  BY <2>3, FS_EmptySet, Zenon DEF Finished
<1>7. Held(playback, t) \in Nat /\ Finished(t) \in Nat
      /\ Held(playback, t) = Finished(t) + Held(playback', t)
  BY <1>2, HeldType
<1>8. Held(playback', t) \in Nat
  <2>1. playback'.live \in Seq(Piece)
    BY DEF Types, LoopTypes, PlaybackStates
  <2>. HIDE DEF Piece
  <2>. QED  BY <2>1, CountType DEF Held
<1>9. unheard[t] \in Int /\ unheard'[t] \in Int /\ tts_pending[t] \in Nat
  BY <1>1, <1>3
<1>10. t > turn_counter \/ (t = current_turn /\ state # "AgentSpeaking") => unheard'[t] = unheard[t]
  BY <1>3, <1>6, <1>9
<1>11. /\ InFlight(t)' + Held(playback', t) - unheard'[t]
             <= InFlight(t) + Held(playback, t) - unheard[t]
       /\ unheard'[t] - tts_pending'[t] - Held(playback', t)
             <= unheard[t] - tts_pending[t] - Held(playback, t)
  <2>1. PICK n : n = InFlight(t)'
    OBVIOUS
  <2>2. n = InFlight(t)
    BY <1>4, <2>1
  <2>3. /\ n + Held(playback', t) - unheard'[t] <= InFlight(t) + Held(playback, t) - unheard[t]
        /\ unheard'[t] - tts_pending'[t] - Held(playback', t)
             <= unheard[t] - tts_pending[t] - Held(playback, t)
    BY <1>3, <1>4, <1>5, <1>7, <1>8, <1>9, <2>2
  <2>. QED  BY <2>1, <2>3
<1>. QED  BY <1>1, <1>3, <1>9, <1>10, <1>11, HeardKept

(* The text with which the agent begins: nothing of that turn is on its way. *)
LEMMA TextHeard ==
  ASSUME Types, Types', AgreeInv, CoverInv, HeardInv, DrainAgent, NEW t \in Turn
  PROVE  HeardOK(t)'
<1>. DEFINE v == Head(agent_events).turn
<1>0. /\ v \in Turn /\ Settled /\ playback \in PlaybackStates /\ TurnsOK /\ TurnsOK'
      /\ UNCHANGED <<unheard, tts_requests, tts_results, tts_pending>>
      /\ HeardOK(t) /\ unheard[t] \in Int /\ tts_pending[t] \in Nat
  BY EventTurn, LightHead
  DEF DrainAgent, Idling, Types, LoopTypes, MachineTypes, AgreeInv, HeardInv, ttsVars
<1>1. InFlight(t)' = InFlight(t) /\ InFlight(t) \in Nat /\ Held(playback, t) \in Nat
  BY <1>0, FlightKept, FlightTypes, HeldType
<1>2. InFlight(t)' <= InFlight(t) /\ tts_pending'[t] >= tts_pending[t]
  BY <1>0, <1>1
<1>3. CASE OnAgentTurnComplete(v) /\ UNCHANGED playback
  <2>1. CallEffect /\ ~ Answers
    BY <1>0, <1>3, OtherCallEffects DEF OtherCall
  <2>2. state # "Interrupting" /\ state' # "Interrupting"
    BY <1>0, <1>3
    DEF OnAgentTurnComplete, EndTurnReturnToListening, BackToListening, Ignored, machine, HeardInv,
        Undisturbed
  <2>3. TurnsGo
    BY <1>0, <2>1, <2>2, CallTurnsGo
  <2>. QED  BY <1>0, <1>2, <1>3, <2>3, QuietHeard
<1>4. CASE HandleTextChunk(v) /\ (state = "AgentSpeaking" \/ state' # "AgentSpeaking")
  <2>1. UNCHANGED machine \/ OnAgentTextArrived(v)
    BY <1>4 DEF HandleTextChunk, NoCall
  <2>2. state' = state /\ current_turn' = current_turn /\ turn_counter' = turn_counter
    BY <1>0, <1>4, <2>1 DEF OnAgentTextArrived, IsCurrent, Ignored, machine, turnVars
  <2>3. TurnsGo
    <3>1. turn_counter \in Nat /\ (state = "AgentSpeaking" => current_turn # NoTurn)
      BY <1>0, BoundsAssumption DEF TurnsOK, TurnStructure
    <3>. QED  BY <2>2, <3>1 DEF TurnsGo
  <2>4. state = "AgentSpeaking" => playback'.live = playback.live
    <3>1. ASSUME state = "AgentSpeaking", current_turn = v PROVE PB!Recognises(playback, v)
      BY <3>1 DEF HeardInv, Undisturbed, PB!Recognises, PB!IsLive
    <3>. QED  BY <1>4, <3>1 DEF HandleTextChunk
  <2>. QED  BY <1>0, <1>2, <2>3, <2>4, QuietHeard
<1>5. CASE HandleTextChunk(v) /\ state # "AgentSpeaking" /\ state' = "AgentSpeaking"
  <2>1. OnAgentTextArrived(v) /\ state = "AwaitingAgent" /\ current_turn = v
        /\ UNCHANGED <<current_turn, turn_counter>>
    BY <1>0, <1>5
    DEF HandleTextChunk, NoCall, OnAgentTextArrived, IsCurrent, Ignored, machine, turnVars
  <2>2. pending_cancel_turn = NoTurn /\ v # NoTurn
    BY <1>0, <2>1 DEF TurnsOK, TurnStructure, Turn, NoTurn
  <2>3. ~ PB!Recognises(playback, v)
    BY <1>0, <2>1, <2>2 DEF Settled, Agree, PB!Recognises, PB!IsLive, PB!IsPaused
  <2>4. playback'.live = <<>>
    BY <1>0, <1>5, <2>1, <2>3 DEF HandleTextChunk, PB!Start, PlaybackStates
  <2>5. Held(playback', t) = 0
    BY <2>4, CountEmpty DEF Held
  <2>6. t = v => InFlight(t) = 0
    BY <1>0, <1>1, <2>1, <2>3 DEF CoverInv, PhrasesKnown, OnItsWay
  <2>7. PICK n : n = InFlight(t)'
    OBVIOUS
  <2>8. /\ t > turn_counter' => unheard'[t] = 0
        /\ t = current_turn' => n + Held(playback', t) <= unheard'[t]
                               /\ unheard'[t] <= tts_pending'[t] + Held(playback', t)
    BY <1>0, <1>1, <1>5, <2>1, <2>5, <2>6, <2>7 DEF HeardOK
  <2>. QED  BY <1>0, <1>5, <2>7, <2>8 DEF HeardOK, Held
<1>. QED  BY <1>3, <1>4, <1>5 DEF DrainAgent

(* The end of a reply without audio: nothing is pending where a turn is heard. *)
LEMMA FinishHeard ==
  ASSUME Types, Types', HeardInv, TurnsGo, agenda # <<>>, FinishTurnIfSilent(Head(agenda)),
         NEW t \in Turn
  PROVE  HeardOK(t)'
<1>. DEFINE v == Head(agenda).turn
<1>0. /\ UNCHANGED <<playback, unheard, tts_requests, tts_results>>
      /\ tts_pending \in [Turn -> Nat] /\ tts_pending[t] \in Nat
      /\ HeardOK(t) /\ unheard[t] \in Int
  BY DEF FinishTurnIfSilent, ttsVars, Types, LoopTypes, HeardInv
<1>1. InFlight(t)' = InFlight(t) /\ InFlight(t) \in Nat /\ Held(playback, t) \in Nat
  BY <1>0, FlightKept, FlightTypes, HeldType
<1>2. t = current_turn /\ state = "AgentSpeaking" => tts_pending'[t] = tts_pending[t]
  <2>. SUFFICES ASSUME t = current_turn, state = "AgentSpeaking"
                PROVE  tts_pending'[t] = tts_pending[t]
    OBVIOUS
  <2>1. PB!Recognises(playback, t)
    BY DEF HeardInv, Undisturbed, PB!Recognises, PB!IsLive
  <2>2. CASE UNCHANGED tts_pending
    BY <2>2
  <2>3. CASE NothingLeftToPlay(v) /\ tts_pending' = [tts_pending EXCEPT ![v] = 0]
    BY <1>0, <2>1, <2>3 DEF NothingLeftToPlay
  <2>. QED  BY <2>2, <2>3 DEF FinishTurnIfSilent, SignalDrained
<1>3. t = current_turn /\ state = "AgentSpeaking" =>
        /\ InFlight(t)' + Held(playback', t) - unheard'[t]
             <= InFlight(t) + Held(playback, t) - unheard[t]
        /\ unheard'[t] - tts_pending'[t] - Held(playback', t)
             <= unheard[t] - tts_pending[t] - Held(playback, t)
  <2>1. Held(playback', t) = Held(playback, t) /\ unheard'[t] = unheard[t]
    BY <1>0
  <2>. QED  BY <1>0, <1>1, <1>2, <2>1
<1>4. unheard'[t] = unheard[t]
  BY <1>0
<1>. QED  BY <1>0, <1>3, <1>4, HeardKept

LEMMA HeardStep ==
  ASSUME Unbroken, Types, Types', AgreeInv, CoverInv, HeardInv, [PNext]_pvars
  PROVE  HeardInv'
<1>. DEFINE o == Head(agenda)
            Kept == unheard' \in [Turn -> Int] /\ \A t \in Turn : HeardOK(t)'
<1>0. unheard \in [Turn -> Int] /\ tts # "dead" /\ \A t \in Turn : tts_pending[t] \in Nat
  BY DEF HeardInv, Types, LoopTypes
<1>1. Undisturbed' /\ Uninterrupted
  BY UndisturbedStep, UnbrokenSays DEF HeardInv
<1>2. OwnPieces(playback)'
  <2>1. OwnPieces(playback')
    BY OwnStep DEF HeardInv
  <2>. QED  BY <2>1 DEF OwnPieces
<1>3. ASSUME UNCHANGED <<unheard, tts_pending>>, TurnsGo,
             \A t \in Turn : InFlight(t)' <= InFlight(t),
             state = "AgentSpeaking" => playback'.live = playback.live
      PROVE  Kept
  <2>1. \A t \in Turn : tts_pending'[t] >= tts_pending[t]
    BY <1>0, <1>3
  <2>. HIDE DEF HeardInv, TurnsGo
  <2>. QED  BY <1>0, <1>3, <2>1, QuietHeard
<1>4. ASSUME UNCHANGED <<tts_requests, tts_results>>
      PROVE  \A t \in Turn : InFlight(t)' <= InFlight(t)
  BY <1>4, FlightKept, FlightTypes
<1>5. CASE Act
  <2>1. TurnsGo /\ agenda # <<>>
    BY <1>5, <1>1, StepTurnsGo DEF Act, DrainAgent, Idling, HeardInv
  <2>2. CASE SynthesizeChunk(o)
    <3>1. \A t \in Turn : unheard' \in [Turn -> Int] /\ HeardOK(t)'
      BY <2>1, <2>2, SynthesizeHeard
    <3>2. unheard' \in [Turn -> Int]
      <4>1. o \in Items /\ o.kind = "Synthesize"
        BY <2>1, <2>2, HeadItem DEF Types, LoopTypes, SynthesizeChunk
      <4>. QED  BY <3>1, <4>1, ItemFields
    <3>3. tts' = tts
      BY <2>2 DEF SynthesizeChunk, SendTts, ttsVars
    <3>. QED  BY <1>0, <1>1, <1>2, <3>1, <3>2, <3>3 DEF HeardInv
  <2>3. CASE FinishTurnIfSilent(o)
    <3>1. \A t \in Turn : HeardOK(t)'
      BY <2>1, <2>3, FinishHeard
    <3>2. UNCHANGED <<unheard, tts>>
      BY <2>3 DEF FinishTurnIfSilent, ttsVars
    <3>. QED  BY <1>0, <1>1, <1>2, <3>1, <3>2 DEF HeardInv
  <2>4. CASE ActPlayback(o)
    <3>1. UNCHANGED <<unheard, tts_pending, tts, tts_requests, tts_results>>
      BY <2>4 DEF ActPlayback, ttsVars
    <3>2. state = "AgentSpeaking" => playback' = playback
      BY <2>1, <2>4, NobodySilences DEF ActPlayback, AgreeInv, HeardInv
    <3>. QED  BY <1>0, <1>1, <1>2, <1>3, <1>4, <2>1, <3>1, <3>2 DEF HeardInv
  <2>5. CASE ActCancelSynthesis(o)
    <3>1. UNCHANGED <<unheard, tts_pending, tts, tts_results>>
      BY <2>5 DEF ActCancelSynthesis, SendTts
    <3>2. state # "AgentSpeaking"
      BY <2>1, <2>5, NobodySilences DEF ActCancelSynthesis, AgreeInv, HeardInv
    <3>3. \A t \in Turn : InFlight(t)' <= InFlight(t)
      BY <2>1, <2>5, CancelFlight, FlightTypes
    <3>. QED  BY <1>0, <1>1, <1>2, <1>3, <2>1, <3>1, <3>2, <3>3 DEF HeardInv
  <2>6. CASE ~ (SynthesizeChunk(o) \/ FinishTurnIfSilent(o) \/ ActPlayback(o) \/ ActCancelSynthesis(o))
    <3>1. UNCHANGED <<unheard, playback, tts_pending, tts, tts_requests, tts_results>>
      BY <1>5, <2>6
      DEF Act, ActCapture, ActSubmit, ActReplay, ActState, ActStateResetting, CallMachine,
          ResetRecognizer, DetectSpeech, TranscribeFrame, playVars, ttsVars
    <3>. QED  BY <1>0, <1>1, <1>2, <1>3, <1>4, <2>1, <3>1 DEF HeardInv
  <2>. QED  BY <2>2, <2>3, <2>4, <2>5, <2>6
<1>6. CASE DrainAgent
  <2>1. \A t \in Turn : HeardOK(t)'
    BY <1>6, TextHeard
  <2>2. UNCHANGED <<unheard, tts>>
    BY <1>6 DEF DrainAgent, ttsVars
  <2>. QED  BY <1>0, <1>1, <1>2, <2>1, <2>2 DEF HeardInv
<1>7. CASE DrainTts
  <2>1. TurnsGo
    BY <1>7, <1>1, StepTurnsGo DEF DrainTts, DrainAgent, HeardInv
  <2>2. \A t \in Turn : HeardOK(t)'
    BY <1>7, <2>1, ResultHeard
  <2>3. UNCHANGED <<unheard, tts>>
    BY <1>7 DEF DrainTts
  <2>. QED  BY <1>0, <1>1, <1>2, <2>2, <2>3 DEF HeardInv
<1>8. CASE FeedPlayback
  <2>1. TurnsGo
    BY <1>8, <1>1, StepTurnsGo DEF FeedPlayback, DrainAgent, HeardInv
  <2>2. \A t \in Turn : unheard' \in [Turn -> Int] /\ HeardOK(t)'
    BY <1>8, <2>1, FeedHeard
  <2>3. unheard' \in [Turn -> Int]
    <3>1. unheard' = [u \in Turn |-> unheard[u] - Finished(u)]
      BY <1>8 DEF FeedPlayback, Feed, FeedEndingIf
    <3>2. \A u \in Turn : Finished(u) \in Nat
      BY <1>8, FedHeld
    <3>. QED  BY <1>0, <3>1, <3>2
  <2>4. tts' = tts
    BY <1>8 DEF FeedPlayback, ttsVars
  <2>. QED  BY <1>0, <1>1, <1>2, <2>2, <2>3, <2>4 DEF HeardInv
<1>9. CASE TtsWork
  <2>1. TurnsGo
    <3>1. UNCHANGED machine
      BY <1>9 DEF TtsWork, OrchestratorIdle, vars
    <3>. QED  BY <3>1, QuietTurnsGo DEF Types, MachineTypes
  <2>2. UNCHANGED <<unheard, playback, tts_pending, tts>>
    BY <1>9 DEF TtsWork, OrchestratorIdle
  <2>3. \A t \in Turn : InFlight(t)' <= InFlight(t)
    BY <1>9, WorkerFlight
  <2>. QED  BY <1>0, <1>1, <1>2, <1>3, <2>1, <2>2, <2>3 DEF HeardInv
<1>10. CASE DrainControl \/ Shutdown \/ TickMachine \/ PumpFrame \/ NoFrame \/ CheckDevice
           \/ DrainStt \/ SttDrained \/ AgentDrained \/ TtsDrained
  <2>1. TurnsGo
    BY <1>10, <1>1, StepTurnsGo
    DEF DrainControl, Shutdown, TickMachine, PumpFrame, NoFrame, CheckDevice, DrainStt, SttDrained,
        AgentDrained, TtsDrained, DrainAgent, HeardInv
  <2>2. UNCHANGED <<unheard, playback, tts_pending, tts, tts_requests, tts_results>>
    BY <1>0, <1>10
    DEF DrainControl, Shutdown, TickMachine, PumpFrame, NoFrame, CheckDevice, DrainStt, SttDrained,
        AgentDrained, TtsDrained, LoopOnly, playVars, ttsVars
  <2>. QED  BY <1>0, <1>1, <1>2, <1>3, <1>4, <2>1, <2>2 DEF HeardInv
<1>11. CASE SttWork \/ SttDies \/ AgentWork \/ PlayOut \/ UNCHANGED pvars
  <2>1. TurnsGo
    <3>1. UNCHANGED machine
      BY <1>11 DEF SttWork, SttDies, AgentWork, PlayOut, OrchestratorIdle, vars, pvars
    <3>. QED  BY <3>1, QuietTurnsGo DEF Types, MachineTypes
  <2>2. UNCHANGED <<unheard, playback, tts_pending, tts, tts_requests, tts_results>>
    BY <1>11
    DEF SttWork, SttDies, AgentWork, PlayOut, OrchestratorIdle, pvars, playVars, ttsVars
  <2>. QED  BY <1>0, <1>1, <1>2, <1>3, <1>4, <2>1, <2>2 DEF HeardInv
<1>. QED
  BY <1>5, <1>6, <1>7, <1>8, <1>9, <1>10, <1>11, UnbrokenSays DEF PNext, Orchestrate, Stopped

LEMMA HeardInit == ASSUME PInit PROVE HeardInv
<1>1. /\ tts_requests = <<>> /\ tts_results = <<>> /\ playback = PB!Empty /\ state = "Idle"
      /\ unheard = [t \in Turn |-> 0] /\ tts # "dead" /\ current_turn = NoTurn
  BY DEF PInit, Init
<1>2. playback.live = <<>> /\ playback.queued = <<>>
  BY <1>1 DEF PB!Empty
<1>3. Undisturbed /\ OwnPieces(playback)
  BY <1>1, <1>2 DEF Undisturbed, OwnPieces
<1>4. \A t \in Turn : HeardOK(t)
  BY <1>1 DEF HeardOK
<1>. QED  BY <1>1, <1>3, <1>4 DEF HeardInv

(* Where the agent's turn ends at its own end, none of it is left. *)
LEMMA EndIsWhole ==
  ASSUME Uninterrupted, Types, Types', AgreeInv, CoverInv, HeardInv, HeardInv', [PNext]_pvars,
         state = "AgentSpeaking", state' = "Listening"
  PROVE  unheard'[current_turn] = 0
<1>. DEFINE o == Head(agenda)
            t == current_turn
<1>0. /\ t \in Turn /\ t # NoTurn /\ TurnsOK /\ playback.live_turn = t /\ HeardOK(t)
  BY DEF Types, MachineTypes, TurnsOK, TurnStructure, HeardInv, Undisturbed
<1>1. ~ UNCHANGED machine
  BY DEF machine
<1>2. ~ PatientCall
  <2>. SUFFICES ASSUME PatientCall PROVE FALSE
    OBVIOUS
  <2>1. CallEffect /\ 1 \in DOMAIN out' /\ out'[1] = CancelPlayback
    BY <1>0, UserCallEffects DEF PatientCall, UserCall, Detectors
  <2>2. out' = <<EmitState(state')>>
    BY <2>1
    DEF CallEffect, StaysPut, Soft, Answers, Starts, Ends, Submits, Confirms, Seizes, BargesIn,
        Retracts, Moves
  <2>. QED  BY <2>1, <2>2 DEF EmitState, CancelPlayback, Plain
<1>3. ~ DrainAgent
  BY <1>1
  DEF DrainAgent, HandleTextChunk, OnAgentTextArrived, OnAgentTurnComplete,
      EndTurnReturnToListening, Ignored, NoCall
<1>4. CASE Act /\ FinishTurnIfSilent(o)
  <2>1. OnPlaybackDrained(o.turn) /\ NothingLeftToPlay(o.turn) /\ UNCHANGED unheard
    BY <1>1, <1>4 DEF FinishTurnIfSilent, SignalDrained, NoCall
  <2>2. o.turn = t
    BY <1>1, <2>1 DEF OnPlaybackDrained, IsCurrent, Ignored
  <2>3. tts_pending[t] = 0 /\ playback.live = <<>>
    BY <1>0, <2>1, <2>2 DEF NothingLeftToPlay, PB!Recognises, PB!IsLive
  <2>4. Held(playback, t) = 0
    BY <2>3, CountEmpty DEF Held
  <2>5. InFlight(t) \in Nat /\ unheard[t] \in Int
    BY <1>0, FlightTypes DEF HeardOK
  <2>. HIDE DEF t
  <2>6. unheard[t] = 0
    BY <1>0, <2>3, <2>4, <2>5 DEF HeardOK, t
  <2>. QED  BY <2>1, <2>6 DEF t
<1>5. CASE FeedPlayback
  <2>1. RunsDry /\ tts_pending[t] = 0
    BY <1>0, <1>1, <1>5 DEF FeedPlayback, Feed, FeedEndingIf, NoCall
  <2>2. unheard'[t] = unheard[t] - Finished(t)
    BY <1>0, <1>5 DEF FeedPlayback, Feed, FeedEndingIf
  <2>3. Finished(t) \in Nat /\ Held(playback, t) = Finished(t) + Held(playback', t)
    BY <1>0, <1>5, FedHeld
  <2>4. playback'.live = <<>>
    BY <1>5, <2>1, FedAway
  <2>5. Held(playback', t) = 0
    BY <2>4, CountEmpty DEF Held
  <2>6. InFlight(t) \in Nat /\ unheard[t] \in Int
    BY <1>0, FlightTypes DEF HeardOK
  <2>. HIDE DEF t
  <2>7. unheard[t] = Finished(t)
    BY <1>0, <2>1, <2>3, <2>5, <2>6 DEF HeardOK, t
  <2>8. unheard'[t] = 0
    BY <2>2, <2>3, <2>7
  <2>. QED  BY <2>8 DEF t
<1>. QED  BY <1>1, <1>2, <1>3, <1>4, <1>5, UninterruptedCall

(* Provided the user does not talk over the agent and the synthesizer does not
   die: when the agent's turn ends because playback drained, each phrase of it
   that was asked for has been given whole to the engine; for any number of
   turns, phrases and pieces, and also when phrases cannot be synthesized, text
   comes late or devices are rebuilt (feed_playback, nothing_left_to_play and
   signal_drained of pipeline.rs). *)
THEOREM RepliesAreWhole ==
  ASSUME {"barge-in", "tts dies"} \cap Hazards = {}
  PROVE  PSpec => WholeReplyHeard
<1>1. Unbroken /\ Uninterrupted
  BY Zenon DEF Unbroken, Uninterrupted
<1>2. PInit => HeardInv
  BY HeardInit
<1>3. Types /\ Types' /\ AgreeInv /\ CoverInv /\ HeardInv /\ [PNext]_pvars => HeardInv'
  BY <1>1, HeardStep
<1>4. /\ Types /\ Types' /\ AgreeInv /\ CoverInv /\ HeardInv /\ HeardInv' /\ [PNext]_pvars
      => [state = "AgentSpeaking" /\ state' = "Listening" => unheard'[current_turn] = 0]_pvars
  BY <1>1, EndIsWhole
<1>. QED  BY <1>2, <1>3, <1>4, CoverAlways, PTL DEF PSpec, WholeReplyHeard

----------------------------------------------------------------------------
(* A turn is submitted with words of its own. *)

IsAudio(r) == r.kind = "PushAudio"

(* Words of u lie at place i: what the recognizer holds is at place 0, what the
   requests s bring is at theirs. *)
WordsAt(h, s, i, u) ==
  \/ i = 0 /\ u \in h
  \/ i \in DOMAIN s /\ IsAudio(s[i]) /\ s[i].of = u

(* Only words lie between places i and j. *)
Apart(s, i, j) == \A k \in DOMAIN s : i < k /\ k < j => IsAudio(s[k])

(* Each finish takes words of its own turn only. *)
OwnWords(h, s) ==
  \A u \in Turn, i \in {0} \cup DOMAIN s, j \in DOMAIN s :
     WordsAt(h, s, i, u) /\ i < j /\ Apart(s, i, j) /\ s[j].kind = "FinishUtterance"
       => s[j].turn = u

(* Words that nothing in the queue ends. *)
Loose(h, s, u) ==
  \E i \in {0} \cup DOMAIN s :
     WordsAt(h, s, i, u) /\ \A k \in DOMAIN s : i < k => IsAudio(s[k])

(* Words of u may still be added, or what ends them is about to be sent. *)
Announces(n, s) == n \in DOMAIN agenda /\ agenda[n] = EmitState(s)
Open(u) ==
  \/ u = current_turn /\ (state = "UserSpeaking" \/ Announces(1, "Finalizing"))
  \/ Announces(1, "Idle")
  \/ Kind(agenda, 1, "StopCapture") /\ Announces(2, "Idle")

(* What is to be submitted is of its turn, and nothing is replayed. *)
Faithful(o) ==
  /\ o.kind # "ReplayPreRoll"
  /\ o.kind \in {"DispatchFinal", "SubmitUtterance", "Final"} => o.text \subseteq {o.turn}
AllFaithful(s) == \A i \in DOMAIN s : Faithful(s[i])

UtteranceInv ==
  /\ state # "Interrupting"
  /\ OwnWords(hearing, stt_requests)
  /\ stt = "running" => \A u \in Turn : Loose(hearing, stt_requests, u) => Open(u)
  /\ AllFaithful(stt_results) /\ AllFaithful(agenda)

LEMMA NothingSent == ASSUME NEW h \in SUBSET Turn PROVE OwnWords(h, <<>>)
BY DEF OwnWords

LEMMA AddWords ==
  ASSUME NEW S, NEW s \in Seq(S), NEW r \in S, IsAudio(r), NEW h, OwnWords(h, s)
  PROVE  /\ OwnWords(h, Append(s, r))
         /\ \A u \in Turn : Loose(h, Append(s, r), u) => Loose(h, s, u) \/ u = r.of
<1>. DEFINE t == Append(s, r)
<1>0. /\ DOMAIN s = 1..Len(s) /\ DOMAIN t = 1..(Len(s) + 1) /\ Len(s) \in Nat
      /\ t[Len(s) + 1] = r /\ \A k \in 1..Len(s) : t[k] = s[k]
  OBVIOUS
<1>. HIDE DEF t
<1>1. ASSUME NEW u \in Turn, NEW i \in {0} \cup DOMAIN t, NEW j \in DOMAIN t,
             WordsAt(h, t, i, u), i < j, Apart(t, i, j), t[j].kind = "FinishUtterance"
      PROVE  t[j].turn = u
  <2>1. j # Len(s) + 1
    BY <1>0, <1>1 DEF IsAudio
  <2>2. j \in DOMAIN s /\ i \in {0} \cup DOMAIN s /\ s[j] = t[j]
    BY <1>0, <1>1, <2>1
  <2>3. WordsAt(h, s, i, u)
    BY <1>0, <1>1, <2>2 DEF WordsAt
  <2>4. Apart(s, i, j)
    BY <1>0, <1>1 DEF Apart
  <2>. QED  BY <1>1, <2>2, <2>3, <2>4 DEF OwnWords
<1>2. ASSUME NEW u \in Turn, Loose(h, t, u) PROVE Loose(h, s, u) \/ u = r.of
  <2>1. PICK i \in {0} \cup DOMAIN t : WordsAt(h, t, i, u) /\ \A k \in DOMAIN t : i < k => IsAudio(t[k])
    BY <1>2 DEF Loose
  <2>2. CASE i = Len(s) + 1
    BY <1>0, <2>1, <2>2 DEF WordsAt
  <2>3. CASE i # Len(s) + 1
    <3>1. i \in {0} \cup DOMAIN s /\ WordsAt(h, s, i, u)
      BY <1>0, <2>1, <2>3 DEF WordsAt
    <3>2. \A k \in DOMAIN s : i < k => IsAudio(s[k])
      BY <1>0, <2>1
    <3>. QED  BY <3>1, <3>2 DEF Loose
  <2>. QED  BY <2>2, <2>3
<1>. QED  BY <1>1, <1>2 DEF OwnWords, t

(* A finish or a reset ends what is loose. *)
LEMMA AddEnd ==
  ASSUME NEW S, NEW s \in Seq(S), NEW r \in S, ~ IsAudio(r), NEW h, OwnWords(h, s),
         r.kind = "FinishUtterance" => \A u \in Turn : Loose(h, s, u) => u = r.turn
  PROVE  /\ OwnWords(h, Append(s, r))
         /\ \A u \in Turn : ~ Loose(h, Append(s, r), u)
<1>. DEFINE t == Append(s, r)
<1>0. /\ DOMAIN s = 1..Len(s) /\ DOMAIN t = 1..(Len(s) + 1) /\ Len(s) \in Nat
      /\ t[Len(s) + 1] = r /\ \A k \in 1..Len(s) : t[k] = s[k]
  OBVIOUS
<1>. HIDE DEF t
<1>1. ASSUME NEW u \in Turn, NEW i \in {0} \cup DOMAIN t, NEW j \in DOMAIN t,
             WordsAt(h, t, i, u), i < j, Apart(t, i, j), t[j].kind = "FinishUtterance"
      PROVE  t[j].turn = u
  <2>1. i \in {0} \cup DOMAIN s /\ WordsAt(h, s, i, u)
    BY <1>0, <1>1 DEF WordsAt
  <2>2. CASE j = Len(s) + 1
    <3>1. \A k \in DOMAIN s : i < k => IsAudio(s[k])
      BY <1>0, <1>1, <2>2 DEF Apart
    <3>2. Loose(h, s, u)
      BY <2>1, <3>1 DEF Loose
    <3>. QED  BY <1>0, <1>1, <2>2, <3>2
  <2>3. CASE j # Len(s) + 1
    <3>1. j \in DOMAIN s /\ s[j] = t[j]
      BY <1>0, <2>3
    <3>2. Apart(s, i, j)
      BY <1>0, <1>1 DEF Apart
    <3>. QED  BY <1>1, <2>1, <3>1, <3>2 DEF OwnWords
  <2>. QED  BY <2>2, <2>3
<1>2. ASSUME NEW u \in Turn, Loose(h, t, u) PROVE FALSE
  <2>1. PICK i \in {0} \cup DOMAIN t : WordsAt(h, t, i, u) /\ \A k \in DOMAIN t : i < k => IsAudio(t[k])
    BY <1>2 DEF Loose
  <2>2. i = Len(s) + 1
    BY <1>0, <2>1
  <2>. QED  BY <1>0, <2>1, <2>2 DEF WordsAt
<1>. QED  BY <1>1, <1>2 DEF OwnWords, t

LEMMA TailAt ==
  ASSUME NEW S, NEW s \in Seq(S), s # <<>>
  PROVE  /\ DOMAIN s = 1..Len(s) /\ DOMAIN Tail(s) = 1..(Len(s) - 1) /\ Len(s) \in Nat \ {0}
         /\ \A k \in DOMAIN Tail(s) : Tail(s)[k] = s[k + 1]
         /\ Head(s) = s[1]
OBVIOUS

(* The worker takes words from the queue, and what it holds grows. *)
LEMMA TakeWords ==
  ASSUME NEW S, NEW s \in Seq(S), s # <<>>, IsAudio(Head(s)), NEW h, OwnWords(h, s)
  PROVE  /\ OwnWords(h \cup {Head(s).of}, Tail(s))
         /\ \A u \in Turn : Loose(h \cup {Head(s).of}, Tail(s), u) => Loose(h, s, u)
<1>. DEFINE t == Tail(s)
            g == h \cup {Head(s).of}
<1>0. /\ DOMAIN s = 1..Len(s) /\ DOMAIN t = 1..(Len(s) - 1) /\ Len(s) \in Nat \ {0}
      /\ \A k \in DOMAIN t : t[k] = s[k + 1]
      /\ IsAudio(s[1]) /\ g = h \cup {s[1].of}
  BY TailAt
<1>. HIDE DEF t, g
<1>1. ASSUME NEW u, NEW i \in {0} \cup DOMAIN t, WordsAt(g, t, i, u)
      PROVE  \E m \in {0} \cup DOMAIN s : WordsAt(h, s, m, u) /\ (m = i + 1 \/ (i = 0 /\ m = 0))
  <2>1. CASE i = 0 /\ u \in h
    BY <2>1 DEF WordsAt
  <2>2. CASE i = 0 /\ u = s[1].of
    BY <1>0, <2>2 DEF WordsAt
  <2>3. CASE i # 0
    <3>1. i \in DOMAIN t /\ i + 1 \in DOMAIN s
      BY <1>0, <1>1, <2>3
    <3>. QED  BY <1>0, <1>1, <2>3, <3>1 DEF WordsAt
  <2>. QED  BY <1>0, <1>1, <2>1, <2>2, <2>3 DEF WordsAt
<1>2. ASSUME NEW u \in Turn, NEW i \in {0} \cup DOMAIN t, NEW j \in DOMAIN t,
             WordsAt(g, t, i, u), i < j, Apart(t, i, j), t[j].kind = "FinishUtterance"
      PROVE  t[j].turn = u
  <2>1. PICK m \in {0} \cup DOMAIN s : WordsAt(h, s, m, u) /\ (m = i + 1 \/ (i = 0 /\ m = 0))
    BY <1>1, <1>2
  <2>2. j + 1 \in DOMAIN s /\ s[j + 1] = t[j] /\ m < j + 1
    BY <1>0, <1>2, <2>1
  <2>3. Apart(s, m, j + 1)
    <3>. SUFFICES ASSUME NEW k \in DOMAIN s, m < k, k < j + 1 PROVE IsAudio(s[k])
      BY DEF Apart
    <3>1. CASE k = 1
      BY <1>0, <3>1
    <3>2. CASE k # 1
      <4>1. k - 1 \in DOMAIN t /\ t[k - 1] = s[k] /\ i < k - 1 /\ k - 1 < j
        BY <1>0, <1>2, <2>1, <3>2
      <4>. QED  BY <1>2, <4>1 DEF Apart
    <3>. QED  BY <3>1, <3>2
  <2>. QED  BY <1>2, <2>1, <2>2, <2>3 DEF OwnWords
<1>3. ASSUME NEW u \in Turn, Loose(g, t, u) PROVE Loose(h, s, u)
  <2>1. PICK i \in {0} \cup DOMAIN t : WordsAt(g, t, i, u) /\ \A k \in DOMAIN t : i < k => IsAudio(t[k])
    BY <1>3 DEF Loose
  <2>2. PICK m \in {0} \cup DOMAIN s : WordsAt(h, s, m, u) /\ (m = i + 1 \/ (i = 0 /\ m = 0))
    BY <1>1, <2>1
  <2>3. ASSUME NEW k \in DOMAIN s, m < k PROVE IsAudio(s[k])
    <3>1. CASE k = 1
      BY <1>0, <3>1
    <3>2. CASE k # 1
      <4>1. k - 1 \in DOMAIN t /\ t[k - 1] = s[k] /\ i < k - 1
        BY <1>0, <2>2, <2>3, <3>2
      <4>. QED  BY <2>1, <4>1
    <3>. QED  BY <3>1, <3>2
  <2>. QED  BY <2>2, <2>3 DEF Loose
<1>. QED  BY <1>2, <1>3 DEF OwnWords, t, g

(* It takes a finish or a reset, and holds nothing any more. *)
LEMMA TakeEnd ==
  ASSUME NEW S, NEW s \in Seq(S), s # <<>>, ~ IsAudio(Head(s)), NEW h \in SUBSET Turn, OwnWords(h, s)
  PROVE  /\ Head(s).kind = "FinishUtterance" => h \subseteq {Head(s).turn}
         /\ OwnWords({}, Tail(s))
         /\ \A u \in Turn : Loose({}, Tail(s), u) => Loose(h, s, u)
<1>. DEFINE t == Tail(s)
<1>0. /\ DOMAIN s = 1..Len(s) /\ DOMAIN t = 1..(Len(s) - 1) /\ Len(s) \in Nat \ {0}
      /\ \A k \in DOMAIN t : t[k] = s[k + 1]
      /\ Head(s) = s[1]
  BY TailAt
<1>1. Head(s).kind = "FinishUtterance" => h \subseteq {Head(s).turn}
  <2>. SUFFICES ASSUME Head(s).kind = "FinishUtterance", NEW u \in h PROVE s[1].turn = u
    BY <1>0
  <2>1. WordsAt(h, s, 0, u) /\ Apart(s, 0, 1) /\ 1 \in DOMAIN s /\ u \in Turn
    BY <1>0 DEF WordsAt, Apart
  <2>. QED  BY <1>0, <2>1 DEF OwnWords
<1>. HIDE DEF t
<1>2. ASSUME NEW u, NEW i \in {0} \cup DOMAIN t, WordsAt({}, t, i, u)
      PROVE  i + 1 \in DOMAIN s /\ WordsAt(h, s, i + 1, u) /\ i # 0
  BY <1>0, <1>2 DEF WordsAt
<1>3. ASSUME NEW u \in Turn, NEW i \in {0} \cup DOMAIN t, NEW j \in DOMAIN t,
             WordsAt({}, t, i, u), i < j, Apart(t, i, j), t[j].kind = "FinishUtterance"
      PROVE  t[j].turn = u
  <2>1. i + 1 \in DOMAIN s /\ WordsAt(h, s, i + 1, u) /\ i # 0
    BY <1>2, <1>3
  <2>2. j + 1 \in DOMAIN s /\ s[j + 1] = t[j] /\ i + 1 < j + 1
    BY <1>0, <1>3
  <2>3. Apart(s, i + 1, j + 1)
    <3>. SUFFICES ASSUME NEW k \in DOMAIN s, i + 1 < k, k < j + 1 PROVE IsAudio(s[k])
      BY DEF Apart
    <3>1. k - 1 \in DOMAIN t /\ t[k - 1] = s[k] /\ i < k - 1 /\ k - 1 < j
      BY <1>0, <1>3
    <3>. QED  BY <1>3, <3>1 DEF Apart
  <2>. QED  BY <1>3, <2>1, <2>2, <2>3 DEF OwnWords
<1>4. ASSUME NEW u \in Turn, Loose({}, t, u) PROVE Loose(h, s, u)
  <2>1. PICK i \in {0} \cup DOMAIN t : WordsAt({}, t, i, u) /\ \A k \in DOMAIN t : i < k => IsAudio(t[k])
    BY <1>4 DEF Loose
  <2>2. i + 1 \in DOMAIN s /\ WordsAt(h, s, i + 1, u) /\ i # 0
    BY <1>2, <2>1
  <2>3. ASSUME NEW k \in DOMAIN s, i + 1 < k PROVE IsAudio(s[k])
    <3>1. k - 1 \in DOMAIN t /\ t[k - 1] = s[k] /\ i < k - 1
      BY <1>0, <2>1, <2>3
    <3>. QED  BY <2>1, <3>1
  <2>. QED  BY <2>2, <2>3 DEF Loose
<1>. QED  BY <1>1, <1>3, <1>4 DEF OwnWords, t

(* The parts of the invariant, in the next state. *)
LEMMA UtteranceNext ==
  ASSUME state' # "Interrupting", OwnWords(hearing', stt_requests'),
         stt' = "running" => \A u \in Turn : Loose(hearing', stt_requests', u) => Open(u)',
         AllFaithful(stt_results'), AllFaithful(agenda')
  PROVE  UtteranceInv'
BY DEF UtteranceInv, OwnWords, Loose, WordsAt, Apart, IsAudio, AllFaithful, Faithful

(* A step that sends the recognizer nothing. *)
LEMMA WordsKept ==
  ASSUME UtteranceInv, UNCHANGED <<stt_requests, hearing>>, stt' = "running" => stt = "running",
         state' # "Interrupting", AllFaithful(stt_results'), AllFaithful(agenda'),
         \A u \in Turn : Open(u) => Open(u)'
  PROVE  UtteranceInv'
<1>1. OwnWords(hearing', stt_requests')
  BY DEF UtteranceInv
<1>2. stt' = "running" => \A u \in Turn : Loose(hearing', stt_requests', u) => Open(u)'
  BY DEF UtteranceInv
<1>. QED  BY <1>1, <1>2, UtteranceNext

LEMMA FaithfulParts ==
  /\ AllFaithful(<<>>)
  /\ \A S : \A s \in Seq(S) : s # <<>> /\ AllFaithful(s) => Faithful(Head(s)) /\ AllFaithful(Tail(s))
  /\ \A S : \A s, t \in Seq(S) : AllFaithful(s) /\ AllFaithful(t) => AllFaithful(s \o t)
<1>1. AllFaithful(<<>>)
  BY DEF AllFaithful
<1>2. ASSUME NEW S, NEW s \in Seq(S), s # <<>>, AllFaithful(s)
      PROVE  Faithful(Head(s)) /\ AllFaithful(Tail(s))
  BY <1>2, TailAt DEF AllFaithful
<1>3. ASSUME NEW S, NEW s \in Seq(S), NEW t \in Seq(S), AllFaithful(s), AllFaithful(t)
      PROVE  AllFaithful(s \o t)
  <2>. SUFFICES ASSUME NEW i \in DOMAIN (s \o t) PROVE Faithful((s \o t)[i])
    BY DEF AllFaithful
  <2>1. CASE i \in DOMAIN s
    <3>1. (s \o t)[i] = s[i]
      BY <2>1
    <3>. QED  BY <1>3, <2>1, <3>1 DEF AllFaithful
  <2>2. CASE i \notin DOMAIN s
    <3>1. i - Len(s) \in DOMAIN t /\ (s \o t)[i] = t[i - Len(s)]
      BY <2>2
    <3>. QED  BY <1>3, <3>1 DEF AllFaithful
  <2>. QED  BY <2>1, <2>2
<1>. QED  BY <1>1, <1>2, <1>3

(* An item that announces nothing is not what keeps a turn open. *)
LEMMA OpenOtherwise ==
  ASSUME NEW u, Open(u),
         agenda = <<>> \/ agenda[1].kind \notin {"EmitState", "StopCapture"}
  PROVE  state = "UserSpeaking" /\ u = current_turn
<1>1. \A n, s : Announces(n, s) => n \in DOMAIN agenda /\ agenda[n].kind = "EmitState"
  BY DEF Announces, EmitState
<1>2. agenda = <<>> => DOMAIN agenda = {}
  OBVIOUS
<1>. QED  BY <1>1, <1>2 DEF Open, Kind

(* What a call leaves of a turn that was open. *)
LEMMA OpenAfterCall ==
  ASSUME CallEffect, state = "UserSpeaking", state' # "Interrupting",
         NEW rest \in Seq(Items), out' \in Seq(Items), agenda' = out' \o rest,
         NEW u, u = current_turn
  PROVE  Open(u)'
<1>1. \/ state' = "UserSpeaking" /\ current_turn' = u
      \/ out' = <<EmitState("Finalizing")>> /\ current_turn' = u
      \/ out' = <<StopCapture, EmitState("Idle")>>
  BY DEF CallEffect, StaysPut, Soft, Answers, Starts, Ends, Submits, Confirms, Seizes, BargesIn,
         Retracts, Moves, SameTurn, turnVars
<1>2. CASE state' = "UserSpeaking" /\ current_turn' = u
  BY <1>2 DEF Open
<1>3. CASE out' = <<EmitState("Finalizing")>> /\ current_turn' = u
  <2>1. 1 \in DOMAIN agenda' /\ agenda'[1] = EmitState("Finalizing")
    BY <1>3
  <2>. QED  BY <1>3, <2>1 DEF Open, Announces
<1>4. CASE out' = <<StopCapture, EmitState("Idle")>>
  <2>1. /\ 1 \in DOMAIN agenda' /\ agenda'[1] = StopCapture
        /\ 2 \in DOMAIN agenda' /\ agenda'[2] = EmitState("Idle")
    BY <1>4
  <2>. QED  BY <2>1, OutputFields DEF Open, Announces, Kind
<1>. QED  BY <1>1, <1>2, <1>3, <1>4

(* What a call returns speaks of no words, unless it is the one that submits. *)
LEMMA FaithfulReturns ==
  ASSUME CallEffect, state # "Interrupting", state' # "Interrupting",
         state' = "Submitting" => state = "Submitting"
  PROVE  AllFaithful(out')
<1>. DEFINE Mute(o) == o.kind \notin {"ReplayPreRoll", "DispatchFinal", "SubmitUtterance", "Final"}
<1>1. /\ Mute(ShowPartial) /\ Mute(CancelPlayback) /\ Mute(FlushOutputBuffer)
      /\ Mute(StartCapture) /\ Mute(StopCapture)
      /\ \A t : Mute(CancelSynthesis(t)) /\ Mute(EmitState(t))
  BY OutputFields
<1>. HIDE DEF Mute
<1>2. ~ Submits /\ ~ Confirms /\ ~ BargesIn /\ ~ Retracts
  BY DEF Submits, Confirms, BargesIn, Retracts, Moves
<1>3. CASE StaysPut \/ Soft \/ Answers
  <2>1. out' = <<>> \/ \E o : Mute(o) /\ out' = <<o>>
    BY <1>1, <1>3 DEF StaysPut, Soft, Answers
  <2>2. \A i \in DOMAIN out' : Mute(out'[i])
    BY <2>1
  <2>. QED  BY <2>2 DEF AllFaithful, Faithful, Mute
<1>4. CASE Starts \/ Ends \/ Seizes
  <2>1. \/ \E o, p : Mute(o) /\ Mute(p) /\ out' = <<o, p>>
        \/ \E o, p, q, r : Mute(o) /\ Mute(p) /\ Mute(q) /\ Mute(r) /\ out' = <<o, p, q, r>>
        \/ \E o, p, q, r, x : /\ Mute(o) /\ Mute(p) /\ Mute(q) /\ Mute(r) /\ Mute(x)
                              /\ out' = <<o, p, q, r, x>>
    BY <1>1, <1>4 DEF Starts, Ends, Seizes
  <2>2. \A i \in DOMAIN out' : Mute(out'[i])
    BY <2>1
  <2>. QED  BY <2>2 DEF AllFaithful, Faithful, Mute
<1>. QED  BY <1>2, <1>3, <1>4 DEF CallEffect

(* A step that calls the machine. *)
LEMMA CallWords ==
  ASSUME UtteranceInv, Types, MachineTypes', CallEffect, state' # "Interrupting",
         agenda = <<>> \/ agenda[1].kind \notin {"EmitState", "StopCapture"},
         NEW rest \in Seq(Items), ActOnOutputsThen(rest), AllFaithful(rest), AllFaithful(out'),
         UNCHANGED <<stt, stt_requests, hearing>>, AllFaithful(stt_results')
  PROVE  UtteranceInv'
<1>1. agenda' = out' \o rest /\ out' \in Seq(Items)
  BY CallAgenda DEF ActOnOutputsThen
<1>2. AllFaithful(agenda')
  BY <1>1, FaithfulParts
<1>3. ASSUME NEW u \in Turn, Open(u) PROVE Open(u)'
  <2>1. state = "UserSpeaking" /\ u = current_turn
    BY <1>3, OpenOtherwise
  <2>. QED  BY <1>1, <2>1, OpenAfterCall
<1>. QED  BY <1>2, <1>3, WordsKept

(* ... or makes no call, and begins another list. *)
LEMMA QuietWords ==
  ASSUME UtteranceInv, UNCHANGED machine,
         agenda = <<>> \/ agenda[1].kind \notin {"EmitState", "StopCapture"},
         AllFaithful(agenda'), AllFaithful(stt_results'),
         UNCHANGED <<stt_requests, hearing>>, stt' = "running" => stt = "running"
  PROVE  UtteranceInv'
<1>1. UNCHANGED <<state, current_turn>>
  BY DEF machine, turnVars
<1>2. ASSUME NEW u \in Turn, Open(u) PROVE Open(u)'
  <2>1. state = "UserSpeaking" /\ u = current_turn
    BY <1>2, OpenOtherwise
  <2>. QED  BY <1>1, <2>1 DEF Open
<1>3. state' # "Interrupting"
  BY <1>1 DEF UtteranceInv
<1>. QED  BY <1>2, <1>3, WordsKept

(* A finish or a reset is sent. *)
LEMMA EndSent ==
  ASSUME UtteranceInv, Types, UNCHANGED machine, NEW r \in SttRequests, ~ IsAudio(r), SendStt(r),
         r.kind = "FinishUtterance" => \A u \in Turn : Open(u) => u = r.turn,
         AllFaithful(agenda')
  PROVE  UtteranceInv'
<1>1. /\ UNCHANGED <<stt, hearing, stt_results, state>> /\ stt_requests \in Seq(SttRequests)
  BY DEF SendStt, Types, MessageTypes, machine
<1>2. state' # "Interrupting" /\ AllFaithful(stt_results')
  BY <1>1 DEF UtteranceInv
<1>3. CASE stt = "running"
  <2>1. stt_requests' = Append(stt_requests, r)
    BY <1>3 DEF SendStt
  <2>2. OwnWords(hearing, stt_requests) /\
        (r.kind = "FinishUtterance" => \A u \in Turn : Loose(hearing, stt_requests, u) => u = r.turn)
    BY <1>3 DEF UtteranceInv
  <2>. HIDE DEF SttRequests
  <2>3. OwnWords(hearing, Append(stt_requests, r))
        /\ \A u \in Turn : ~ Loose(hearing, Append(stt_requests, r), u)
    BY <1>1, <2>2, AddEnd
  <2>. QED  BY <1>1, <1>2, <2>1, <2>3, UtteranceNext
<1>4. CASE stt # "running"
  <2>1. UNCHANGED stt_requests
    BY <1>4 DEF SendStt
  <2>. QED  BY <1>1, <1>2, <1>4, <2>1, UtteranceNext DEF UtteranceInv
<1>. QED  BY <1>3, <1>4

LEMMA NobodyInterrupts ==
  ASSUME Uninterrupted, Types, state # "Interrupting", [PNext]_pvars
  PROVE  state' # "Interrupting"
<1>0. TurnsOK
  BY DEF Types, MachineTypes
<1>1. CASE UNCHANGED machine
  BY <1>1 DEF machine
<1>2. CASE PatientCall
  BY <1>0, <1>2, PatientCallEffects
<1>3. CASE DrainAgent
  BY <1>3
  DEF DrainAgent, HandleTextChunk, OnAgentTextArrived, OnAgentTurnComplete,
      EndTurnReturnToListening, BackToListening, Ignored, NoCall, machine
<1>4. CASE FeedPlayback \/ (Act /\ FinishTurnIfSilent(Head(agenda)))
  BY <1>4
  DEF FeedPlayback, Feed, FeedEndingIf, FinishTurnIfSilent, SignalDrained, OnPlaybackDrained,
      EndTurnReturnToListening, BackToListening, Ignored, NoCall, machine
<1>. QED  BY <1>1, <1>2, <1>3, <1>4, UninterruptedCall

(* None of these calls begins a submission. *)
MuteCall ==
  \/ NoCall \/ Control \/ Tick \/ PushFrame \/ OnSpeechStart \/ OnSpeechEnd
  \/ \E t \in Turn :
       \/ OnPartialTranscript(t) \/ OnFinalTranscriptRejected(t) \/ OnSubmitSucceeded(t)
       \/ OnAgentTextArrived(t) \/ OnAgentTurnComplete(t) \/ OnPlaybackDrained(t)

LEMMA MuteReturns ==
  ASSUME TurnsOK, MuteCall, state # "Interrupting", state' # "Interrupting"
  PROVE  CallEffect /\ AllFaithful(out')
<1>1. CallEffect
  <2>1. Called
    BY ResultCalled DEF MuteCall, Called, Next, Detectors
  <2>. QED  BY <2>1, CallKinds
<1>2. ASSUME NEW t \in Turn,
             \/ OnPartialTranscript(t) \/ OnFinalTranscriptRejected(t) \/ OnSubmitSucceeded(t)
             \/ OnAgentTextArrived(t) \/ OnAgentTurnComplete(t) \/ OnPlaybackDrained(t)
      PROVE  state' = "Submitting" => state = "Submitting"
  BY <1>2
  DEF OnPartialTranscript, OnFinalTranscriptRejected, OnSubmitSucceeded, OnAgentTextArrived,
      OnAgentTurnComplete, OnPlaybackDrained, ConfirmGenuineBargeIn, EndTurnReturnToListening,
      BackToListening, Ignored, machine
<1>3. NoCall \/ OnSpeechStart \/ OnSpeechEnd \/ PushFrame \/ Control
        => (state' = "Submitting" => state = "Submitting")
  BY DEF NoCall, Ignored, machine, Control, PushFrame, OnSessionStart, OnSessionEnd,
         EndSession, EndSessionCancelling, OnPttPressed, OnPttReleased, SeizeTurn, OnSpeechStart,
         OnSpeechEnd, ConfirmGenuineBargeIn, Finalize
<1>4. Tick => (state' = "Submitting" => state = "Submitting")
  BY DEF Tick, OnTick, TimePasses, GiveUpOnTurn, BackToListening, Timed, EndSession,
         EndSessionCancelling, ForceEndpoint, RetractBargeIn, Ignored, machine
<1>5. state' = "Submitting" => state = "Submitting"
  BY <1>2, <1>3, <1>4 DEF MuteCall
<1>. QED  BY <1>1, <1>5, FaithfulReturns

(* The call that submits hands on the words it is given. *)
LEMMA FinalReturns ==
  ASSUME TurnsOK, NEW t \in Turn, NEW text \in Text, OnFinalTranscript(t, text),
         text \subseteq {t}, state # "Interrupting", state' # "Interrupting"
  PROVE  CallEffect /\ AllFaithful(out')
<1>1. CallEffect
  BY ResultCalled, CallKinds
<1>2. CASE Ignored
  <2>1. out' = <<>> /\ AllFaithful(<<>>)
    BY <1>2, FaithfulParts DEF Ignored
  <2>2. AllFaithful(out')
    BY <2>1, Zenon
  <2>. QED  BY <1>1, <2>2
<1>3. CASE ~ Ignored
  <2>1. state = "Finalizing" /\ state' = "Submitting" /\ Return(<<SubmitUtterance(t, text)>>)
    BY <1>3 DEF OnFinalTranscript, FinalTranscriptIn
  <2>2. out' = <<SubmitUtterance(t, text), EmitState("Submitting")>>
    BY <2>1, Joined2 DEF Return
  <2>3. Faithful(SubmitUtterance(t, text)) /\ Faithful(EmitState("Submitting"))
    BY DEF Faithful, SubmitUtterance, EmitState
  <2>. DEFINE a == SubmitUtterance(t, text)
              b == EmitState("Submitting")
  <2>4. out' = <<a, b>> /\ Faithful(a) /\ Faithful(b)
    BY <2>2, <2>3
  <2>. HIDE DEF a, b
  <2>5. DOMAIN out' = 1..2 /\ out'[1] = a /\ out'[2] = b
    BY <2>4
  <2>6. \A i \in DOMAIN out' : out'[i] = a \/ out'[i] = b
    BY <2>5
  <2>7. \A i \in DOMAIN out' : Faithful(out'[i])
    <3>. SUFFICES ASSUME NEW i \in DOMAIN out' PROVE Faithful(out'[i])
      OBVIOUS
    <3>1. PICK x : x = out'[i]
      OBVIOUS
    <3>2. Faithful(x)
      BY <2>4, <2>6, <3>1, Zenon
    <3>. QED  BY <3>1, <3>2, Zenon
  <2>. QED  BY <1>1, <2>7 DEF AllFaithful
<1>. QED  BY <1>1, <1>2, <1>3

(* The change of state is acted on: the utterance is finished, or dropped. *)
LEMMA StateWords ==
  ASSUME Types, UtteranceInv, agenda # <<>>, ActState(Head(agenda)), AllFaithful(agenda')
  PROVE  UtteranceInv'
<1>. DEFINE o == Head(agenda)
<1>0. /\ o = agenda[1] /\ o.kind = "EmitState" /\ UNCHANGED machine /\ NoTurn \notin Turn
      /\ stt_requests \in Seq(SttRequests)
      /\ AllFaithful(stt_results) /\ current_turn \in Turn \cup {NoTurn}
  BY HeadItem
  DEF ActState, ActStateResetting, NoCall, Types, LoopTypes, MessageTypes, UtteranceInv, Turn,
      NoTurn, MachineTypes, TurnsOK
<1>1. \A s : Announces(1, s) => o.state = s
  BY <1>0 DEF Announces, EmitState
<1>2. ASSUME NEW u, Open(u)
      PROVE  \/ u = current_turn /\ (state = "UserSpeaking" \/ o.state = "Finalizing")
             \/ o.state = "Idle"
  BY <1>0, <1>1, <1>2 DEF Open, Kind
<1>3. CASE o.state = "Finalizing" /\ current_turn # NoTurn
  <2>. DEFINE r == Finish(current_turn)
  <2>1. SendStt(r)
    BY <1>3 DEF ActState, ActStateResetting
  <2>2. r \in SttRequests /\ ~ IsAudio(r) /\ r.turn = current_turn
    BY <1>0, <1>3, Requests DEF Finish, IsAudio
  <2>3. \A u \in Turn : Open(u) => u = r.turn
    BY <1>2, <1>3, <2>2
  <2>. HIDE DEF r
  <2>. QED  BY <1>0, <2>1, <2>2, <2>3, EndSent
<1>4. CASE o.state = "Idle"
  <2>. DEFINE r == Plain("Reset")
  <2>1. SendStt(r)
    BY <1>4 DEF ActState, ActStateResetting
  <2>2. r \in SttRequests /\ r.kind = "Reset" /\ ~ IsAudio(r)
    BY Requests DEF Plain, IsAudio
  <2>. HIDE DEF r
  <2>. QED  BY <1>0, <2>1, <2>2, EndSent
<1>5. CASE o.state # "Idle" /\ (o.state # "Finalizing" \/ current_turn = NoTurn)
  <2>1. UNCHANGED sttVars /\ UNCHANGED <<state, current_turn>>
    BY <1>0, <1>5 DEF ActState, ActStateResetting, SttIdle, machine, turnVars
  <2>2. ASSUME NEW u \in Turn, Open(u) PROVE Open(u)'
    <3>1. u = current_turn /\ state = "UserSpeaking"
      BY <1>0, <1>2, <1>5, <2>2
    <3>. QED  BY <2>1, <3>1 DEF Open
  <2>3. UNCHANGED <<stt, stt_requests, hearing, stt_results>> /\ state' # "Interrupting"
    BY <2>1 DEF sttVars, UtteranceInv
  <2>. QED  BY <1>0, <2>2, <2>3, WordsKept
<1>. QED  BY <1>3, <1>4, <1>5

(* A frame is heard while the user's turn is open. *)
LEMMA FrameWords ==
  ASSUME Types, UtteranceInv, agenda # <<>>, TranscribeFrame(Head(agenda)), AllFaithful(agenda')
  PROVE  UtteranceInv'
<1>0. /\ agenda[1].kind = "Transcribe" /\ UNCHANGED machine /\ AllFaithful(stt_results)
      /\ stt_requests \in Seq(SttRequests) /\ state # "Interrupting"
  BY HeadItem DEF TranscribeFrame, NoCall, Types, LoopTypes, MessageTypes, UtteranceInv
<1>1. CASE SttIdle
  <2>1. UNCHANGED <<stt, stt_requests, hearing, stt_results>>
    BY <1>1 DEF SttIdle, sttVars
  <2>. QED  BY <1>0, <2>1, QuietWords
<1>2. CASE ~ SttIdle
  <2>. DEFINE r == Audio(stt_active_turn, current_turn)
  <2>1. state = "UserSpeaking" /\ stt_active_turn # NoTurn /\ TrySendStt(r)
    BY <1>0, <1>2 DEF TranscribeFrame
  <2>2. stt_active_turn \in Turn /\ current_turn \in Turn
    BY <2>1 DEF Types, LoopTypes, MachineTypes, TurnsOK, TurnStructure
  <2>3. r \in SttRequests /\ IsAudio(r) /\ r.of = current_turn
    BY <2>2, Requests DEF Audio, IsAudio
  <2>. HIDE DEF r
  <2>4. UNCHANGED <<stt, hearing, stt_results, state, current_turn>>
    BY <1>0, <2>1 DEF TrySendStt, machine, turnVars
  <2>5. CASE UNCHANGED stt_requests
    BY <1>0, <2>4, <2>5, QuietWords
  <2>6. CASE stt = "running" /\ stt_requests' = Append(stt_requests, r)
    <3>. HIDE DEF SttRequests
    <3>1. /\ OwnWords(hearing, Append(stt_requests, r))
          /\ \A u \in Turn : Loose(hearing, Append(stt_requests, r), u) =>
                               Loose(hearing, stt_requests, u) \/ u = current_turn
      <4>1. OwnWords(hearing, stt_requests)
        BY DEF UtteranceInv
      <4>. QED  BY <1>0, <2>3, <4>1, AddWords
    <3>2. \A u \in Turn : Loose(hearing, stt_requests, u) => u = current_turn
      <4>1. \A u \in Turn : Loose(hearing, stt_requests, u) => Open(u)
        BY <2>6 DEF UtteranceInv
      <4>. QED  BY <1>0, <4>1, OpenOtherwise
    <3>3. \A u \in Turn : Loose(hearing', stt_requests', u) => Open(u)'
      <4>. SUFFICES ASSUME NEW u \in Turn, Loose(hearing', stt_requests', u) PROVE Open(u)'
        OBVIOUS
      <4>1. u = current_turn
        BY <2>4, <2>6, <3>1, <3>2
      <4>. QED  BY <2>1, <2>4, <4>1 DEF Open
    <3>. QED  BY <1>0, <2>4, <2>6, <3>1, <3>3, UtteranceNext
  <2>. QED  BY <2>1, <2>5, <2>6 DEF TrySendStt
<1>. QED  BY <1>1, <1>2

LEMMA ActWords ==
  ASSUME Uninterrupted, Types, Types', UtteranceInv, Act, state' # "Interrupting"
  PROVE  UtteranceInv'
<1>. DEFINE o == Head(agenda)
<1>0. /\ agenda \in Seq(Items) /\ agenda # <<>> /\ o \in Items /\ o = agenda[1]
      /\ Rest \in Seq(Items) /\ TurnsOK /\ MachineTypes' /\ state # "Interrupting"
  BY HeadItem DEF Types, LoopTypes, MachineTypes, UtteranceInv, Act, Rest
<1>1. AllFaithful(agenda) /\ Faithful(o) /\ AllFaithful(Rest) /\ AllFaithful(stt_results)
  <2>1. AllFaithful(agenda) /\ AllFaithful(stt_results)
    BY DEF UtteranceInv
  <2>. HIDE DEF Items
  <2>2. Faithful(o) /\ AllFaithful(Rest)
    BY <1>0, <2>1, FaithfulParts DEF Rest
  <2>. QED  BY <2>1, <2>2
<1>2. ASSUME agenda' = Rest, UNCHANGED machine, UNCHANGED sttVars,
             o.kind \notin {"EmitState", "StopCapture"}
      PROVE  UtteranceInv'
  <2>1. UNCHANGED <<stt, stt_requests, hearing, stt_results>>
    BY <1>2 DEF sttVars
  <2>. QED  BY <1>0, <1>1, <1>2, <2>1, QuietWords
<1>3. ASSUME MuteCall, ActOnOutputsThen(Rest), UNCHANGED sttVars,
             o.kind \notin {"EmitState", "StopCapture"}
      PROVE  UtteranceInv'
  <2>1. UNCHANGED <<stt, stt_requests, hearing, stt_results>>
    BY <1>3 DEF sttVars
  <2>2. CallEffect /\ AllFaithful(out')
    BY <1>0, <1>3, MuteReturns
  <2>. HIDE DEF Items
  <2>. QED  BY <1>0, <1>1, <1>3, <2>1, <2>2, CallWords
<1>4. CASE ActCapture(o)
  <2>1. /\ o.kind \in {"StartCapture", "StopCapture"} /\ agenda' = Tail(agenda)
        /\ UNCHANGED <<state, current_turn, stt, stt_requests, hearing, stt_results>>
    BY <1>4 DEF ActCapture, NoCall, machine, turnVars, sttVars, Rest
  <2>2. ASSUME NEW u \in Turn, Open(u) PROVE Open(u)'
    <3>1. \A s : ~ Announces(1, s)
      BY <1>0, <2>1 DEF Announces, EmitState
    <3>2. CASE Announces(2, "Idle")
      <4>1. 2 \in DOMAIN agenda /\ agenda[2] = EmitState("Idle")
        BY <3>2 DEF Announces
      <4>. HIDE DEF Items
      <4>2. 1 \in DOMAIN agenda' /\ agenda'[1] = agenda[2]
        BY <1>0, <2>1, <4>1, TailAt
      <4>. QED  BY <4>1, <4>2 DEF Open, Announces
    <3>3. CASE ~ Announces(2, "Idle")
      BY <2>1, <2>2, <3>1, <3>3 DEF Open
    <3>. QED  BY <3>2, <3>3
  <2>3. AllFaithful(agenda') /\ AllFaithful(stt_results')
    BY <1>1, <2>1 DEF Rest
  <2>. QED  BY <1>0, <2>1, <2>2, <2>3, WordsKept
<1>5. CASE ActPlayback(o)
  BY <1>2, <1>5 DEF ActPlayback, NoCall
<1>6. CASE ActCancelSynthesis(o) \/ SynthesizeChunk(o)
  BY <1>2, <1>6 DEF ActCancelSynthesis, SynthesizeChunk, NoCall
<1>7. CASE ActSubmit(o)
  <2>1. o.kind = "SubmitUtterance" /\ o.turn \in Turn
    BY <1>0, <1>7, ItemFields DEF ActSubmit
  <2>. QED  BY <1>3, <1>7, <2>1 DEF ActSubmit, MuteCall
<1>8. ~ ActReplay(o)
  BY <1>1 DEF ActReplay, Faithful
<1>9. CASE ActState(o)
  <2>1. agenda' = Rest
    BY <1>9 DEF ActState, ActStateResetting
  <2>. QED  BY <1>0, <1>1, <1>9, <2>1, StateWords
<1>10. CASE CallMachine(o)
  <2>1. o.kind \in {"Dispatch", "DispatchFinal"} /\ ActOnOutputsThen(Rest) /\ UNCHANGED sttVars
    BY <1>10 DEF CallMachine
  <2>2. CASE o.kind = "Dispatch"
    <3>1. o.input = "Rejected" => o.turn \in Turn
      BY <1>0, <2>2, ItemFields
    <3>2. MuteCall
      BY <1>10, <2>2, <3>1 DEF CallMachine, MuteCall, Control
    <3>. QED  BY <1>3, <2>1, <3>2
  <2>3. CASE o.kind = "DispatchFinal"
    <3>1. o.turn \in Turn /\ o.text \in Text /\ o.text \subseteq {o.turn}
      BY <1>0, <1>1, <2>3, ItemFields DEF Faithful
    <3>2. OnFinalTranscript(o.turn, o.text)
      BY <1>10, <2>3 DEF CallMachine
    <3>3. CallEffect /\ AllFaithful(out')
      BY <1>0, <3>1, <3>2, FinalReturns
    <3>4. UNCHANGED <<stt, stt_requests, hearing, stt_results>>
      BY <2>1 DEF sttVars
    <3>. HIDE DEF Items
    <3>. QED  BY <1>0, <1>1, <2>1, <2>3, <3>3, <3>4, CallWords
  <2>. QED  BY <2>1, <2>2, <2>3
<1>11. CASE FinishTurnIfSilent(o)
  <2>1. o.kind = "FinishIfSilent" /\ o.turn \in Turn /\ UNCHANGED sttVars
    BY <1>0, <1>11, ItemFields DEF FinishTurnIfSilent
  <2>2. CASE NothingLeftToPlay(o.turn)
    BY <1>3, <1>11, <2>1, <2>2 DEF FinishTurnIfSilent, SignalDrained, MuteCall
  <2>3. CASE ~ NothingLeftToPlay(o.turn)
    BY <1>2, <1>11, <2>1, <2>3 DEF FinishTurnIfSilent, NoCall
  <2>. QED  BY <2>2, <2>3
<1>12. CASE ResetRecognizer(o)
  <2>. DEFINE r == Plain("Reset")
  <2>1. SendStt(r) /\ agenda' = Rest /\ UNCHANGED machine
    BY <1>12 DEF ResetRecognizer, NoCall
  <2>2. r \in SttRequests /\ r.kind = "Reset" /\ ~ IsAudio(r)
    BY Requests DEF Plain, IsAudio
  <2>. HIDE DEF r
  <2>. QED  BY <1>1, <2>1, <2>2, EndSent
<1>13. CASE DetectSpeech(o)
  <2>1. MuteCall
    BY <1>13, UninterruptedSays DEF MuteCall
  <2>. QED  BY <1>3, <1>13, <2>1 DEF DetectSpeech
<1>14. CASE TranscribeFrame(o)
  <2>1. agenda' = Rest
    BY <1>14 DEF TranscribeFrame
  <2>. QED  BY <1>0, <1>1, <1>14, <2>1, FrameWords
<1>. QED
  BY <1>4, <1>5, <1>6, <1>7, <1>8, <1>9, <1>10, <1>11, <1>12, <1>13, <1>14 DEF Act

LEMMA FaithfulAppend ==
  ASSUME NEW S, NEW s \in Seq(S), NEW x, AllFaithful(s), Faithful(x)
  PROVE  AllFaithful(Append(s, x))
<1>. DEFINE T == S \cup {x}
            t == Append(s, x)
<1>1. s \in Seq(T) /\ x \in T
  OBVIOUS
<1>2. DOMAIN t = 1..(Len(s) + 1) /\ t[Len(s) + 1] = x /\ \A i \in 1..Len(s) : t[i] = s[i]
  BY <1>1
<1>3. DOMAIN s = 1..Len(s) /\ Len(s) \in Nat
  OBVIOUS
<1>. HIDE DEF t
<1>4. ASSUME NEW i \in DOMAIN t PROVE Faithful(t[i])
  <2>1. CASE i = Len(s) + 1
    BY <1>2, <2>1
  <2>2. CASE i # Len(s) + 1
    <3>1. i \in DOMAIN s /\ t[i] = s[i]
      BY <1>2, <1>3, <2>2
    <3>. QED  BY <3>1 DEF AllFaithful
  <2>. QED  BY <2>1, <2>2
<1>5. AllFaithful(t)
  BY <1>4 DEF AllFaithful
<1>. QED  BY <1>5 DEF t

(* The worker. *)
LEMMA WorkerWords ==
  ASSUME Types, UtteranceInv, SttWork
  PROVE  UtteranceInv'
<1>. DEFINE r == Head(stt_requests)
<1>0. /\ stt_requests \in Seq(SttRequests) /\ stt_requests # <<>> /\ hearing \subseteq Turn
      /\ stt_results \in Seq(SttResults)
      /\ UNCHANGED <<state, current_turn, agenda, stt>> /\ stt = "running"
      /\ stt_requests' = Tail(stt_requests)
  BY DEF SttWork, OrchestratorIdle, vars, machine, turnVars, loopVars, Types, MessageTypes
<1>1. /\ OwnWords(hearing, stt_requests) /\ state' # "Interrupting"
      /\ \A u \in Turn : Loose(hearing, stt_requests, u) => Open(u)
      /\ AllFaithful(stt_results) /\ AllFaithful(agenda')
  BY <1>0 DEF UtteranceInv
<1>2. r.kind \in {"PushAudio", "FinishUtterance", "Reset"}
  <2>1. r \in SttRequests
    BY <1>0
  <2>. QED  BY <2>1 DEF SttRequests
<1>3. \A u : Open(u)' <=> Open(u)
  BY <1>0 DEF Open, Announces, Kind
<1>4. /\ OwnWords(hearing', stt_requests')
      /\ \A u \in Turn : Loose(hearing', stt_requests', u) => Loose(hearing, stt_requests, u)
      /\ r.kind = "FinishUtterance" => hearing \subseteq {r.turn}
  <2>. HIDE DEF SttRequests
  <2>1. CASE IsAudio(r)
    <3>1. hearing' = hearing \cup {r.of}
      BY <2>1 DEF SttWork, DecodeAudio, FinishUtterance, IsAudio
    <3>. QED  BY <1>0, <1>1, <2>1, <3>1, TakeWords DEF IsAudio
  <2>2. CASE ~ IsAudio(r)
    <3>1. hearing' = {}
      BY <2>2 DEF SttWork, DecodeAudio, FinishUtterance, IsAudio
    <3>. QED  BY <1>0, <1>1, <2>2, <3>1, TakeEnd
  <2>. QED  BY <2>1, <2>2
<1>5. AllFaithful(stt_results')
  <2>1. CASE UNCHANGED stt_results
    BY <1>1, <2>1
  <2>2. ASSUME NEW x, Faithful(x), stt_results' = Append(stt_results, x) PROVE AllFaithful(stt_results')
    <3>. HIDE DEF SttResults
    <3>. QED  BY <1>0, <1>1, <2>2, FaithfulAppend
  <2>3. CASE DecodeAudio(r)
    <3>1. Faithful(Partial(r.turn))
      BY DEF Faithful, Partial
    <3>. QED  BY <2>1, <2>2, <2>3, <3>1 DEF DecodeAudio
  <2>4. CASE FinishUtterance(r)
    <3>1. PICK text \in {hearing, {}} : stt_results' = Append(stt_results, Final(r.turn, text))
      BY <2>4 DEF FinishUtterance
    <3>2. text \subseteq {r.turn}
      BY <1>4, <2>4, <3>1 DEF FinishUtterance
    <3>3. Faithful(Final(r.turn, text))
      BY <3>2 DEF Faithful, Final
    <3>. QED  BY <2>2, <3>1, <3>3
  <2>. QED  BY <2>1, <2>3, <2>4 DEF SttWork
<1>. QED  BY <1>0, <1>1, <1>3, <1>4, <1>5, UtteranceNext

(* A result of the recognizer is handed on with its words. *)
LEMMA ResultWords ==
  ASSUME Types, Types', UtteranceInv, DrainStt, state' # "Interrupting"
  PROVE  UtteranceInv'
<1>. DEFINE r == Head(stt_results)
<1>0. /\ stt_results \in Seq(SttResults) /\ stt_results # <<>> /\ agenda = <<>>
      /\ stt_results' = Tail(stt_results) /\ UNCHANGED <<stt, stt_requests, hearing>>
      /\ TurnsOK /\ MachineTypes' /\ state # "Interrupting" /\ AllFaithful(stt_results)
      /\ <<>> \in Seq(Items)
  BY DEF DrainStt, Idling, Types, MessageTypes, MachineTypes, UtteranceInv
<1>1. r \in SttResults
  BY <1>0
<1>2. r.turn \in Turn
  BY <1>1 DEF SttResults
<1>3. Faithful(r) /\ AllFaithful(stt_results')
  <2>. HIDE DEF SttResults
  <2>. QED  BY <1>0, FaithfulParts
<1>4. CASE HandlePartial(r)
  <2>1. MuteCall /\ ActOnOutputsThen(<<>>)
    BY <1>2, <1>4 DEF HandlePartial, MuteCall
  <2>2. CallEffect /\ AllFaithful(out') /\ AllFaithful(<<>>)
    BY <1>0, <2>1, MuteReturns, FaithfulParts
  <2>. HIDE DEF Items, SttResults
  <2>. QED  BY <1>0, <1>3, <2>1, <2>2, CallWords
<1>5. CASE HandleFinal(r)
  <2>. DEFINE d == Dispatch("Rejected", r.turn)
              f == DispatchFinal(r.turn, r.text)
              pre == <<ResetStt, Dispatch("SessionEnd", NoTurn), Dispatch("SessionStart", NoTurn)>>
  <2>1. UNCHANGED machine /\ r.kind = "Final"
    BY <1>5 DEF HandleFinal, NoCall
  <2>2. PICK x \in {d, f} : agenda' \in {<<x>>, pre \o <<x>>}
    BY <1>5 DEF HandleFinal, RebuildEngine, KeepEngine
  <2>3. Faithful(x)
    <3>1. Faithful(d)
      BY DEF Faithful, Dispatch
    <3>2. Faithful(f)
      BY <1>3, <2>1 DEF Faithful, DispatchFinal
    <3>. QED  BY <2>2, <3>1, <3>2
  <2>4. \A y \in {x, ResetStt, Dispatch("SessionEnd", NoTurn), Dispatch("SessionStart", NoTurn)} :
           Faithful(y)
    BY <2>3 DEF Faithful, Dispatch, ResetStt, Plain
  <2>. HIDE DEF d, f
  <2>5. AllFaithful(<<x>>) /\ AllFaithful(pre)
    BY <2>4 DEF AllFaithful
  <2>6. \E S : <<x>> \in Seq(S) /\ pre \in Seq(S)
    <3>1. \A a, b, c : <<x>> \in Seq({x, a, b, c}) /\ <<a, b, c>> \in Seq({x, a, b, c})
      OBVIOUS
    <3>. QED  BY <3>1
  <2>. HIDE DEF pre
  <2>7. AllFaithful(pre \o <<x>>)
    BY <2>5, <2>6, FaithfulParts
  <2>8. AllFaithful(agenda')
    BY <2>2, <2>5, <2>7
  <2>. QED  BY <1>0, <1>3, <2>1, <2>8, QuietWords
<1>. QED  BY <1>4, <1>5 DEF DrainStt

(* The agent's messages. *)
LEMMA AgentWords ==
  ASSUME Types, Types', UtteranceInv, DrainAgent, state' # "Interrupting"
  PROVE  UtteranceInv'
<1>. DEFINE e == Head(agent_events)
<1>0. /\ agenda = <<>> /\ UNCHANGED sttVars /\ e.turn \in Turn
      /\ UNCHANGED <<stt, stt_requests, hearing, stt_results>>
      /\ TurnsOK /\ MachineTypes' /\ state # "Interrupting"
      /\ AllFaithful(stt_results) /\ AllFaithful(agenda)
  BY EventTurn DEF DrainAgent, Idling, sttVars, Types, MachineTypes, UtteranceInv
<1>1. ASSUME MuteCall, NEW x \in Items, Faithful(x), ActOnOutputsThen(<<x>>) PROVE UtteranceInv'
  <2>1. CallEffect /\ AllFaithful(out')
    BY <1>0, <1>1, MuteReturns
  <2>. HIDE DEF Items
  <2>2. <<x>> \in Seq(Items) /\ AllFaithful(<<x>>)
    BY <1>1 DEF AllFaithful
  <2>. QED  BY <1>0, <1>1, <2>1, <2>2, CallWords
<1>2. CASE e.kind = "TextChunk" /\ HandleTextChunk(e.turn)
  <2>1. CASE NoCall /\ UNCHANGED agenda
    BY <1>0, <2>1, QuietWords DEF NoCall
  <2>2. CASE OnAgentTextArrived(e.turn) /\ ActOnOutputsThen(<<Synthesize(e.turn)>>)
    <3>1. Synthesize(e.turn) \in Items /\ Faithful(Synthesize(e.turn))
      BY <1>0 DEF Synthesize, Items, Statements, Faithful
    <3>. QED  BY <1>0, <1>1, <2>2, <3>1 DEF MuteCall
  <2>. QED  BY <1>2, <2>1, <2>2 DEF HandleTextChunk
<1>3. CASE OnAgentTurnComplete(e.turn) /\ ActOnOutputsThen(<<FinishIfSilent(e.turn)>>)
  <2>1. FinishIfSilent(e.turn) \in Items /\ Faithful(FinishIfSilent(e.turn))
    BY <1>0 DEF FinishIfSilent, Items, Statements, Faithful
  <2>. QED  BY <1>0, <1>1, <1>3, <2>1 DEF MuteCall
<1>. QED  BY <1>2, <1>3 DEF DrainAgent

LEMMA UtteranceStep ==
  ASSUME Uninterrupted, Types, Types', UtteranceInv, [PNext]_pvars
  PROVE  UtteranceInv'
<1>0. /\ TurnsOK /\ MachineTypes' /\ state # "Interrupting" /\ state' # "Interrupting"
      /\ AllFaithful(stt_results) /\ AllFaithful(agenda) /\ AllFaithful(<<>>)
      /\ <<>> \in Seq(Items)
  BY NobodyInterrupts, FaithfulParts DEF Types, MachineTypes, UtteranceInv
<1>1. ASSUME MuteCall, agenda = <<>>, ActOnOutputsThen(<<>>), UNCHANGED sttVars
      PROVE  UtteranceInv'
  <2>1. CallEffect /\ AllFaithful(out')
    BY <1>0, <1>1, MuteReturns
  <2>2. UNCHANGED <<stt, stt_requests, hearing, stt_results>>
    BY <1>1 DEF sttVars
  <2>. HIDE DEF Items
  <2>. QED  BY <1>0, <1>1, <2>1, <2>2, CallWords
<1>2. ASSUME UNCHANGED machine, agenda = <<>>, AllFaithful(agenda'),
             UNCHANGED <<stt_requests, hearing, stt_results>>, stt' = "running" => stt = "running"
      PROVE  UtteranceInv'
  BY <1>0, <1>2, QuietWords
<1>3. ASSUME UNCHANGED <<state, current_turn, agenda, stt_requests, hearing, stt_results, stt>>
      PROVE  UtteranceInv'
  <2>1. \A u : Open(u)' <=> Open(u)
    BY <1>3 DEF Open, Announces, Kind
  <2>. QED  BY <1>0, <1>3, <2>1, WordsKept
<1>4. CASE Act
  BY <1>0, <1>4, ActWords
<1>5. CASE DrainControl \/ Shutdown \/ TickMachine
  BY <1>1, <1>5
  DEF DrainControl, Shutdown, TickMachine, Idling, LoopOnly, MuteCall, Control
<1>6. CASE PumpFrame
  <2>1. MuteCall /\ agenda = <<>> /\ agenda' = <<Detect, Transcribe>> /\ UNCHANGED sttVars
        /\ (PushFrame \/ NoCall)
    BY <1>6 DEF PumpFrame, Idling, LoopOnly, MuteCall
  <2>2. UNCHANGED <<state, current_turn>>
    BY <2>1 DEF PushFrame, NoCall, machine, turnVars
  <2>3. AllFaithful(agenda')
    <3>1. Faithful(Detect) /\ Faithful(Transcribe)
      BY DEF Faithful, Detect, Transcribe, Plain
    <3>2. \A a, b : Faithful(a) /\ Faithful(b) => AllFaithful(<<a, b>>)
      BY DEF AllFaithful
    <3>. QED  BY <2>1, <3>1, <3>2
  <2>4. UNCHANGED <<stt, stt_requests, hearing, stt_results>>
    BY <2>1 DEF sttVars
  <2>5. ASSUME NEW u \in Turn, Open(u) PROVE Open(u)'
    <3>1. u = current_turn /\ state = "UserSpeaking"
      BY <2>1, <2>5, OpenOtherwise
    <3>. QED  BY <2>2, <3>1 DEF Open
  <2>. QED  BY <1>0, <2>3, <2>4, <2>5, WordsKept
<1>7. CASE NoFrame \/ AgentDrained \/ DrainTts \/ TtsDrained \/ SttDrained
  <2>1. UNCHANGED machine /\ agenda = <<>> /\ UNCHANGED agenda
        /\ UNCHANGED <<stt_requests, hearing, stt_results>> /\ (stt' = "running" => stt = "running")
    BY <1>7
    DEF NoFrame, AgentDrained, DrainTts, TtsDrained, SttDrained, Idling, LoopOnly, NoCall, sttVars
  <2>. QED  BY <1>0, <1>2, <2>1
<1>8. CASE CheckDevice
  <2>. DEFINE pre == <<ResetStt, Dispatch("SessionEnd", NoTurn), Dispatch("SessionStart", NoTurn)>>
  <2>1. /\ UNCHANGED machine /\ agenda = <<>>
        /\ UNCHANGED <<stt_requests, hearing, stt_results>> /\ (stt' = "running" => stt = "running")
        /\ agenda' \in {<<>>, pre \o <<>>}
    BY <1>8 DEF CheckDevice, Idling, NoCall, sttVars, RebuildEngine, KeepEngine
  <2>2. AllFaithful(pre)
    <3>1. /\ Faithful(ResetStt) /\ Faithful(Dispatch("SessionEnd", NoTurn))
          /\ Faithful(Dispatch("SessionStart", NoTurn))
      BY DEF Faithful, ResetStt, Dispatch, Plain
    <3>2. \A a, b, c : Faithful(a) /\ Faithful(b) /\ Faithful(c) => AllFaithful(<<a, b, c>>)
      BY DEF AllFaithful
    <3>. QED  BY <3>1, <3>2
  <2>3. pre \in Seq(Items)
    BY Agendas
  <2>. HIDE DEF pre, Items
  <2>4. AllFaithful(pre \o <<>>)
    BY <1>0, <2>2, <2>3, FaithfulParts
  <2>5. AllFaithful(agenda')
    BY <1>0, <2>1, <2>4
  <2>. QED  BY <1>2, <2>1, <2>5
<1>9. CASE DrainStt
  BY <1>0, <1>9, ResultWords
<1>10. CASE DrainAgent
  BY <1>0, <1>10, AgentWords
<1>11. CASE FeedPlayback
  <2>1. agenda = <<>> /\ UNCHANGED sttVars
    BY <1>11 DEF FeedPlayback, Idling
  <2>2. CASE NoCall /\ UNCHANGED agenda
    BY <1>0, <1>2, <2>1, <2>2 DEF NoCall, sttVars
  <2>3. ASSUME NEW t \in Turn, SignalDrained(t, <<>>) PROVE UtteranceInv'
    BY <1>1, <2>1, <2>3 DEF SignalDrained, MuteCall
  <2>4. playback.live_turn \in Turn \cup {NoTurn}
    BY DEF Types, LoopTypes, PlaybackStates
  <2>. QED  BY <1>11, <2>2, <2>3, <2>4 DEF FeedPlayback, Feed, FeedEndingIf
<1>12. CASE SttWork
  BY <1>12, WorkerWords
<1>13. CASE SttDies
  <2>1. /\ stt' = "dead" /\ stt_requests' = <<>> /\ UNCHANGED <<hearing, stt_results, agenda>>
        /\ hearing \subseteq Turn
    BY <1>13 DEF SttDies, OrchestratorIdle, loopVars, Types, MessageTypes
  <2>2. OwnWords(hearing', stt_requests')
    BY <2>1, NothingSent
  <2>. QED  BY <1>0, <2>1, <2>2, UtteranceNext
<1>14. CASE TtsWork \/ TtsDies \/ AgentWork \/ PlayOut \/ Stopped \/ UNCHANGED pvars
  BY <1>3, <1>14
  DEF TtsWork, TtsDies, AgentWork, PlayOut, Stopped, OrchestratorIdle, vars, machine, turnVars,
      loopVars, sttVars, pvars
<1>. QED
  BY <1>4, <1>5, <1>6, <1>7, <1>8, <1>9, <1>10, <1>11, <1>12, <1>13, <1>14 DEF PNext, Orchestrate

LEMMA UtteranceInit == ASSUME PInit PROVE UtteranceInv
<1>1. /\ state = "Idle" /\ hearing = {} /\ stt_requests = <<>> /\ stt_results = <<>> /\ agenda = <<>>
  BY DEF PInit, Init
<1>2. OwnWords(hearing, stt_requests) /\ AllFaithful(<<>>)
  BY <1>1, NothingSent, FaithfulParts
<1>3. \A u : ~ Loose({}, <<>>, u)
  BY DEF Loose, WordsAt
<1>. QED  BY <1>1, <1>2, <1>3 DEF UtteranceInv

(* Provided the user does not talk over the agent: what is submitted as a turn's
   words was said during that turn, for any number of turns and any capacity of
   the queue, also when the recognizer's answers come late, when it dies, and
   when devices are rebuilt (on_state_changed of pipeline.rs, which finishes or
   resets, and the request loop of stt_worker.rs). *)
THEOREM WordsAreOfTheTurn ==
  ASSUME "barge-in" \notin Hazards
  PROVE  PSpec => WordsOfTheTurn
<1>1. Uninterrupted
  BY Zenon DEF Uninterrupted
<1>2. PInit => UtteranceInv
  BY UtteranceInit
<1>3. Types /\ Types' /\ UtteranceInv /\ [PNext]_pvars => UtteranceInv'
  BY <1>1, UtteranceStep
<1>4. Types /\ UtteranceInv /\ [PNext]_pvars
      => [asked' # asked => Head(agenda).text \subseteq {Head(agenda).turn}]_pvars
  <2>. SUFFICES ASSUME Types, UtteranceInv, PNext, asked' # asked
                PROVE  Head(agenda).text \subseteq {Head(agenda).turn}
    BY DEF pvars, agentVars
  <2>1. Act /\ ActSubmit(Head(agenda))
    BY DEF PNext, Orchestrate, Act, ActCapture, ActPlayback, ActCancelSynthesis, ActReplay,
           ActState, ActStateResetting, CallMachine, SynthesizeChunk, FinishTurnIfSilent,
           ResetRecognizer, DetectSpeech, TranscribeFrame, DrainControl, Shutdown, TickMachine,
           PumpFrame, NoFrame, CheckDevice, DrainStt, SttDrained, DrainAgent, AgentDrained,
           DrainTts, TtsDrained, FeedPlayback, LoopOnly, Stopped, SttWork, SttDies, TtsWork,
           TtsDies, AgentWork, PlayOut, agentVars, pvars
  <2>2. Head(agenda).kind = "SubmitUtterance" /\ agenda # <<>> /\ agenda \in Seq(Items)
        /\ AllFaithful(agenda)
    BY <2>1 DEF Act, ActSubmit, Types, LoopTypes, UtteranceInv
  <2>3. Faithful(Head(agenda))
    <3>. HIDE DEF Items
    <3>. QED  BY <2>2, FaithfulParts
  <2>. QED  BY <2>2, <2>3 DEF Faithful
<1>. QED  BY <1>2, <1>3, <1>4, CoverAlways, PTL DEF PSpec, WordsOfTheTurn
==============================================================================
