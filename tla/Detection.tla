------------------------------ MODULE Detection ------------------------------
(***************************************************************************)
(* Which detector hears which frame, and when each is reset: the session   *)
(* machine with the detectors as the orchestrator feeds them (pipeline.rs, *)
(* process_frame, act, on_state_changed, handle_agent_event).              *)
(*                                                                         *)
(* A frame is two calls on the machine made one after the other by one     *)
(* thread: push_frame, then, if a detector hears the frame and says so, an *)
(* input.  `frame_pushed` is the point between them, where nothing else    *)
(* runs.  Every other input may come between two frames, from engines and  *)
(* an agent that may do anything.                                          *)
(*                                                                         *)
(* The variables of the last group only observe; no action reads them.     *)
(***************************************************************************)
EXTENDS Session, Detectors

VARIABLES
  frame_pushed,   \* the session has the frame and the detectors have not
  endpoint,       \* EndpointDetector
  bargein,        \* BargeInDetector
  opening,        \* what opened the user's turn: the voice, a barge-in or the key
  run,            \* voiced frames without a break, as the listening detector heard them
  quiet           \* silent frames without a break, likewise

detectors == <<frame_pushed, endpoint, bargein>>
observed == <<opening, run, quiet>>
allVars == <<vars, detectors, observed>>

ListenersOf(s) ==
  CASE s = "AgentSpeaking" -> {"bargein"}
    [] s \in {"Listening", "UserSpeaking"} -> {"endpoint"}
    [] OTHER -> {}

Becomes(s) == state' = s /\ state # s

(* The agent's first text, or its return after a barge-in that was none.  The
   session machine leaves AwaitingAgent for AgentSpeaking on the first chunk
   of a reply and on nothing else. *)
SpeechResumes ==
  \/ state = "AwaitingAgent" /\ Becomes("AgentSpeaking")
  \/ \E i \in 1..Len(out') : out'[i].kind = "ResumeSpeaking"

(* Mutated form: the detector is not cleared when the agent starts to speak. *)
BargeInFollowsWithoutReset(heard) ==
  bargein' = IF Becomes("Idle") THEN BargeInReset
             ELSE IF SpeechResumes THEN PlaybackStarted(heard)
             ELSE IF Becomes("Interrupting") THEN PlaybackStopped(heard)
             ELSE heard

(* What the new state and the outputs do to the detectors.  The guard that
   notify_playback_started arms is cleared by the reset that follows it. *)
BargeInFollows(heard) ==
  bargein' = IF Becomes("Idle") \/ SpeechResumes THEN BargeInReset
             ELSE IF Becomes("Interrupting") THEN PlaybackStopped(heard)
             ELSE heard

EndpointFollows(heard) ==
  endpoint' = IF Becomes("Listening") \/ Becomes("Idle") THEN EndpointReset ELSE heard

(* Observation: the frame f was heard by a detector, or none was. *)
Opening ==
  opening' = IF Becomes("UserSpeaking")
               THEN CASE state = "Listening" /\ frame_pushed -> "voice"
                      [] state = "Interrupting" -> "barge-in"
                      [] OTHER -> "key"
               ELSE opening

(* A hangover of one frame still takes two: the first only opens it. *)
SilenceNeeded == IF HangoverFrames < 2 THEN 2 ELSE HangoverFrames

CountUpTo(limit, n) == IF n < limit THEN n + 1 ELSE n

ObserveFrame(f) ==
  /\ Opening
  /\ run' = IF f.voiced THEN CountUpTo(ConfirmWindow + MinVoicedFrames, run) ELSE 0
  /\ quiet' = IF Becomes("UserSpeaking") \/ f.voiced THEN 0 ELSE CountUpTo(SilenceNeeded, quiet)

ObserveInput ==
  /\ Opening
  /\ run' = IF SpeechResumes \/ Becomes("Listening") THEN 0 ELSE run
  /\ quiet' = IF Becomes("UserSpeaking") THEN 0 ELSE quiet

----------------------------------------------------------------------------
(* The first half of process_frame. *)
FrameArrives ==
  /\ ~ frame_pushed
  /\ frame_pushed' = TRUE
  /\ \/ PushFrame
     \/ state = "Idle" /\ UNCHANGED machine /\ out' = <<>>
  /\ UNCHANGED <<endpoint, bargein, observed>>

(* The agent speaks: the strict detector listens. *)
FrameToBargeIn(f) ==
  LET heard == BargeInHears(bargein, f) IN
  /\ "bargein" \in ListenersOf(state)
  /\ IF heard.event = "SpeechStart" THEN OnBargeInConfirmed ELSE Ignored
  /\ BargeInFollows(heard.detector)
  /\ EndpointFollows(endpoint)
  /\ ObserveFrame(f)

(* The user's turn: the permissive one. *)
FrameToEndpoint(f) ==
  LET heard == EndpointHears(endpoint, f) IN
  /\ "endpoint" \in ListenersOf(state)
  /\ CASE heard.event = "SpeechStart" -> OnSpeechStart
       [] heard.event = "SpeechEnd" -> OnSpeechEnd
       [] OTHER -> Ignored
  /\ EndpointFollows(heard.detector)
  /\ BargeInFollows(bargein)
  /\ ObserveFrame(f)

FrameToNobody ==
  /\ ListenersOf(state) = {}
  /\ Ignored
  /\ UNCHANGED <<endpoint, bargein, observed>>

(* The second half of process_frame. *)
FrameHeard ==
  /\ frame_pushed
  /\ frame_pushed' = FALSE
  /\ \/ \E f \in Frames : FrameToBargeIn(f) \/ FrameToEndpoint(f)
     \/ FrameToNobody

(* Everything else the machine is told. *)
OtherInput ==
  /\ ~ frame_pushed
  /\ Tick \/ Control \/ \E t \in 1..turn_counter : Results(t)
  /\ BargeInFollows(bargein)
  /\ EndpointFollows(endpoint)
  /\ ObserveInput
  /\ UNCHANGED frame_pushed

DetectionInit ==
  /\ Init
  /\ frame_pushed = FALSE
  /\ endpoint = EndpointReset
  /\ bargein = BargeInReset
  /\ opening = "key"
  /\ run = 0
  /\ quiet = 0

DetectionNext == FrameArrives \/ FrameHeard \/ OtherInput

DetectionSpec == DetectionInit /\ [][DetectionNext]_allVars

----------------------------------------------------------------------------
(* Properties. *)

(* Neither detector is ever deaf.  While the agent speaks the strict one is
   never in the middle of an earlier confirmation, whose SpeechStart the
   session has already used; and in Listening nothing is left in the permissive
   one of the speech of a turn that ended without its SpeechEnd: by the key, by
   the cap on an utterance, or by the agent taking the floor. *)
NeitherIsDeaf ==
  /\ state = "AgentSpeaking" => ~ bargein.active
  /\ state = "Listening" => endpoint.phase \in {"Silence", "Confirming"}

(* The agent is interrupted only by ConfirmWindow voiced frames without a
   break, all heard since it last started or resumed, whatever it heard in an
   earlier spell and however often it was interrupted for nothing. *)
InterruptedByUnbrokenSpeech ==
  [][state = "AgentSpeaking" /\ state' = "Interrupting" => run' >= ConfirmWindow]_allVars

(* A turn opened by the voice ends with the user's silence: after
   SilenceNeeded silent frames in a row it is over without the cap on an
   utterance having to step in. *)
SilenceEndsSpokenTurn ==
  state = "UserSpeaking" /\ opening = "voice" => quiet < SilenceNeeded
=============================================================================
