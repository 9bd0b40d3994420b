---------------------------- MODULE Recognition ----------------------------
(***************************************************************************)
(* Audio on its way to words.  Every frame the microphone brings goes into *)
(* the pre-roll ring of the session; in some phases of the conversation it *)
(* is also handed to the recognizer, and a barge-in hands over the whole   *)
(* ring first (pipeline.rs, process_frame).  What is handed over waits in  *)
(* the bounded queue of the STT worker, which feeds the recognizer; that   *)
(* decodes a window of what it was fed every now and then, and once more   *)
(* at the end (stt_worker.rs, recognizer.rs).                              *)
(*                                                                         *)
(* Frames are numbered as they are captured, and hand-overs as they are    *)
(* made: a frame of the ring is handed over again, so that one frame can   *)
(* be several hand-overs.  Hand-overs stay in order wherever they wait, so *)
(* that a buffer of them is a set.  A text is the set of hand-overs it was *)
(* decoded from, and {} when there is no word in it: which one, the model  *)
(* behind the recognizer decides.                                          *)
(*                                                                         *)
(* The recognizer's lengths are counted in frames here.  Its resampler     *)
(* makes 160 samples of each frame of 480: the ratio is 3, and it is reset *)
(* only between frames.                                                    *)
(***************************************************************************)
EXTENDS Naturals, Sequences, FiniteSets

CONSTANTS
  PreRollFrames,     \* PREROLL_FRAMES
  MaxWindow,         \* MAX_WINDOW_SAMPLES
  Interval,          \* PARTIAL_INTERVAL_SAMPLES
  LongInterval,      \* PARTIAL_INTERVAL_BACKOFF_SAMPLES
  BackoffThreshold,  \* BACKOFF_THRESHOLD_SAMPLES
  QueueCapacity,     \* AUDIO_QUEUE_CAPACITY
  MaxFrame,          \* bound: frames captured
  MaxTurn,           \* bound: turns of the user begun
  MaxSession         \* bound: sessions begun

ASSUME RecognitionAssumption ==
  {PreRollFrames, MaxWindow, Interval, LongInterval, BackoffThreshold,
   QueueCapacity, MaxFrame, MaxTurn, MaxSession} \subseteq Nat \ {0}

VARIABLES
  state,     \* where the conversation is
  session,   \* sessions begun so far
  preroll,   \* the ring: frames of this session, oldest first
  active,    \* stt_active_turn, 0 for None
  requests,  \* the worker's queue
  window,    \* StreamBuffer.samples
  since,     \* StreamBuffer.since_last_partial
  best,      \* best_partial
  result     \* the last result of the worker

(* What happened, kept for the properties and for numbering. *)
VARIABLES
  heard,  \* the session each frame was captured in
  fed,    \* the frame each hand-over was of
  begun,  \* of each turn: its session, and `cut` when it began
  cut,    \* hand-overs made when the recognizer was last told to finish or reset
  shown   \* turns a partial with words was sent for

historyVars == << heard, fed, begun, cut >>
orchestratorVars == << state, session, preroll, active, historyVars >>
workerVars == << window, since, best, shown, result >>
recognitionVars == << orchestratorVars, requests, workerVars >>

Audio(turn, frames) == [kind |-> "audio", turn |-> turn, frames |-> frames]
Finish(turn) == [kind |-> "finish", turn |-> turn]
Reset == [kind |-> "reset"]
Room == Len(requests) < QueueCapacity

NoTurn == 0
Turn == Len(begun)

----------------------------------------------------------------------------
(* The orchestrator *)

(* PreRollBuffer *)
Newest(ring) == IF Len(ring) > PreRollFrames THEN Tail(ring) ELSE ring

(* Mutated form: the ring survives. *)
KeepPreRoll == UNCHANGED preroll
ClearPreRoll == preroll' = <<>>

(* A frame of an open session: process_frame puts it into the ring first. *)
Frame == Len(heard) + 1
Capture ==
  /\ Len(heard) < MaxFrame
  /\ heard' = Append(heard, session)
  /\ preroll' = Newest(Append(preroll, Frame))
NoCapture == UNCHANGED << heard, preroll >>

(* push_audio never waits: what finds no room is dropped.  The other requests
   do wait, which is `Room` as a guard. *)
TrySend(queue, request) ==
  IF Len(queue) < QueueCapacity THEN Append(queue, request) ELSE queue

BeginTurn ==
  /\ Turn < MaxTurn
  /\ begun' = Append(begun, [session |-> session, after |-> cut])

(* Entering UserSpeaking: the turn whose audio is transcribed is set only if
   there is none. *)
Transcribed(turn) == IF active = NoTurn THEN turn ELSE active

PushFrame(turn) ==
  /\ fed' = Append(fed, Frame)
  /\ requests' = TrySend(requests, Audio(turn, {Len(fed) + 1}))

StartSession ==
  /\ state = "Idle" /\ session < MaxSession
  /\ state' = "Listening" /\ session' = session + 1
  /\ ClearPreRoll
  /\ UNCHANGED << active, requests, historyVars, workerVars >>

(* The session ends, at any time.  A rebuild of the engine does this too, and
   starts the next one. *)
EndSession ==
  /\ state # "Idle" /\ Room
  /\ state' = "Idle" /\ active' = NoTurn
  /\ ClearPreRoll
  /\ requests' = Append(requests, Reset) /\ cut' = Len(fed)
  /\ UNCHANGED << session, heard, fed, begun, workerVars >>

(* A frame that changes nothing is transcribed while the user speaks, or may. *)
ProcessFrame ==
  /\ state # "Idle" /\ Capture
  /\ IF state \in {"UserSpeaking", "Interrupting"}
       THEN PushFrame(active)
       ELSE UNCHANGED << fed, requests >>
  /\ UNCHANGED << state, session, active, begun, cut, workerVars >>

(* The frame the endpoint detector takes for the start of speech is the first
   of the turn. *)
SpeechStart ==
  /\ state = "Listening" /\ Capture
  /\ BeginTurn
  /\ state' = "UserSpeaking" /\ active' = Transcribed(Turn + 1)
  /\ PushFrame(active')
  /\ UNCHANGED << session, cut, workerVars >>

PushToTalk ==
  /\ state \in {"Listening", "Finalizing", "Answering"}
  /\ BeginTurn
  /\ state' = "UserSpeaking" /\ active' = Transcribed(Turn + 1)
  /\ UNCHANGED << session, preroll, requests, heard, fed, cut, workerVars >>

(* Speech over the agent: the whole ring is handed over in one piece, and then
   the frame that confirmed it, which is in the ring, once more. *)
BargeIn ==
  /\ state = "Answering" /\ Room /\ Capture
  /\ BeginTurn
  /\ state' = "Interrupting" /\ active' = Turn + 1
  /\ LET last == Len(fed) + Len(preroll')
     IN  requests' = TrySend(Append(requests, Audio(active', Len(fed) + 1 .. last)),
                             Audio(active', {last + 1}))
  /\ fed' = fed \o preroll' \o << Frame >>
  /\ UNCHANGED << session, cut, workerVars >>

(* Words, or push to talk, prove the interruption. *)
ConfirmBargeIn ==
  /\ state = "Interrupting" /\ state' = "UserSpeaking"
  /\ UNCHANGED << session, preroll, active, requests, historyVars, workerVars >>

(* Or the window passes, and nobody tells the recognizer. *)
RetractBargeIn ==
  /\ state = "Interrupting" /\ state' = "Answering"
  /\ UNCHANGED << session, preroll, active, requests, historyVars, workerVars >>

(* At the end of speech, with a frame that is not transcribed any more, or on
   push to talk or the longest utterance, with none. *)
FinishUtterance ==
  /\ state = "UserSpeaking" /\ Room
  /\ Capture \/ NoCapture
  /\ state' = "Finalizing"
  /\ requests' = Append(requests, Finish(Turn)) /\ cut' = Len(fed)
  /\ UNCHANGED << session, active, fed, begun, workerVars >>

(* The words are sent to the agent, which thinks and speaks. *)
SubmitWords ==
  /\ state = "Finalizing"
  /\ result.kind = "final" /\ result.turn = Turn /\ result.text # {}
  /\ state' = "Answering"
  /\ UNCHANGED << session, preroll, active, requests, historyVars, workerVars >>

(* The answer is over, or has not come; or the words have not, or are not
   worth sending. *)
BackToListening ==
  /\ state \in {"Finalizing", "Answering"}
  /\ state' = "Listening" /\ active' = NoTurn
  /\ UNCHANGED << session, preroll, requests, historyVars, workerVars >>

----------------------------------------------------------------------------
(* The worker, and StreamBuffer *)

(* The newest MaxWindow of the window and of what came. *)
Pushed(frames) ==
  LET all == window \union frames
  IN  {i \in all : Cardinality({j \in all : i <= j}) <= MaxWindow}

PartialInterval(buffer) ==
  IF Cardinality(buffer) > BackoffThreshold THEN LongInterval ELSE Interval

Decoded(buffer) == {buffer, {}}

(* push_audio of the recognizer and what the worker makes of the partial. *)
HandleAudio ==
  /\ requests # <<>> /\ Head(requests).kind = "audio"
  /\ requests' = Tail(requests)
  /\ LET request == Head(requests)
         buffer == Pushed(request.frames)
         fresh == since + Cardinality(request.frames)
     IN  /\ window' = buffer
         /\ IF fresh < PartialInterval(buffer)
              THEN since' = fresh /\ UNCHANGED << best, shown, result >>
              ELSE /\ since' = 0
                   /\ \E partial \in Decoded(buffer) :
                        /\ result' = [kind |-> "partial", turn |-> request.turn,
                                      text |-> partial]
                        /\ best' = IF partial = {} THEN best ELSE partial
                        /\ shown' = IF partial = {} THEN shown
                                    ELSE shown \union {request.turn}
  /\ UNCHANGED orchestratorVars

(* Mutated form: the last decode has the last word. *)
HandleFinishBlank ==
  /\ requests # <<>> /\ Head(requests).kind = "finish"
  /\ requests' = Tail(requests)
  /\ \E final \in Decoded(window) :
       result' = [kind |-> "final", turn |-> Head(requests).turn, text |-> final]
  /\ window' = {} /\ since' = 0 /\ best' = {}
  /\ UNCHANGED << orchestratorVars, shown >>

(* finish_utterance decodes what is in the window, if anything is; a transcript
   without words gives way to the best partial.  Both are forgotten. *)
HandleFinish ==
  /\ requests # <<>> /\ Head(requests).kind = "finish"
  /\ requests' = Tail(requests)
  /\ \E final \in Decoded(window) :
       result' = [kind |-> "final", turn |-> Head(requests).turn,
                  text |-> IF final = {} THEN best ELSE final]
  /\ window' = {} /\ since' = 0 /\ best' = {}
  /\ UNCHANGED << orchestratorVars, shown >>

HandleReset ==
  /\ requests # <<>> /\ Head(requests).kind = "reset"
  /\ requests' = Tail(requests)
  /\ window' = {} /\ since' = 0 /\ best' = {}
  /\ UNCHANGED << orchestratorVars, shown, result >>

RecognitionInit ==
  /\ state = "Idle" /\ session = 0 /\ preroll = <<>> /\ active = NoTurn
  /\ heard = <<>> /\ fed = <<>> /\ begun = <<>> /\ cut = 0
  /\ requests = <<>>
  /\ window = {} /\ since = 0 /\ best = {} /\ shown = {}
  /\ result = [kind |-> "partial", turn |-> NoTurn, text |-> {}]

Orchestrate ==
  \/ StartSession \/ EndSession
  \/ ProcessFrame \/ SpeechStart \/ PushToTalk
  \/ BargeIn \/ ConfirmBargeIn \/ RetractBargeIn
  \/ FinishUtterance \/ SubmitWords \/ BackToListening
Work == HandleAudio \/ HandleFinish \/ HandleReset

Recognize == Orchestrate \/ Work

RecognitionSpec == RecognitionInit /\ [][Recognize]_recognitionVars

----------------------------------------------------------------------------
(* A text holds nothing the recognizer was given before it was told to finish
   or reset for the last time before the turn, and no frame of another session,
   whatever was given up without telling it and whatever the ring still held.
   After a barge-in it may hold the end of the utterance before, handed over
   again: the ring reaches back so far. *)
TextIsOfItsTime ==
  \A i \in result.text :
    /\ begun[result.turn].after < i
    /\ heard[fed[i]] = begun[result.turn].session

(* A final is without words only if no partial of its utterance had any: words
   that were shown are never taken back by the last decode. *)
SeenWordsAreKept ==
  result.kind = "final" /\ result.turn \in shown => result.text # {}
=============================================================================
