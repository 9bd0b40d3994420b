# BuzzTalk in TLA+

BuzzTalk is a voice conversation between one user and one agent: a microphone,
a speech recognizer, an agent that answers in text (over a Buzz relay), a
speech synthesizer and a loudspeaker, with the user allowed to talk over the
agent. This directory holds TLA+ modules of its control logic, TLC
configurations that check them, and TLAPS proofs. Paths below are relative to
the repository (`src/` is its root here); crate paths are under `src/crates`.

## 1. Inventory

### Components, their state and operations

| Component | State | Operations | Modelled |
| --- | --- | --- | --- |
| Session machine (`buzztalk-session/src/machine.rs`, `types.rs`, `preroll.rs`) | phase, current and parked turn, turn counter, words in flight and of a failed submission, agent-complete flag, five timers, pre-roll ring | one handler per input: session start/end, push to talk, speech start/end, barge-in, transcripts, submission results, agent text/complete, playback drained, tick; `push_frame` | `Session`, `SessionTurns`, `TurnLifecycle` |
| Playback routing (`buzztalk-pipeline/src/playback.rs`) | live turn and its audio, parked turn and its audio, abandoned turns | start, cancel, flush, resume, cancel synthesis, route a phrase, take audio | `Playback` |
| Orchestrator (`buzztalk-pipeline/src/pipeline.rs`) | the loop, capture flag, turn being transcribed, count of empty finals, pending phrases per turn, the feeder's estimate; the device watchdog's clocks and fingerprint | `run`, `dispatch`, `act`, `process_frame`, `handle_stt_result`, agent events, `feed_playback`, `check_mic_health`, `check_device_health`, `rebuild_engine`, `pump_audio` | `Pipeline`, `DeviceWatch`, `Detection`, `AudioRings` |
| Recognizer worker and engine (`stt_worker.rs`, `buzztalk-stt`) | bounded request queue, window of audio, intervals, best partial | push audio (dropped when full), push the pre-roll (waits), finish, reset, decode; dies | `Pipeline`, `Recognition` |
| Synthesizer worker and engine (`tts_worker.rs`, `buzztalk-tts`) | FIFO requests, cancelled turns; phrases, prompts, frames | segment, synthesize, cancel; passes over a failed phrase; dies | `Pipeline`, `Segmentation`, `Synthesis` |
| Agent contract (`agent.rs`) | what was asked, events not yet polled | submit, poll | `Pipeline` |
| Detectors (`buzztalk-vad`) | confirmation windows, hangover, echo gate, convergence guard | one verdict per frame, reset, playback notifications | `Detectors`, `Detection` |
| Buzz agent and relay transport (`buzztalk-buzz/src/agent.rs`, `transport.rs`, `auth.rs`) | current turn, age of its last reply; connection, words kept while disconnected, reactions that wait, backoff | submit, poll, drop; connect, authenticate, subscribe, serve, publish, react, reconnect | `BuzzLink`, `Outbox` |
| Eligibility of a message for speech (`eligibility.rs`) | none | a decision | `IsSpeakable` in `BuzzLink` |
| Audio engine (`buzztalk-audio`) | capture, render-reference and playback rings, resamplers, frame readers, counters of drops | the device callbacks, push and read; format negotiation; rebuild | `AudioRings`, `DeviceWatch` |
| Model installation (`buzztalk-models`) | the files of two bundles; downloads and staging directories of each run | check, fetch, verify, extract, label, swap; status | `ModelInstall` |
| Gateway launcher (`scripts/buzztalk-gateway`) | state file, process table, what each shell read | on, off, status, toggle | `Gateway` |
| Handle of the pipeline and its clients (`pipeline.rs`, `bin/buzztalkd.rs`, `bin/demo.rs`, `buzztalk-ffi`, `examples/buzz-desktop-integration/voice_commands.rs`) | two channels, the loop's `running` flag, where the client is, the desktop example's event pump | start, start and end a session, receive or poll an event, drain, drop and join | `Host` |
| Echo canceller, core traits, labs, installers | none of protocol interest | - | no (section 6) |

### How they interact

The orchestrator is one thread. A round of its loop drains control messages,
ticks the machine, takes the frames of audio that wait, checks the device,
drains the recognizer's results, the agent's events, the synthesizer's results,
and tops up the loudspeaker. It feeds each of these to `SessionMachine::handle`
and carries out the list of outputs that returns (`act`); carrying one out may
call the machine again before the rest of the list. The recognizer and the
synthesizer are threads behind channels; the agent is polled, and behind it a
transport thread owns the connection to the relay; the audio engine plays and
captures in callbacks that share only rings with the orchestrator. Models are
installed by other processes over one directory; the daemon is started and
stopped by shells over one state file. The program that holds the pipeline's
handle (the daemon, the demo, an application behind the C interface, a desktop
application) sends it commands and takes its events over two channels, and waits
for its thread when it drops the handle.

### What is hard

* Results name a turn and may come after that turn was given up, while another
  one is speaking or being spoken to.
* During an unproved barge-in two turns are alive and five different events
  settle them; two detectors hear the microphone in turn.
* The end of the agent's speech is inferred from three sources (its own
  "complete", phrases pending, the estimate of what the loudspeaker still
  holds) that change in any order; its own "complete" is itself inferred from a
  quiet period at the relay.
* Threads die, queues and rings fill, a phrase fails, the device is rebuilt in
  mid turn, the connection breaks with messages in both directions.
* Nested dispatch: outputs of an inner call are carried out before the rest of
  the outer list.
* Crashes between the steps of an installation, two installers in one
  directory, two shells over one state file, process numbers that are used
  again between a check and a signal.
* Commands and events that cross in the channels between the loop and the
  program that holds its handle, and an end that must not wait for itself.
* Lengths at boundaries: segmentation rules that meet, a token budget, rates
  that are no multiple of each other.

`PROJECT.json` lists each of these at its line under `hazards`, with the
properties that cover it or the reason none does.

### What makes each component correct

* Machine: one turn has the floor; a turn given up never returns; every wait
  ends; words are neither lost nor repeated; audio of one session stays in it.
* Pipeline: what is heard is the turn whose floor it is; a reply is not cut by
  its own end; what is submitted was said in that turn; the agent gives up the
  floor; a transcript that is waited for has been asked for.
* Detectors: neither is deaf because of what it heard in an earlier spell; only
  unbroken speech interrupts; silence ends a turn.
* Recognition: words come from audio of the turn's session that the recognizer
  was given since it last finished or was reset; words that were shown are not
  taken back. Synthesis: nothing of a reply is left unsaid,
  and no prompt exceeds the engine's budget.
* Audio: every sample is played, handed over or counted; microphone and echo
  reference stay together; the engine is rebuilt when it must be and only then.
* Relay: words arrive in order and at most once; a reaction follows its
  message; a reply is ended by its own quiet period; the thread stops.
* Installation: whatever is at a final path is whole and verified; a later run
  repairs what a crash left. Launcher: no daemon is lost sight of, only the
  daemon is stopped, and it is stopped.
* Clients: a daemon that serves is never left with an Idle session; whoever
  stops comes to an end, with the microphone closed.

## 2. Modules

| Module | Role |
| --- | --- |
| `Session` | the machine: an action per input handler, with its early returns (`Ignored`), its outputs in order in `out`, its timers |
| `TurnLifecycle` | abstract specification: what becomes of turns |
| `SessionTurns` | the machine with history variables; the refinement mapping to `TurnLifecycle` |
| `Playback` | `PlaybackState` as a value and operators from value to value |
| `Pipeline` | extends `Session`, uses `Playback`: loop, workers, agent, feeder |
| `Detectors` | the endpoint and the barge-in detector as values and operators from value to value |
| `Detection` | extends `Session`, uses `Detectors`: who hears which frame, when each is reset |
| `AudioRings` | device callbacks, rings, resamplers, frame readers, format negotiation, the pump that pairs frames |
| `DeviceWatch` | the watchdog: stall clock, fingerprint, failures, the steps of a rebuild |
| `Recognition` | the pre-roll ring and what is handed to the recognizer when, the worker's queue, the window that is decoded, partials and finals |
| `Segmentation` | pure: a reply cut into phrases |
| `Synthesis` | extends `Segmentation`: phrases cut into prompts, frames, decoding |
| `Outbox` | abstract specification: words reach the channel in order, each at most once |
| `BuzzLink` | agent, transport thread, relay and agents behind it; implements `Outbox` |
| `ModelInstall` | runs of `ensure_models` over one directory |
| `Gateway` | shells, state file, process table |
| `Host` | the loop with its two channels, and the programs that hold the handle |
| `SessionProofs`, `SessionTurnsProofs`, `PipelineProofs`, `BuzzLinkProofs`, `SpeechProofs`, `ModelInstallProofs`, `DaemonProofs`, `AudioProofs` | theorems and proofs |
| `MC...` | small constants for TLC |

### Correspondence with the code

`Session`. A turn id is the number the code allocates, 0 is None. Each `On...`
operator is the handler of that name. `Return` is `handle`: the handler's
outputs, then `EmitState` if the phase changed. `BeginUserTurn`,
`BackToListening`, `EndSession` and `ConfirmGenuineBargeIn` are the helpers of
the same purpose. Results may name any turn ever begun. A frame is reduced to
the session it was captured in (`session` is a ghost counter); an utterance to
a member of `Text`. Error texts are left out.

`SessionTurns`. `fate`, `sent`, `failed_turn` and `heard` are read off inputs
and outputs; the machine never reads them.

`Pipeline`. `phase` is where the loop is, `agenda` what its call stack has
still to do; `Act` takes its first element, so that nested dispatches run in
the order of the code while the other threads move on between any two
elements. Per operation:

| Code | Action |
| --- | --- |
| control messages, `Shutdown`, tick | `DrainControl`, `Shutdown`, `TickMachine` |
| `process_frame` | `PumpFrame`, `DetectSpeech`, `TranscribeFrame` |
| `check_device_health`, `check_mic_health`, `rebuild_engine` | `CheckDevice`, `RebuildEngine` |
| `act` | `ActCapture`, `ActPlayback`, `ActCancelSynthesis`, `ActSubmit`, `ActReplay`, `ActState` |
| `handle_stt_result` | `DrainStt` (`HandlePartial`, `HandleFinal`) |
| text chunk, turn complete, `nothing_left_to_play`, `signal_drained` | `DrainAgent`, `SynthesizeChunk`, `FinishTurnIfSilent`, `SignalDrained` |
| `poll` of the synthesizer, `route_synthesized` | `DrainTts` |
| `feed_playback` | `FeedPlayback` |
| `lose_capability` | `SttDrained`, `TtsDrained` |
| worker threads | `SttWork`, `SttDies`, `TtsWork`, `TtsDies` |
| the agent | `AgentWork` |
| the device's callback and the feeder's clock | `PlayOut` |

A blocking send (`finish_utterance`, `reset`) is an action that waits for room
in the queue; `push_audio` drops. An utterance is the set of turns whose audio
it was decoded from, so that "whose words are these" can be asked; `{}` is a
transcript without words, which the best-partial fallback or the recognizer may
give. A phrase comes back as some number of pieces of audio. `ahead` is the
feeder's pieces given less pieces of time since its anchor, so the estimate
`Resident` is its positive part and may disagree with `ring`, what the device
really holds. Which fragment filter verdict and which detector's verdict fall is
a free choice here. `unheard` is a ghost: phrases asked for and not yet wholly
given to the engine. `Hazards` names what may go wrong in a run: the user talks
over the agent (`barge-in`), text after the agent's end (`late reply`), a phrase
that cannot be synthesized, an engine missing or dying, a device rebuild.

`Detectors`, `Detection`. A frame is what the front end says of it: whether its
energy is above each detector's threshold, and its spectral shape. Every other
field of the two detectors is a field of the model, with the windows as
sequences. A frame that arrives is two steps, `FrameArrives` (`push_frame`) and
`FrameHeard` (the detector that listens in this phase, and the input its
verdict becomes); every other input of the machine may come between two frames
(`OtherInput`). `BargeInFollows` and `EndpointFollows` are the statements of
`act`, `on_state_changed` and the agent's first text that reset or notify a
detector. `quiet`, `run` and `opening` only observe.

`AudioRings`. A sample is its number in its stream, a frame its first number
and its engine. `InputCallback`, `OutputCallback` (and `VpioInput`,
`VpioRender` for Apple's unit) run once per device frame and push sample by
sample; `PumpRef`, `PumpCapture` and `Pair` are the orchestrator's pump.
The position in a stream that is resampled, an `f64` in the code, is an exact
rational. `NegotiatedRates` is the choice of stream formats; `Rebuild` opens the next
engine and drops what waited to be paired.

`DeviceWatch`. `WatchTick` is one round of `check_mic_health` and
`check_device_health`; a rebuild is two further steps (`OpenEngine`, then
`SignEngine`), between which devices may change under the hazard of that name.

`Recognition`. Frames are numbered as they are captured and hand-overs as they
are made, because one frame can be handed over several times: `fed` gives the
frame of each hand-over, `heard` the session of each frame. A text is the set of
hand-overs it was decoded from, and so is what waits in the worker and what the
recognizer holds. Of the session the model keeps what decides where a frame
goes, the phase (with Submitting, AwaitingAgent and AgentSpeaking as
"Answering"), the ring and `stt_active_turn`: `ProcessFrame`, `SpeechStart`,
`BargeIn` and `FinishUtterance` are `process_frame` in the phases where it does
something different, `PushToTalk`, `ConfirmBargeIn`, `RetractBargeIn`,
`SubmitWords`, `BackToListening` the steps that capture nothing. `BargeIn` hands
over the whole ring, whatever it holds, in one request, and then the frame that
confirmed it, which is in the ring, once more. A frame is dropped on a full
queue, the ring, a finish and a reset wait for room. An ordinary utterance has
no pre-roll and begins with a frame that may be dropped. Times are left out: any
number of frames may come in a phase. `HandleAudio`, `HandleFinish`,
`HandleReset` are the worker's loop. The recognizer's lengths are in frames: the
resampler makes 160 samples of each frame of 480. A final is decoded from at
most the last window of audio, which `recognizer.rs` documents.

`Segmentation`, `Synthesis`. A character is reduced to what the rules tell
apart; a phrase or a prompt is the set of positions it takes. `Tokens` is a
constant operator: the theorem holds for every tokenizer, TLC runs one that
counts letters and the full stop. `TakePhrase`, `AddWord`, `AddLetter`,
`FinishSplit` are the loop that grows a prompt; `Generate` and `DecodeFrames`
the frames of one prompt, decoded a few at a time. `PhraseFails` is any of the
error returns of the engine: the phrase is lost whole, with what was already
sound of it, and the worker goes on with the next.

`BuzzLink`. `phase` is how far the transport thread has come: it attempts a
connection, waits for the challenge, authenticates, subscribes (and publishes
what waited), serves (`ServeCommand`, `ServeRead`), and waits before the next
attempt (`WaitCommand`, `WaitOver`). Messages in both directions are sequences
that vanish when `LinkBreaks`. The relay accepts, stores, confirms, refuses and
delivers; agents post what the sets `Posts` and `History` hold. `given` is a
ghost, the events `poll` returned. `published` is a part of the relay's log, the
words in it; it is what `Outbox` calls `delivered`.

`ModelInstall`. A run is a program counter, and each step that touches the disk
an action: `CheckStt`, `Fetch`, `Verify`, `Extract`, `Label`, `BeginSwap`,
`RemoveEntry` and `RemoveDir` (`remove_dir_all` is not atomic), `Rename`,
`CheckFile`, `Persist`. `Breaks` ends a run at any step, by an error or a kill.
Bytes are where they come from.

`Gateway`. A shell is a place in the script, what it read of the state file and
how often it looked. `Exit` and `Reuse` are the rest of the system: a process
ends, its number is given to another program or to a daemon started by hand.
Two assumptions: two processes with one number never share a start time, and
the reads and looks of one `owned_process` are taken together.

`Host`. `client` is which program holds the handle, fixed from the start. A
round of the loop is `HandleControl` for each command (`drain_control`), then
`ControlDrained`, `TickSession` (the machine's own timeout may end the session)
and `Pump` (the rest of the tick, which may tell something or open the devices
again); `RestartOnNewEngine` is the second dispatch of `rebuild_engine`. Of the
session machine `Start` and `EndWith` keep what `on_session_start` and
`on_session_end` do to Idle and to the events; of the events, a change to Idle
and the end are told apart from the rest. `DaemonReceives` is the daemon's loop,
`DrainEvents` and `DrainOver` its half second after `end_session`, `Drop` and
`Join` the handle's end; `StopAndDrop` is `buzztalk_stop` of the C interface and
of the desktop example, whose pump is `PumpForwards` and `PumpEnds`.

## 3. Runs

| Run | Configuration, distinct states | What it shows |
| --- | --- | --- |
| `session` | `MCSessionTurns.cfg`, 58 thousand | `TurnStructure`, `NoPrematureEnd`, `WordsAreKept`, `SubmittedOnce`; refinement `ImplementsLifecycle`; with the tick fair, `TurnsAreSettled` |
| `pipeline` | `MCPipeline.cfg`, 3.5 million | with barge-ins, failing phrases and a dying synthesizer: `EnginesFollowSession`, `FinalIsOnItsWay`, `PendingCoversPhrases`, `SpokenWithTheFloor` |
| `replies` | `MCReplies.cfg`, 2.5 million | two turns, two sessions, rebuilds, late text, missing engines, failing phrases: `WholeReplyHeard`, `WordsOfTheTurn` |
| `reply_ends` | `MCReplyEnds.cfg`, 309 thousand | late text, recognizer dying, rebuilds, with and without a synthesizer: `ReplyEnds` |
| `detection` | `MCDetection.cfg`, 124 thousand | `NeitherIsDeaf`, `SilenceEndsSpokenTurn`, `InterruptedByUnbrokenSpeech` |
| `audio` | `MCAudio.cfg`, 389 thousand | rings and watchdog side by side: `EverySampleAccounted`, `PairsMatch`, `HealthyEngineIsLeftAlone`, `FailedStreamIsReplaced` |
| `buzz` | `MCBuzz.cfg`, 180 thousand | refinement `WordsInOrderOnce` (of `Outbox`); `ReactionsFindTheirMessage`, `CompletionFollowsReply`; `PendingIsFlushed`, `DropStops`, `RepliesComplete` |
| `install` | `MCInstall.cfg`, 452 thousand | `InstalledTogether`, `NeverHalfInstalled`, `RerunHeals` |
| `gateway` | `MCGateway.cfg`, 265 thousand | the launcher and the clients side by side: `DaemonIsKnown`, `SparesStrangers`, `OffStops`; `RestartIsComing`, `SteadyListening`, `StopsInTheEnd` |
| `speech` | `MCSpeech.cfg`, 2.5 million | the two workers' engines side by side, an inference failing anywhere: `PhrasesAreWellCut`, `NothingUnsaid`, `PromptsFit`; barge-ins, retractions, push to talk and sessions around the recognizer: `TextIsOfItsTime`, `SeenWordsAreKept` |
| `retraction_hang` | `MCRetractionHang.cfg` | violation, section 4 |
| `desktop` | `MCDesktop.cfg` | violation, section 4 |

Each property of a passing run has a mutant: a plausible bug in a mapped
definition, kept beside it in the module as "Mutated form", that makes TLC find
the property violated in that very run.

### Bounds

`MaxTurn` and `MaxSession` bound turns begun and sessions started, in the guards
of `BeginUserTurn`, `OnSessionStart` and `RebuildEngine`. Three turns in
`session` are a parked turn, its candidate, and a push to talk that settles both
or a turn of a second session; two turns in the pipeline are an interrupted one
and its interrupter, or a given-up one and its successor; one turn is enough in
`reply_ends`, whose property speaks of a single turn. Windows of 1 and 2 with
ticks of 1 make ticks that land on a window and fall short of it; in the
pipeline a tick of {0, 1} is whether it ends the window. `Pieces` {1, 3} with
`Lead` 2 gives a phrase below the lead and one above it; an empty
result, which the engine returns for text without tokens (`engine.rs:234`, `259`),
is not among them: segmentation returns no empty phrase and a prompt has frames.
`MaxBehind` 1 lets the estimate fall behind an underrun. `SttCapacity` 1 makes
the queue full at once.
`MaxChunks`, `MaxPhrases` bound a reply; `DeadCaptureFinals` 2 reaches the
rebuild on empty finals.

`detection`: counts and windows of 2 to 4 frames keep the order of the code's
constants; frames are of two shapes, three turns. `audio`: rings of 2 and 3
samples, devices at half, the same and one and a half times the native rate,
two engines and five device frames, which fill every ring, drop, and rebuild
with a frame half read. `buzz`: three turns submitted, one post besides the
history, two faults (a break and a refusal, or two breaks). `install`: two
installers, three runs, two faults, an archive of two files and one TTS file,
so that a crashed run, a run that meets it and a run that repairs all happen.
`gateway`: two shells, two numbers, three processes, three commands, one
interruption, one look before KILL. `speech`: every text of up to four symbols
of nine kinds and of up to six of four kinds, against caps of 1 to 4 and a
budget of 3 tokens; for the recognizer a ring and a window of 3 frames, partials
after 2 or 3, a queue of 2, six frames, three turns and two sessions, so that a
barge-in replays frames of the turn before, of a longer and of a shorter past,
is retracted and comes again, and a session ends with all of it in the queue. For
`Host`, in `gateway`: all four clients, and an event of the loop's own arises only while fewer than four commands and events are queued, so that a
restart, the event it answers, a rebuild and the commands of a stop can all be
under way together. Other bounds: `MaxFaults`, `MaxRuns`, `MaxBirths`,
`MaxCommands`, `MaxInterrupts`, `MaxPosts`, `MaxDeviceFrames`, `MaxEngines`,
`MaxPush`, `MaxFrame`, each in the guard of the action it
bounds.

Deadlock is checked except in `buzz` (the transport thread stops when it is
told to), `install` and `gateway` (runs and commands are used up, clients come
to their end or fail to start, and all come to rest), `speech` (a reply ends,
frames are used up) and `desktop` (the client comes to its end).

Where two parts share no state and run in one configuration (`audio`, `speech`,
`gateway`), the variable `part` of the `MC` module says which of them runs, and
the other stays as it began: the states add up and do not multiply.

### Fairness

`HFairSpec`: weak fairness of the tick, which the orchestrator performs in every
round of its loop. `PFairSpec`: weak fairness of the orchestrator, of each
worker, of the agent (it answers what it was asked) and of the device; strong
fairness of `NoFrame`, that is, the device does not capture frames faster than
they are processed, without which one round would never end. `BuzzSpec`: the
transport thread and the caller of `poll` run, time passes, and a relay that is
connected answers; breaks are bounded by `MaxFaults` and never fair.
`WatchSpec`: the loop goes on, and a device that can be opened again and again
is opened in the end (strong fairness of `OpenEngine`). `InstallSpec` and
`GatewaySpec`: a process that runs goes on running; faults, kills, commands and
interruptions are never fair. `HostSpec`: the loop's thread runs, a client takes
the events there are, and goes on with a stop it has begun; in particular the
half second of the drain ends, however many events there are. Nothing the user does and no fault is fair.

## 4. Where the code and its documents differ

Two runs find a violation, each with a finding. `retraction_hang`: the agent's
end that comes during a barge-in is dropped, and after the retraction nothing
ends the turn. `desktop`: the pump of the desktop example takes the first 200
milliseconds without an event for the end of the pipeline and stops forwarding.

### Divergences without a run

Met while reading and modelling the same code. The runs are configured so that
each of them is either allowed by the property or kept out by a named hazard.

Session and pipeline:

* `machine.rs:541` zeroes `speaking_elapsed` when `MAX_UTTERANCE` forces the
  endpoint; its doc (`machine.rs:120`) says it is frozen, and the filter of
  short fragments reads it in Finalizing.
* `pipeline.rs:1054`: a dispatch nested in `act` reports `AwaitingAgent` before
  the outer list reports `Submitting`, and the host is left with the latter.
* `pipeline.rs:1470`: `feed_playback` compares with an estimate taken before its
  own push, and declares a turn drained with its last short phrase in the ring.
* `pipeline.rs:1008`: a device rebuild while Idle opens a session nobody asked
  for.
* A retraction does not reset the recognizer, and its audio becomes part of a
  later turn's words. `WordsOfTheTurn` is therefore checked without barge-ins.
* `pipeline.rs:1137` replays the whole pre-roll ring on a barge-in: the last 1500
  ms (`types.rs:65`), whoever's they were. The ring is filled in every phase but
  Idle and cleared only with the session, and the endpoint hangover is 300 ms
  (none with push to talk), so that a barge-in early in the reply gives the end
  of the previous utterance, which was finished and submitted, to the recognizer
  once more, now as audio of the new turn. The docs call what is replayed "the
  first word of what the user said" (`preroll.rs:13`), and the diagram of
  `src/README.md:264` still has 500 ms. This is the second reason
  why `WordsOfTheTurn` is checked without barge-ins, and why `TextIsOfItsTime`
  speaks of hand-overs and sessions, not of whose speech a frame was.
* The frame that confirms a barge-in is handed to the recognizer twice, as the
  last of the ring (`pipeline.rs:1393`) and by itself (`pipeline.rs:1418`).
* `tts_worker.rs:95`: a phrase that cannot be synthesized is never subtracted
  from `tts_pending`, and `pipeline.rs:864` clears the counts of a dead
  synthesizer and evaluates nothing again; either leaves the session in
  AgentSpeaking. `ReplyEnds` is therefore checked without them.
* `pipeline.rs:1100` keeps an older `stt_active_turn` when push to talk takes
  the turn from Finalizing or AwaitingAgent; partials then carry that id.
* `playback.rs:82` drops audio that waited when a barge-in began, which a
  retraction does not bring back (`playback.rs:76`: "without having lost
  anything"). `WholeReplyHeard` is therefore checked without barge-ins.
* A drained turn stays `live_turn`, so text after its end is spoken while the
  session listens. `SpokenWithTheFloor` is therefore checked without late text.
* `tts_worker.rs:88`: `Cancel` waits in the queue behind what it cancels.

Detection:

* `bargein.rs:267`: `reset` clears the convergence guard that
  `notify_playback_started` armed one statement earlier (`pipeline.rs:1065`,
  `1257`), so the guard never holds.
* A turn that began as a barge-in and ends before the endpoint detector has
  confirmed it is ended by a later timer, not by silence:
  `SilenceEndsSpokenTurn` is about turns the voice opened from Listening.

Devices:

* `pipeline.rs:652` says that a stall that survives a rebuild is not rebuilt
  again; the rebuild clears `mic_stall_reported`, which clears the attempt, so a
  silent microphone is rebuilt once per `MIC_STALL_TIMEOUT`.
* `pipeline.rs:1017` says a failed rebuild "will keep retrying"; after a stall
  whose one attempt failed it does not, until frames flow or the device changes.
* `pipeline.rs:980`: a default that changes while the engine is opened leaves it
  on a device nobody compares with (hazard "change while opening").
* `pipeline.rs:1373`: a microphone that pauses for less than the stall timeout
  leaves reference and capture shifted against each other.

Buzz:

* `transport.rs:169`: words that waited for the connection are published without
  keeping their reaction, so the user is never shown that they were heard
  (`docs/HANDOVER.md:40`: "on each spoken message").
* The subscription has no `since`: stored messages are delivered, and spoken,
  again after each reconnection, and count as replies of the current turn.
* A write that fails loses the words although the machine was told
  `SubmitSucceeded`; `Outbox` therefore promises order and no repetition, not
  delivery.

Clients:

* The daemon and the demo also leave their loops and their drains on
  `SessionEnded`, which is sent only when the handle is being dropped:
  the theorem `NobodyHearsTheEnd` shows that they never receive it there, so a
  stop always takes the whole half second.
* `buzztalk_poll_event` returns `None` ("No event was ready this poll",
  `buzztalk-ffi/src/lib.rs:61`) also for an event it takes and does not show; a
  caller that polls until `None` leaves events behind.
* The C interface has no way to start a session again: after 90 seconds of
  silence an application is left as the daemon was before it restarted Idle
  sessions (`docs/live-session-2026-08-09/SESSION-REPORT.md:43`).
  `SteadyListening` is about the daemon.

Installation and launcher:

* `install.rs:335` calls an existing directory "safe to replace outright"; a
  second run may have completed it since the check. The two runs may take apart
  each other's complete installation, which is why `InstalledTogether` speaks
  of runs at rest.
* The doc of `ensure_stt` (`install.rs:206`) says that a crash before the rename
  leaves the directory "exactly as it was"; between `remove_dir_all` and the
  rename it is partly or wholly gone. `RerunHeals` shows that the next run
  repairs it.
* `ModelStatus::all_present` says "present and verified"; it looks at the
  sentinel, at names and sizes, not at the hashes of the STT files.
* Two `on` commands that meet start two daemons; the design document asks that
  duplicate launches be prevented. `DaemonIsKnown` is about commands that do
  not meet.
* `scripts/buzztalk-gateway:232`: KILL goes to whoever has the number after the
  wait. `SparesStrangers` shows that this can only be a process that was started
  after the ownership check.

## 5. Proofs

Each theorem holds for every value of the constants that satisfies the named
assumptions of its module; TLC evaluates these in the runs.

| Module | Theorem | States |
| --- | --- | --- |
| `SessionProofs` | `SessionTypeOK`, `TurnsAreStructured`, `FramesOfOneSession`, `AbandonedStaysAbandoned`, `TimersAreFresh` | the safety of the machine's turns, frames and timers |
| `SessionTurnsProofs` | `SessionImplementsLifecycle` | the observed machine refines `TurnLifecycle` |
| | `WordsSurvive`, `EndsAreReported`, `WordsGoOnce` | `WordsAreKept`, `NoPrematureEnd`, `SubmittedOnce` |
| | `DetectorsListen`, `SilenceEndsTurns`, `InterruptionsAreUnbroken` | `NeitherIsDeaf`, `SilenceEndsSpokenTurn`, `InterruptedByUnbrokenSpeech`, for any windows and any order of inputs |
| `PipelineProofs` | `EnginesAgree`, `PendingCovers`, `FinalComes` | `EnginesFollowSession`, `PendingCoversPhrases`, `FinalIsOnItsWay`, for any number of turns, any sizes and every hazard |
| | `OnlyTheSpeakerIsHeard` | `SpokenWithTheFloor`, for every hazard but text after the agent's end |
| | `RepliesAreWhole` | `WholeReplyHeard`, for every hazard but barge-ins and a synthesizer that dies |
| | `WordsAreOfTheTurn` | `WordsOfTheTurn`, for every hazard but barge-ins |
| `BuzzLinkProofs` | `BuzzImplementsOutbox` | the backend refines `Outbox`, whatever the network and the relay do |
| | `ReactionsComeSecond`, `CompletionsFollow` | `ReactionsFindTheirMessage`, `CompletionFollowsReply` |
| `SpeechProofs` | `PromptsAlwaysFit` | `PromptsFit` for every tokenizer, text and budget |
| | `TextsAreOfTheirTime`, `WordsAreNotTakenBack` | `TextIsOfItsTime`, `SeenWordsAreKept`, for every ring, window, interval, queue and number of frames, turns and sessions, barge-ins and retractions included |
| `ModelInstallProofs` | `InstallsAreWhole`, `TogetherInstalled` | `NeverHalfInstalled`, `InstalledTogether`, for any number of installers, files, runs and faults |
| `DaemonProofs` | `StrangersAreSpared`, `DaemonsAreKnown` | `SparesStrangers`, `DaemonIsKnown`, for any number of shells, numbers, commands and looks |
| | `DaemonRestarts`, `GoneIsClosed`, `NobodyHearsTheEnd` | `RestartIsComing`, `ClosedWhenGone`, `EndIsUnheard`, for any length of the channels |
| `AudioProofs` | `SamplesAccounted`, `FramesArePaired` | `EverySampleAccounted`, `PairsMatch`, for any devices, rates and capacities |
| | `RebuildHasAReason` | `HealthyEngineIsLeftAlone`, if no default changes while devices are being opened |

*Session.* `TurnStructure` is not inductive by itself: a handler that moves to a
phase relies on the turn variables having their types and on ids never
exceeding the counter, so it is proved inside `TurnsOK` (those types and
`TurnStructure`), which every action keeps. The inductive invariant `IInv` for
`TypeOK` adds `ClocksOK` (each timer below its window), `FramesOK` (the ring
and the session it belongs to), `WordsOK` (the words) and the type of `out`.
Clocks and frames are handled by first classifying what a step can do to them
(`ClockStep`, `FrameStep`): a few shapes instead of every handler. The two
action properties follow from `TurnsOK` and `ClocksOK`.

*Lifecycle.* A step of the machine has one of eight effects on turns
(`TurnEffect`: keep, begin, interrupt, confirm, retract, speak, release, end),
read off its handler and its outputs; each effect maps to an action of
`TurnLifecycle` or to a stutter. The extra invariant is `FateOK`: every turn
begun and no longer held has a fate.

*Words.* What a step can do to the text in flight is again a few shapes
(`WordStep`); the invariant (`SentOK`, `FailureOK`, `ReportOK`, `FinishedOK`) ties it to the
history: what a turn sent is what it holds until the answer, what failed is what
is kept for the retry, and a turn that is reported complete is one that was
heard so.

*Engines.* `EnginesFollowSession` speaks of the moments when the loop has
nothing left to carry out; it is not inductive because the machine changes first
and its outputs are carried out one by one, with the other threads in between and
with nested calls of the machine. `AgreeInv` says by how much the engines lag
behind: either playback and microphone agree with the machine, or the first items
on the agenda are the outputs that will make them agree, in an order that
`Behind` lists (a barge-in to park, a retraction to take back, an abandoned turn
to silence and to forget, a microphone to open or close, a submission), and
nothing that matters to them comes after. Every handler returns its outputs in
such an order (`CallEffect`, proved of each in `CallKinds`), and each item carried
out leads to a shorter lag.

*Pending phrases.* The count is compared with a set of positions in two queues.
`PhrasesKnown` adds that what is on its way is of a turn that began and, if it is
the current one, of one that playback knows, so that a turn never starts to be
heard with phrases of its own already on their way and not counted; `WorkerOK`
that a lost synthesizer leaves nothing behind, since its counts are cleared.

*Transcript.* While the machine is in Finalizing with a recognizer that runs, the
request to finish, the result, or an item of the agenda that produces or handles
either is there (`AnswerComing`). The queue that drops audio does not drop the
request, and the worker takes requests in order.

*Speaker.* What may be heard is decided long after it was asked for, so the
invariant follows a piece of audio from the agent's text to the device. A turn
that does not speak is silent (`Silent`): either the item on top of the agenda
abandons it, or its queue is empty and, if playback still has it as its live
turn, nothing of it can come any more (`Hush`). That a turn the machine left
because it was heard to its end is of this kind needs the whole chain: the
machine leaves AgentSpeaking on the report that the agent is done, which is sent
after the last of its text (`ReportsInOrder`, `FlagOK`), and when no phrase is
pending, which by `PendingCoversPhrases` means that none is on its way. Without
the assumption it is false: a drained turn stays `live_turn` (section 4).

*Whole replies.* What was asked for and is not yet heard (`unheard`) is bounded
from both sides (`HeardOK`): it is at least the phrases on their way and the last
pieces that wait, so that the count never passes zero, and at most `tts_pending`
and those last pieces, so that it is zero when a turn ends with nothing pending
and nothing waiting. The bounds hold of the turn that speaks; that no
other comes in between is `Undisturbed`: without barge-ins no turn is parked and
the one that speaks is playback's live one. With them, or with a synthesizer that
dies, phrases are lost (section 4).

*Utterances.* Audio of several turns may lie in the recognizer's queue at once.
Words are kept apart by what follows them: the next finish after them is of their
own turn (`OwnWords`), or nothing follows them yet (`Loose`), and then their turn
is open: the user still speaks, or the item on the agenda that will finish or
reset is the next one to be carried out (`Open`). So a turn can only be left
through a finish or a reset, and no audio is sent in between. A retraction leaves
without either, hence the assumption (section 4). `Faithful` follows the words
from the result to the submission.

*Ears.* `SilenceEndsSpokenTurn` and `InterruptedByUnbrokenSpeech` compare the
observers `quiet` and `run` with what the detectors hold: in a turn the voice
opened the endpoint detector has heard speech and counts exactly the silence
since, and while the agent speaks the strict one holds no more shapes than
frames were voiced in a row. Both hold because the machine reaches these phases
only by steps that reset or notify the detector, or that it took part in.

*Rings.* The samples in a ring are in order without gaps, and the number of the
first one plus their count is what was handed in less what was dropped. The
`k`-th sample that waits is therefore later by at most what was dropped than the
`k`-th of a ring that drops nothing, which is what `PairsMatch` asks. That the
reference keeps step with what is played is an equation between the positions
of the resamplers.

*Watchdog.* Except between the two steps of a rebuild the fingerprint is that of
the devices that were opened, and the silence counted is never longer than the
real one, so that a stall or a difference that is seen is one of the world. The
assumption is the hazard "change while opening", under which the fingerprint is
that of other devices.

*Recognition.* With a retraction, audio of two turns may lie between two
requests that make the recognizer forget, and with a replay one frame in two
hand-overs, so that requests cannot be grouped by turn. `InPlace` relates every
hand-over that waits or is held to every request behind it instead: it is of no
later session than that request's turn, and unless a finish or a reset comes in
between, it was made after the last one there had been when that turn began.
`SessionOK` gives the other half: the ring and whatever was handed over since
the last finish or reset are of the session that runs, because the ring is
cleared before another begins, and leaving a session sends a reset. Together they
put a text into the one session that is neither earlier nor later than its
turn's. For `SeenWordsAreKept`, `FinishOK` says that between the words that were
shown of a turn, or may yet be, and the finish of that turn nothing makes the
recognizer forget.

*Outbox.* A word is in one of a row of places: the channel of commands, the
place kept while disconnected, the connection, what the relay is about to store,
what it has stored. `InOrder` says that each place is sorted, that all of it is
newer than what is in the places after it, and that nothing waits while the
connection serves; each action takes the first word of one place to the end of
another that is further on, or loses it.

*Clients.* `RestartIsComing` is not inductive alone: it needs that before
`end_session` every command queued is a start (`OnlyStarts`), else another
command could end the session again, and that the loop runs until the handle is
dropped (`RunsUntilDropped`), else nobody takes the command. `EndComesLast` gives
the other two.

*Synthesis.* That complete prompts fit is not inductive: a prompt is completed
in the step after it grew. The invariant adds that the prompt in the making
fits, which both branches of the loop keep: a word is added only if the result
fits, a letter alone fits by `LetterAssumption`, and whatever is completed was
in the making. That the next letter is one of those left rests on the library's
well-foundedness of the naturals.

*Installation.* Nothing but `Rename` and `Persist` puts anything at a final
path, and both take what the run prepared before: the invariant `Prepared` says,
for each place of the program between the check of the hash and the rename, what
the download and the staging directory hold. A run writes only its own
(`ChangesOnly`), so the other runs' preparations stand (`OthersArePrepared`).
For `InstalledTogether` the invariant `InHand` says where a bundle that was
installed is while runs meet: in place, or about to be replaced by one that is
ready, or about to be taken away by a run that does not let go of it.

*Launcher.* Between the ownership check and the last signal the number that a
shell holds is free, or the daemon's, or belongs to a process started after the
check (`MayEnd`). No step of another shell or of the system breaks it, since a
process that takes the number has a start time greater than all before
(`StillMayEnd`). `DaemonIsKnown` adds, while commands do not meet, that at most
one shell is under way (`Alone`) and that what it read agrees with the state file
(`RecordAgrees`), so that it never forgets or overwrites a daemon that runs.

Proved and not in a run: `PreRollOfThisSession`, `TimersStartFresh`,
`ClosedWhenGone` (which `StopsInTheEnd` includes), `EndIsUnheard`, and
`AbandonedTurnNeverReturns`, which `ImplementsLifecycle` includes: no phase that
ends a turn in `TurnLifecycle` is ever left.

Only model-checked. Liveness (`TurnsAreSettled`, `ReplyEnds`,
`FailedStreamIsReplaced`, `PendingIsFlushed`, `DropStops`, `RepliesComplete`,
`RerunHeals`, `OffStops`, `SteadyListening`, `StopsInTheEnd`) is out of the
prover's reach. `Segmentation` is a recursive function of the text, so that
`PhrasesAreWellCut` and `NothingUnsaid` rest on induction over data, which is
too. Every other safety property of a passing run is proved, four of them under an
assumption on the hazards that the theorem states.

## 6. Not modelled

* Signal processing and neural networks: echo canceller, the capture front end
  (noise floor, energies), resampling kernels, what a sample is worth, models
  and tokenizers. What a decode or a frame says is a choice, or a constant.
* Key loading, URL parsing, relay messages that change no state; configuration
  files and the launcher's `configure` and `logs`; the Windows script, which
  keeps the same record and makes the same checks through other calls.
* The words the fragment filter looks at, metrics, the silence watch, the
  joining of worker threads, what the events say beside the session's state.
* Core traits, argument parsing, the labs, which measure on real devices,
  installers, the desktop example's button and prose. They keep no protocol
  state.

The reasons are in `PROJECT.json` under `components`.

## 7. What is left

In the order of what it would add: the latencies that are measured per turn; the
watchdog and the detectors composed with the whole of `Pipeline`, which exceeds
what TLC checks in minutes; the Windows launcher; a second conversation with the
same relay.
