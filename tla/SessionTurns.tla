---------------------------- MODULE SessionTurns ----------------------------
(***************************************************************************)
(* The session machine observed over time: what its caller is told becomes *)
(* of each turn, which words it was handed, and what the agent reported.   *)
(* The history is read off the inputs and outputs of handle and never      *)
(* consulted by the machine.  With it the machine is shown to implement    *)
(* TurnLifecycle.                                                          *)
(***************************************************************************)
EXTENDS Session

VARIABLES
  fate,         \* how each turn that is over ended
  sent,         \* the words SubmitUtterance carried for each turn
  failed_turn,  \* the turn of the last failed submission of this session
  heard         \* turns whose end the agent has reported

history == <<fate, sent, failed_turn, heard>>

OutSet(outs) == {outs[i] : i \in 1..Len(outs)}
Live == {current_turn, pending_cancel_turn} \ {NoTurn}

Verdict(t) ==
  IF CancelSynthesis(t) \in OutSet(out') THEN "cancelled"
  ELSE IF state = "AgentSpeaking" /\ state' = "Listening" THEN "finished"
  ELSE "dropped"

ObserveTurns ==
  /\ fate' = [t \in Turn |-> IF t \in Live \ Live' THEN Verdict(t) ELSE fate[t]]
  /\ sent' = [t \in Turn |->
       LET texts == {text \in Text : SubmitUtterance(t, text) \in OutSet(out')}
       IN IF texts = {} THEN sent[t] ELSE CHOOSE text \in texts : TRUE]

HInit ==
  /\ Init
  /\ fate = [t \in Turn |-> "unborn"]
  /\ sent = [t \in Turn |-> NoText]
  /\ failed_turn = NoTurn
  /\ heard = {}

HTick ==
  \E dt \in TickLengths :
    OnTick(dt) /\ ObserveTurns /\ UNCHANGED <<failed_turn, heard>>

HSubmitFailed(t) ==
  /\ OnSubmitFailed(t)
  /\ failed_turn' = IF state # state' THEN t ELSE failed_turn
  /\ ObserveTurns
  /\ UNCHANGED heard

HAgentTurnComplete(t) ==
  /\ OnAgentTurnComplete(t)
  /\ heard' = heard \cup {t}
  /\ ObserveTurns
  /\ UNCHANGED failed_turn

HSessionStart ==
  /\ OnSessionStart
  /\ failed_turn' = IF state # state' THEN NoTurn ELSE failed_turn
  /\ ObserveTurns
  /\ UNCHANGED heard

HOther ==
  /\ \/ OnSessionEnd \/ OnPttPressed \/ OnPttReleased
     \/ Detectors
     \/ PushFrame
     \/ \E t \in 1..turn_counter :
          \/ OnPartialTranscript(t)
          \/ \E text \in Text : OnFinalTranscript(t, text)
          \/ OnFinalTranscriptRejected(t)
          \/ OnSubmitSucceeded(t)
          \/ OnAgentTextArrived(t)
          \/ OnPlaybackDrained(t)
  /\ ObserveTurns
  /\ UNCHANGED <<failed_turn, heard>>

HNext ==
  \/ HTick
  \/ HSessionStart
  \/ HOther
  \/ \E t \in 1..turn_counter : HSubmitFailed(t) \/ HAgentTurnComplete(t)

hvars == <<vars, history>>
HSpec == HInit /\ [][HNext]_hvars

(* Only the tick comes by itself: the orchestrator's loop sends it whatever
   the engines, the agent and the user do. *)
HFairSpec == HSpec /\ WF_hvars(HTick)

----------------------------------------------------------------------------
(* The turns as the abstract specification sees them. *)

(* How the turn that has the floor is seen. *)
FloorPhase ==
  IF state = "Interrupting" THEN "candidate"
  ELSE IF state = "AgentSpeaking" THEN "speaking" ELSE "user"

PhaseOf(t) ==
  IF t > turn_counter THEN "unborn"
  ELSE IF t = pending_cancel_turn THEN "held"
  ELSE IF t = current_turn THEN FloorPhase
  ELSE fate[t]

PhaseMap == [t \in Turn |-> PhaseOf(t)]

Lifecycle == INSTANCE TurnLifecycle WITH phase <- PhaseMap

(* The machine implements TurnLifecycle: whatever is fed to it, two turns never
   have the floor, no turn comes back, and every agent turn that began to speak
   either plays out or is cancelled by a CancelSynthesis that names it. *)
ImplementsLifecycle == Lifecycle!Spec

(* The agent's speech plays out only if the agent said that this very turn is
   complete: the flag of an interrupted turn never ends a later one early. *)
NoPrematureEnd == \A t \in Turn : fate[t] = "finished" => t \in heard

(* No turn's words are handed to the agent twice. *)
SubmittedOnce ==
  [][\A t \in Turn, text \in Text :
       SubmitUtterance(t, text) \in OutSet(out') => sent[t] = NoText]_hvars

(* The words of a submission are kept until it is answered, and if it failed
   they are the ones last_failed_utterance gives back for a retry. *)
WordsAreKept ==
  /\ state = "Submitting" => current_utterance # NoText /\ current_utterance = sent[current_turn]
  /\ failed_turn # NoTurn => last_failed_utterance = sent[failed_turn]
=============================================================================
