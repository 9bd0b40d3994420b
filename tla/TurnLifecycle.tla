---------------------------- MODULE TurnLifecycle ----------------------------
(***************************************************************************)
(* What the session machine promises about turns, without its timers,      *)
(* words or audio: at any time at most one turn has the floor, a turn that *)
(* lost it for good never gets it back, and the agent's voice, once heard, *)
(* ends in exactly one of two ways - it played out, or it was cancelled.   *)
(***************************************************************************)
EXTENDS Naturals

CONSTANT MaxTurn

VARIABLE phase

Turn == 1..MaxTurn

(* unborn -> user -> speaking -> finished, with the ways a turn is cut short.
   user: the user speaks or waits for the answer; candidate: a barge-in not
   yet proved; held: the agent's turn the candidate shadows.  A turn that is
   over is dropped, cancelled or finished. *)

(* How a turn ends when the floor is taken from it. *)
CutShort(p) ==
  IF p \in {"speaking", "held"} THEN "cancelled"
  ELSE IF p \in {"user", "candidate"} THEN "dropped" ELSE p

(* The ids are handed out in order. *)
IsNext(t) == phase[t] = "unborn" /\ \A u \in 1..(t - 1) : phase[u] # "unborn"

Init == phase = [t \in Turn |-> "unborn"]

(* A user utterance begins; whatever had the floor, or was held, is cut short. *)
Begin(t) ==
  /\ IsNext(t)
  /\ phase' = [u \in Turn |-> IF u = t THEN "user" ELSE CutShort(phase[u])]

Speak(t) == phase[t] = "user" /\ phase' = [phase EXCEPT ![t] = "speaking"]

Finish(t) == phase[t] = "speaking" /\ phase' = [phase EXCEPT ![t] = "finished"]

Drop(t) == phase[t] = "user" /\ phase' = [phase EXCEPT ![t] = "dropped"]

Interrupt(t, u) ==
  /\ IsNext(t)
  /\ phase[u] = "speaking"
  /\ phase' = [phase EXCEPT ![t] = "candidate", ![u] = "held"]

Retract(t, u) ==
  /\ phase[t] = "candidate"
  /\ phase[u] = "held"
  /\ phase' = [phase EXCEPT ![t] = "dropped", ![u] = "speaking"]

Confirm(t, u) ==
  /\ phase[t] = "candidate"
  /\ phase[u] = "held"
  /\ phase' = [phase EXCEPT ![t] = "user", ![u] = "cancelled"]

EndAll == phase' = [t \in Turn |-> CutShort(phase[t])]

Next ==
  \/ EndAll
  \/ \E t \in Turn : Begin(t) \/ Speak(t) \/ Finish(t) \/ Drop(t)
  \/ \E t, u \in Turn : Interrupt(t, u) \/ Retract(t, u) \/ Confirm(t, u)

Spec == Init /\ [][Next]_phase

=============================================================================
