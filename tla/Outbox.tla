------------------------------- MODULE Outbox --------------------------------
(***************************************************************************)
(* What the Buzz transport promises for the user's words, whatever the     *)
(* network does: they reach the channel in the order in which they were    *)
(* submitted, each at most once.  Words may be lost, for which the code    *)
(* has no acknowledgement, but never repeated or reordered: what is        *)
(* delivered is newer than all that was delivered before it, and what it   *)
(* overtakes is lost.  Words are numbered in the order of submission.      *)
(***************************************************************************)
EXTENDS Integers, Sequences

VARIABLES
  submitted,        \* how many words were submitted
  delivered         \* the words that were delivered, in the order of delivery

outboxVars == <<submitted, delivered>>

SubmitWords == submitted' = submitted + 1 /\ UNCHANGED delivered

DeliverWords ==
  /\ \E word \in 1..submitted :
       /\ \A i \in DOMAIN delivered : delivered[i] < word
       /\ delivered' = Append(delivered, word)
  /\ UNCHANGED submitted

OutboxInit == submitted = 0 /\ delivered = <<>>
OutboxNext == SubmitWords \/ DeliverWords
Outbox == OutboxInit /\ [][OutboxNext]_outboxVars
=============================================================================
