------------------------------ MODULE MCBuzz --------------------------------
(* Small instances of the Buzz backend: the user, whose key is also listed
   among the agents', a dispatcher that answers and delegates, a teammate. *)
EXTENDS BuzzLink, TLC

CONSTANTS user, dispatcher, teammate

Said(content, ptags) ==
  [kind |-> 9, channel |-> "ours", author |-> dispatcher, content |-> content, ptags |-> ptags]

Answers == {Said("words", {})}
AnswersAndDelegations == {Said("words", {user}), Said("words", {teammate})}
=============================================================================
