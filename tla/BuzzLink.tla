------------------------------ MODULE BuzzLink -------------------------------
(***************************************************************************)
(* The agent backend that talks to a Buzz relay (buzztalk-buzz): BuzzAgent *)
(* on the orchestrator's thread (agent.rs), the transport thread with its  *)
(* reconnections (transport.rs), and the relay with the agents behind it,  *)
(* which are not part of the repository.                                   *)
(*                                                                         *)
(* The two threads share two channels, cmds and replies; the transport and *)
(* the relay share a connection that can break at any time, with whatever  *)
(* is on its way in either direction.  Words are the turn they belong to,  *)
(* a stored event its position in the relay's log.  `faults` is what the   *)
(* network and the relay may still do wrong.                               *)
(***************************************************************************)
EXTENDS Integers, Sequences

CONSTANTS
  Pubkey, Own, AgentPubkeys,      \* config.agent_pubkeys; the key that signs
  SpeakOnlyUserDirected,
  Posts, History,                 \* events the agents may post, and may have posted before
  Refused,                        \* turns whose words build_stream_message refuses
  QuietPeriod,                    \* reply_quiet_period
  BackoffInitial, BackoffMax,     \* ReconnectPolicy
  MaxTurns, MaxPosts,             \* bounds
  MaxFaults                       \* bound: failures of the network and the relay

EventRecords ==
  [kind : {9, 40002, 7}, channel : {"ours", "other"}, author : Pubkey,
   content : {"words", "blank", "system"}, ptags : SUBSET Pubkey]

ASSUME BuzzAssumption ==
  /\ Own \in Pubkey /\ AgentPubkeys \subseteq Pubkey
  /\ SpeakOnlyUserDirected \in BOOLEAN
  /\ Posts \cup History \subseteq EventRecords
  /\ {QuietPeriod, BackoffInitial} \subseteq Nat \ {0}
  /\ BackoffMax \in Nat /\ BackoffMax >= BackoffInitial
  /\ {MaxTurns, MaxPosts, MaxFaults} \subseteq Nat

VARIABLES
  current_turn, last_reply,       \* BuzzAgent: the turn, and the age of its last reply
  dropped,                        \* BuzzAgent was dropped
  cmds, replies,                  \* the channels between the two threads
  phase,                          \* how far the transport thread has come
  pending, backoff, reactions,    \* its locals: pending, backoff, pending_reactions
  link, up, down,                 \* the connection, and what is on its way in it
  subscribed, due,                \* what the relay holds for it: a subscription, confirmations
  log, committing,                \* the relay: the events it stored, the words it is about to
  published,                      \* the relay: the words it stored, in the order of the log
  faults,
  given,                          \* ghost: the events poll returned
  early                           \* ghost: reactions that reached the relay before their message

agentVars == <<current_turn, last_reply, dropped, given>>
transportVars == <<phase, pending, backoff, reactions>>
relayVars == <<log, published, committing, early>>
wireVars == <<link, up, down, subscribed, due>>
buzzVars == <<agentVars, cmds, replies, transportVars, wireVars, relayVars, faults>>

Turns == 1..MaxTurns
NoTurn == 0
NoReply == -1
Shutdown == -1                    \* among the commands, a turn being a Publish

----------------------------------------------------------------------------
(* What is speakable. *)

IsSpeakable(event) ==
  /\ event.kind \in {9, 40002}
  /\ event.channel = "ours"
  /\ event.author # Own
  /\ event.author \in AgentPubkeys
  /\ event.content = "words"
  /\ SpeakOnlyUserDirected => event.ptags = {} \/ Own \in event.ptags

(* build_stream_message: one p tag for each agent. *)
StreamMessage == [kind |-> 9, channel |-> "ours", author |-> Own, content |-> "words",
                  ptags |-> AgentPubkeys]

----------------------------------------------------------------------------
(* BuzzAgent. *)

Given(turn, post) == Append(given, [turn |-> turn, post |-> post])
Completion == 0                   \* the post of a TurnComplete

(* Mutated form: the timer of the turn before goes on. *)
SubmitKeepingTimer ==
  /\ ~ dropped
  /\ current_turn < MaxTurns
  /\ current_turn' = current_turn + 1
  /\ cmds' = Append(cmds, current_turn + 1)
  /\ UNCHANGED <<last_reply, dropped, given, replies, transportVars, wireVars, relayVars, faults>>

Submit ==
  /\ ~ dropped
  /\ current_turn < MaxTurns
  /\ current_turn' = current_turn + 1
  /\ last_reply' = NoReply
  /\ cmds' = Append(cmds, current_turn + 1)
  /\ UNCHANGED <<dropped, given, replies, transportVars, wireVars, relayVars, faults>>

(* poll: replies before the first submission are dropped, all that are there. *)
PollStray ==
  /\ ~ dropped
  /\ replies # <<>> /\ current_turn = NoTurn
  /\ replies' = <<>>
  /\ UNCHANGED <<agentVars, cmds, transportVars, wireVars, relayVars, faults>>

(* Mutated form: the quiet period is not started. *)
PollChunkWithoutTimer ==
  /\ ~ dropped
  /\ replies # <<>> /\ current_turn # NoTurn
  /\ replies' = Tail(replies)
  /\ given' = Given(current_turn, Head(replies))
  /\ UNCHANGED <<last_reply, current_turn, dropped, cmds, transportVars, wireVars, relayVars, faults>>

PollChunk ==
  /\ ~ dropped
  /\ replies # <<>> /\ current_turn # NoTurn
  /\ replies' = Tail(replies)
  /\ last_reply' = 0
  /\ given' = Given(current_turn, Head(replies))
  /\ UNCHANGED <<current_turn, dropped, cmds, transportVars, wireVars, relayVars, faults>>

PollComplete ==
  /\ ~ dropped
  /\ replies = <<>> /\ last_reply >= QuietPeriod
  /\ last_reply' = NoReply
  /\ given' = Given(current_turn, Completion)
  /\ UNCHANGED <<current_turn, dropped, cmds, replies, transportVars, wireVars, relayVars, faults>>

Poll == PollStray \/ PollChunk \/ PollComplete

TimePasses ==
  /\ ~ dropped
  /\ last_reply \in 0..(QuietPeriod - 1)
  /\ last_reply' = last_reply + 1
  /\ UNCHANGED <<current_turn, dropped, given, cmds, replies, transportVars, wireVars, relayVars, faults>>

Drop ==
  /\ ~ dropped
  /\ dropped' = TRUE
  /\ cmds' = Append(cmds, Shutdown)
  /\ UNCHANGED <<current_turn, last_reply, given, replies, transportVars, wireVars, relayVars, faults>>

----------------------------------------------------------------------------
(* The transport thread.  Sending on a connection that broke is as good as
   losing what is sent: the thread learns of it when it reads. *)

Fault == faults > 0 /\ faults' = faults - 1
Sent(messages) == IF link = "up" THEN up \o messages ELSE up
Auth == [type |-> "auth", turn |-> NoTurn]
Req == [type |-> "req", turn |-> NoTurn]
Message(turn) == [type |-> "message", turn |-> turn]
Reaction(turn) == [type |-> "reaction", turn |-> turn]

Received(type) == down # <<>> /\ Head(down).type = type
Unconnected(state) == link' = state /\ up' = <<>> /\ down' = <<>> /\ subscribed' = FALSE /\ due' = {}
Disconnected == phase' = "wait" /\ Unconnected("none") /\ reactions' = {}

(* run_session, up to the connection: a command that waits is taken first. *)
Attempt ==
  /\ phase = "attempt"
  /\ cmds' = IF cmds = <<>> THEN cmds ELSE Tail(cmds)
  /\ IF cmds # <<>> /\ Head(cmds) = Shutdown
       THEN phase' = "stopped" /\ UNCHANGED <<pending, wireVars, faults>>
       ELSE /\ pending' = IF cmds = <<>> THEN pending ELSE Head(cmds)
            /\ \/ phase' = "challenge" /\ link' = "up" /\ UNCHANGED <<up, down, subscribed, due, faults>>
               \/ phase' = "wait" /\ Fault /\ UNCHANGED wireVars
  /\ UNCHANGED <<agentVars, replies, backoff, reactions, relayVars>>

(* await_challenge and await_auth_ok: an answer, or the handshake fails. *)
AnswerChallenge ==
  /\ phase = "challenge" /\ Received("challenge")
  /\ down' = Tail(down)
  /\ up' = Sent(<<Auth>>)
  /\ phase' = "auth"
  /\ UNCHANGED <<agentVars, cmds, replies, pending, backoff, reactions, link, subscribed, due, relayVars, faults>>

Authenticated ==
  /\ phase = "auth" /\ Received("ok") /\ Head(down).status
  /\ down' = Tail(down)
  /\ backoff' = BackoffInitial
  /\ phase' = "subscribe"
  /\ UNCHANGED <<agentVars, cmds, replies, pending, reactions, link, up, subscribed, due, relayVars, faults>>

HandshakeFails ==
  /\ phase \in {"challenge", "auth"}
  /\ \/ link = "broken" /\ UNCHANGED faults
     \/ Received("ok") /\ ~ Head(down).status /\ UNCHANGED faults
     \/ Fault
  /\ Disconnected
  /\ UNCHANGED <<agentVars, cmds, replies, pending, backoff, relayVars>>

Publication(turn) == IF turn = NoTurn \/ turn \in Refused THEN <<>> ELSE <<Message(turn)>>

(* Mutated forms: the words are not taken out of `pending`, or stay there. *)
SubscribeKeepingPending ==
  /\ phase = "subscribe"
  /\ up' = Sent(<<Req>> \o Publication(pending))
  /\ phase' = "serve"
  /\ UNCHANGED <<agentVars, cmds, replies, pending, backoff, reactions, link, down, subscribed, due, relayVars, faults>>

SubscribeWithoutFlush ==
  /\ phase = "subscribe"
  /\ up' = Sent(<<Req>>)
  /\ phase' = "serve"
  /\ UNCHANGED <<agentVars, cmds, replies, pending, backoff, reactions, link, down, subscribed, due, relayVars, faults>>

(* The subscription, then the words that waited.  Their reaction is built and
   not kept. *)
Subscribe ==
  /\ phase = "subscribe"
  /\ up' = Sent(<<Req>> \o Publication(pending))
  /\ pending' = NoTurn
  /\ phase' = "serve"
  /\ UNCHANGED <<agentVars, cmds, replies, backoff, reactions, link, down, subscribed, due, relayVars, faults>>

SubscribeFails ==
  /\ phase = "subscribe" /\ link = "broken"
  /\ Disconnected
  /\ UNCHANGED <<agentVars, cmds, replies, pending, backoff, relayVars, faults>>

(* Mutated form: a publication and its reaction in the same breath. *)
PublishAndReact(turn) ==
  /\ up' = Sent(Publication(turn) \o (IF turn \in Refused THEN <<>> ELSE <<Reaction(turn)>>))
  /\ UNCHANGED reactions

(* publish, and the reaction held until the relay confirms the message. *)
Publish(turn) ==
  /\ up' = Sent(Publication(turn))
  /\ reactions' = IF turn \in Refused THEN reactions ELSE reactions \cup {turn}

(* serve: a command if there is one, then one read, in turns. *)
ServeCommand ==
  /\ phase = "serve" /\ cmds # <<>>
  /\ cmds' = Tail(cmds)
  /\ IF Head(cmds) = Shutdown
       THEN phase' = "stopped" /\ Unconnected("none") /\ UNCHANGED reactions
       ELSE phase' = "read" /\ Publish(Head(cmds)) /\ UNCHANGED <<link, down, subscribed, due>>
  /\ UNCHANGED <<agentVars, replies, pending, backoff, relayVars, faults>>

(* handle_relay_text on an event, on the confirmation of a message whose
   reaction is held, and on anything else; and a read that finds nothing. *)
ReadEvent ==
  /\ Received("event")
  /\ replies' = IF IsSpeakable(log[Head(down).id]) THEN Append(replies, Head(down).id) ELSE replies
  /\ UNCHANGED <<reactions, up>>

ReadOk ==
  /\ Received("ok")
  /\ IF Head(down).status /\ Head(down).id \in reactions
       THEN reactions' = reactions \ {Head(down).id} /\ up' = Sent(<<Reaction(Head(down).id)>>)
       ELSE UNCHANGED <<reactions, up>>
  /\ UNCHANGED replies

Reading == phase = "read" \/ (phase = "serve" /\ cmds = <<>>)

ServeRead ==
  /\ Reading /\ link = "up"
  /\ phase' = "serve"
  /\ \/ (ReadEvent \/ ReadOk) /\ down' = Tail(down)
     \/ down = <<>> /\ UNCHANGED <<replies, reactions, up, down>>
  /\ UNCHANGED <<agentVars, cmds, pending, backoff, link, subscribed, due, relayVars, faults>>

ReadFails ==
  /\ Reading /\ link = "broken"
  /\ Disconnected
  /\ UNCHANGED <<agentVars, cmds, replies, pending, backoff, relayVars, faults>>

(* Mutated form: a shutdown while waiting goes unheard. *)
WaitCommandDeaf ==
  /\ phase = "wait" /\ cmds # <<>>
  /\ cmds' = Tail(cmds)
  /\ pending' = IF Head(cmds) = Shutdown THEN pending ELSE Head(cmds)
  /\ UNCHANGED <<phase, agentVars, replies, backoff, reactions, wireVars, relayVars, faults>>

(* wait_or_shutdown. *)
WaitCommand ==
  /\ phase = "wait" /\ cmds # <<>>
  /\ cmds' = Tail(cmds)
  /\ IF Head(cmds) = Shutdown THEN phase' = "stopped" /\ UNCHANGED pending
                              ELSE pending' = Head(cmds) /\ UNCHANGED phase
  /\ UNCHANGED <<agentVars, replies, backoff, reactions, wireVars, relayVars, faults>>

Clamped(n) == IF n < BackoffInitial THEN BackoffInitial ELSE IF n > BackoffMax THEN BackoffMax ELSE n

(* next_backoff: doubled, then off by up to a jitter. *)
NextBackoff(b) == {Clamped(Clamped(2 * b) + jitter) : jitter \in {-1, 0, 1}}

WaitOver ==
  /\ phase = "wait"
  /\ phase' = "attempt"
  /\ backoff' \in NextBackoff(backoff)
  /\ UNCHANGED <<agentVars, cmds, replies, pending, reactions, wireVars, relayVars, faults>>

Transport ==
  \/ Attempt \/ AnswerChallenge \/ Authenticated \/ HandshakeFails
  \/ Subscribe \/ SubscribeFails
  \/ ServeCommand \/ ServeRead \/ ReadFails
  \/ WaitCommand \/ WaitOver

----------------------------------------------------------------------------
(* The relay and the agents (not in the repository): a relay challenges,
   confirms, stores what is published and delivers to a subscription what is
   stored and what is new. *)

Ok(id, status) == [type |-> "ok", id |-> id, status |-> status]
Delivery(id) == [type |-> "event", id |-> id, status |-> TRUE]
Challenge == [type |-> "challenge", id |-> 0, status |-> TRUE]

OwnTurns == {published[i] : i \in DOMAIN published}

RelayChallenges ==
  /\ link = "up" /\ phase = "challenge" /\ down = <<>>
  /\ down' = <<Challenge>>
  /\ UNCHANGED <<agentVars, cmds, replies, transportVars, link, up, subscribed, due, relayVars, faults>>

RelayAuthenticates ==
  /\ Head(up).type = "auth"
  /\ \/ down' = Append(down, Ok(NoTurn, TRUE)) /\ UNCHANGED faults
     \/ down' = Append(down, Ok(NoTurn, FALSE)) /\ Fault
  /\ UNCHANGED <<subscribed, due, relayVars>>

RelaySubscribes ==
  /\ Head(up).type = "req"
  /\ down' = down \o [i \in DOMAIN log |-> Delivery(i)]
  /\ subscribed' = TRUE
  /\ UNCHANGED <<due, relayVars, faults>>

RelayAccepts ==
  /\ Head(up).type = "message"
  /\ \/ /\ committing' = Append(committing, Head(up).turn)
        /\ due' = due \cup {Head(up).turn}
        /\ UNCHANGED <<down, faults>>
     \/ down' = Append(down, Ok(Head(up).turn, FALSE)) /\ Fault /\ UNCHANGED <<committing, due>>
  /\ UNCHANGED <<log, published, subscribed, early>>

(* A reaction to what the relay does not have is refused. *)
RelayReacts ==
  /\ Head(up).type = "reaction"
  /\ early' = (early \/ Head(up).turn \notin OwnTurns)
  /\ UNCHANGED <<down, subscribed, due, log, published, committing, faults>>

(* What was accepted is stored, delivered and confirmed, if there is still a
   connection to do so. *)
RelayCommits ==
  /\ committing # <<>>
  /\ committing' = Tail(committing)
  /\ log' = Append(log, StreamMessage)
  /\ published' = Append(published, Head(committing))
  /\ down' = down \o (IF subscribed THEN <<Delivery(Len(log) + 1)>> ELSE <<>>)
                  \o (IF Head(committing) \in due THEN <<Ok(Head(committing), TRUE)>> ELSE <<>>)
  /\ due' = due \ {Head(committing)}
  /\ UNCHANGED <<agentVars, cmds, replies, transportVars, link, up, subscribed, early, faults>>

RelayTakes ==
  /\ link = "up" /\ up # <<>>
  /\ up' = Tail(up)
  /\ RelayAuthenticates \/ RelaySubscribes \/ RelayAccepts \/ RelayReacts
  /\ UNCHANGED <<agentVars, cmds, replies, transportVars, link>>

(* An agent posts, once there are words in the channel to answer. *)
AgentPosts ==
  /\ ~ dropped                     \* bound: what follows is not looked at
  /\ Len(log) - Len(published) < MaxPosts
  /\ published # <<>>
  /\ \E event \in Posts : log' = Append(log, event)
  /\ down' = IF subscribed THEN Append(down, Delivery(Len(log) + 1)) ELSE down
  /\ UNCHANGED <<agentVars, cmds, replies, transportVars, link, up, subscribed, due, published, committing, early, faults>>

(* The connection breaks, with all that is on its way. *)
LinkBreaks ==
  /\ link = "up" /\ Fault
  /\ Unconnected("broken")
  /\ UNCHANGED <<agentVars, cmds, replies, transportVars, relayVars>>

Relay == RelayChallenges \/ RelayTakes \/ RelayCommits

(* The channel may have a history. *)
BuzzInit ==
  /\ current_turn = NoTurn /\ last_reply = NoReply /\ dropped = FALSE /\ given = <<>>
  /\ cmds = <<>> /\ replies = <<>>
  /\ phase = "attempt" /\ pending = NoTurn /\ backoff = BackoffInitial /\ reactions = {}
  /\ link = "none" /\ up = <<>> /\ down = <<>>
  /\ subscribed = FALSE /\ due = {}
  /\ log \in {<<>>} \cup {<<event>> : event \in History}
  /\ published = <<>> /\ committing = <<>> /\ early = FALSE
  /\ faults = MaxFaults

BuzzNext ==
  \/ Submit \/ Poll \/ TimePasses \/ Drop
  \/ Transport
  \/ Relay \/ AgentPosts \/ LinkBreaks

(* Both threads run, time passes, and a relay that is connected answers. *)
BuzzFairness == WF_buzzVars(Transport) /\ WF_buzzVars(Relay) /\ WF_buzzVars(Poll) /\ WF_buzzVars(TimePasses)

BuzzSpec == BuzzInit /\ [][BuzzNext]_buzzVars /\ BuzzFairness

----------------------------------------------------------------------------
(* Properties. *)

(* The user's words reach the channel in order and at most once, through lost
   connections, the one place kept for words while disconnected, and words
   that wait behind it in the channel of commands. *)
Words == INSTANCE Outbox WITH submitted <- current_turn, delivered <- published
WordsInOrderOnce == Words!Outbox

(* A reaction reaches the relay after the message it is about. *)
ReactionsFindTheirMessage == ~ early

(* A TurnComplete directly follows a reply given for the same turn: the quiet
   period of one turn never ends another. *)
CompletionFollowsReply ==
  \A i \in DOMAIN given : given[i].post = Completion =>
    i > 1 /\ given[i - 1].post # Completion /\ given[i - 1].turn = given[i].turn

(* Words that wait for a connection are sent in the end. *)
PendingIsFlushed == pending # NoTurn ~> pending = NoTurn \/ phase = "stopped"

(* Dropping the agent stops the thread, from wherever it is. *)
DropStops == dropped ~> phase = "stopped"

(* A reply that is spoken is followed by the end of its turn, or by a newer
   turn. *)
Answering ==
  /\ given # <<>>
  /\ given[Len(given)].turn = current_turn /\ given[Len(given)].post # Completion
RepliesComplete == Answering ~> ~ Answering \/ dropped
=============================================================================
