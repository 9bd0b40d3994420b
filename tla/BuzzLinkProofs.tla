--------------------------- MODULE BuzzLinkProofs ----------------------------
(***************************************************************************)
(* The Buzz backend, for any number of turns, posts and failures.  Its     *)
(* words pass from queue to queue: commands, the one kept while there is   *)
(* no connection, messages on their way, messages accepted, messages       *)
(* stored.  The queues are sorted, and each is below the one before it     *)
(* (InOrder); with that the backend implements Outbox.                     *)
(***************************************************************************)
EXTENDS BuzzLink, TLAPS

ToRelay ==
  [type : {"auth", "req"}, turn : {NoTurn}] \cup [type : {"message", "reaction"}, turn : Turns]
FromRelay == [type : {"ok", "event", "challenge"}, id : Nat, status : BOOLEAN]

AgentTypeOK ==
  /\ current_turn \in Nat /\ current_turn <= MaxTurns
  /\ last_reply \in Nat \cup {NoReply}
  /\ dropped \in BOOLEAN
  /\ given \in Seq([turn : Turns \cup {NoTurn}, post : Nat])

BuzzTypeOK ==
  /\ AgentTypeOK
  /\ cmds \in Seq(Turns \cup {Shutdown})
  /\ replies \in Seq(Nat \ {Completion})
  /\ phase \in {"attempt", "challenge", "auth", "subscribe", "serve", "read", "wait", "stopped"}
  /\ pending \in Turns \cup {NoTurn}
  /\ reactions \subseteq Turns
  /\ link \in {"none", "up", "broken"}
  /\ up \in Seq(ToRelay) /\ down \in Seq(FromRelay)
  /\ subscribed \in BOOLEAN
  /\ due \subseteq Turns
  /\ log \in Seq(EventRecords)
  /\ published \in Seq(Turns) /\ committing \in Seq(Turns)
  /\ early \in BOOLEAN

(* What an event on its way stands for is stored. *)
EventOf(m, n) == m.type = "event" => m.id \in 1..n
EventsOf(s, n) == \A i \in DOMAIN s : EventOf(s[i], n)
EventsOK == EventsOf(down, Len(log))

LEMMA SmallSeqs ==
  ASSUME NEW S
  PROVE  <<>> \in Seq(S) /\ \A x \in S : <<x>> \in Seq(S)
OBVIOUS

LEMMA ToRelayTurns ==
  \A m \in ToRelay : /\ m.turn \in Nat
                     /\ m.type \in {"auth", "req"} => m.turn = NoTurn
                     /\ m.type \in {"message", "reaction"} => m.turn \in Turns
BY BuzzAssumption DEF ToRelay, Turns, NoTurn

LEMMA TurnsAreNumbers == Turns \subseteq Nat \ {0} /\ NoTurn \notin Turns /\ Shutdown \notin Turns
BY BuzzAssumption DEF Turns, NoTurn, Shutdown

LEMMA StreamMessageType == StreamMessage \in EventRecords
BY BuzzAssumption DEF StreamMessage, EventRecords

LEMMA SentType ==
  ASSUME up \in Seq(ToRelay), NEW ms \in Seq(ToRelay)
  PROVE  Sent(ms) \in Seq(ToRelay)
BY DEF Sent

LEMMA MessageTypes ==
  /\ Auth \in ToRelay /\ Req \in ToRelay
  /\ \A t \in Turns : Message(t) \in ToRelay /\ Reaction(t) \in ToRelay
  /\ \A t \in Turns \cup {NoTurn} : Publication(t) \in Seq(ToRelay)
                                  /\ <<Req>> \o Publication(t) \in Seq(ToRelay)
<1>1. /\ Auth \in ToRelay /\ Req \in ToRelay
      /\ \A t \in Turns : Message(t) \in ToRelay /\ Reaction(t) \in ToRelay
  BY DEF Auth, Req, Message, Reaction, ToRelay
<1>2. \A t \in Turns \cup {NoTurn} : Publication(t) \in Seq(ToRelay)
  BY <1>1 DEF Publication
<1>3. <<Req>> \in Seq(ToRelay)
  BY <1>1
<1>. QED  BY <1>1, <1>2, <1>3

LEMMA AnswerTypes ==
  /\ Challenge \in FromRelay
  /\ \A id \in Nat : Delivery(id) \in FromRelay
  /\ \A id \in Nat, status \in BOOLEAN : Ok(id, status) \in FromRelay
BY DEF Challenge, Delivery, Ok, FromRelay

(* Typing, one component at a time. *)
BuzzOK == BuzzTypeOK /\ EventsOK

LEMMA BuzzOKInit == BuzzInit => BuzzOK
<1>. SUFFICES ASSUME BuzzInit PROVE BuzzOK
  OBVIOUS
<1>1. log \in Seq(EventRecords)
  <2>1. \A event \in History : <<event>> \in Seq(EventRecords)
    <3>1. History \subseteq EventRecords
      BY BuzzAssumption
    <3>. QED  BY <3>1
  <2>2. <<>> \in Seq(EventRecords)
    BY SmallSeqs
  <2>3. CASE log = <<>>
    BY <2>2, <2>3
  <2>4. CASE log # <<>>
    <3>1. PICK event \in History : log = <<event>>
      BY <2>4 DEF BuzzInit
    <3>. QED  BY <2>1, <3>1
  <2>. QED  BY <2>3, <2>4
<1>2. MaxTurns \in Nat
  BY BuzzAssumption
<1>3. AgentTypeOK
  <2>1. <<>> \in Seq([turn : Turns \cup {NoTurn}, post : Nat])
    BY SmallSeqs
  <2>2. current_turn \in Nat /\ current_turn <= MaxTurns
    BY <1>2 DEF BuzzInit, NoTurn
  <2>3. given \in Seq([turn : Turns \cup {NoTurn}, post : Nat])
    BY <2>1 DEF BuzzInit
  <2>. QED  BY <2>2, <2>3 DEF BuzzInit, AgentTypeOK
<1>4. EventsOK
  BY DEF BuzzInit, EventsOK, EventsOf
<1>5. \A S : <<>> \in Seq(S)
  BY SmallSeqs
<1>. QED
  BY <1>1, <1>3, <1>4, <1>5 DEF BuzzInit, BuzzOK, BuzzTypeOK

(* More on its way to the transport, with more in the log. *)
DownOK(s, n) == s \in Seq(FromRelay) /\ EventsOf(s, n)

LEMMA EventsGrow ==
  ASSUME NEW k \in Nat, NEW n \in Nat, n >= k, NEW s, DownOK(s, k)
  PROVE  DownOK(s, n)
BY DEF DownOK, EventsOf, EventOf

LEMMA EventsConcat ==
  ASSUME NEW n \in Nat, NEW a, NEW b, DownOK(a, n), DownOK(b, n)
  PROVE  DownOK(a \o b, n)
<1>1. a \in Seq(FromRelay) /\ b \in Seq(FromRelay)
  BY DEF DownOK
<1>2. \A i \in DOMAIN (a \o b) :
        \/ i \in DOMAIN a /\ (a \o b)[i] = a[i]
        \/ i - Len(a) \in DOMAIN b /\ (a \o b)[i] = b[i - Len(a)]
  BY <1>1
<1>. QED  BY <1>1, <1>2 DEF DownOK, EventsOf

LEMMA EventsSmall ==
  ASSUME NEW n \in Nat
  PROVE  DownOK(<<>>, n) /\ \A m \in FromRelay : EventOf(m, n) => DownOK(<<m>>, n)
<1>1. DownOK(<<>>, n)
  BY SmallSeqs DEF DownOK, EventsOf
<1>2. ASSUME NEW m \in FromRelay, EventOf(m, n)  PROVE DownOK(<<m>>, n)
  BY <1>2 DEF DownOK, EventsOf
<1>. QED  BY <1>1, <1>2

LEMMA EventsAppend ==
  ASSUME NEW n \in Nat, NEW a, DownOK(a, n), NEW m \in FromRelay, EventOf(m, n)
  PROVE  DownOK(Append(a, m), n)
<1>1. DownOK(<<m>>, n)
  BY EventsSmall
<1>2. Append(a, m) = a \o <<m>>
  BY DEF DownOK
<1>. QED  BY <1>1, <1>2, EventsConcat

(* The answers of the relay. *)
LEMMA Confirmations ==
  ASSUME NEW n \in Nat, NEW id \in Nat, NEW status \in BOOLEAN
  PROVE  Ok(id, status) \in FromRelay /\ EventOf(Ok(id, status), n)
BY AnswerTypes DEF Ok, EventOf

LEMMA Deliveries ==
  ASSUME NEW n \in Nat, NEW id \in 1..n
  PROVE  Delivery(id) \in FromRelay /\ EventOf(Delivery(id), n)
BY AnswerTypes DEF Delivery, EventOf

LEMMA UnconnectedOK ==
  ASSUME NEW where \in {"none", "broken"}, Unconnected(where)
  PROVE  /\ link' \in {"none", "up", "broken"} /\ subscribed' = FALSE /\ due' = {}
         /\ up' \in Seq(ToRelay) /\ down' \in Seq(FromRelay) /\ EventsOK'
<1>1. <<>> \in Seq(ToRelay) /\ <<>> \in Seq(FromRelay)
  BY SmallSeqs
<1>. QED  BY <1>1 DEF Unconnected, EventsOK, EventsOf

LEMMA AgentOK ==
  ASSUME BuzzOK, Submit \/ Poll \/ TimePasses \/ Drop
  PROVE  BuzzOK'
<1>. USE DEF BuzzOK, BuzzTypeOK, AgentTypeOK, EventsOK, EventsOf, EventOf, agentVars, transportVars, wireVars, relayVars
<1>1. CASE Submit
  <2>1. current_turn + 1 \in Turns
    BY <1>1, BuzzAssumption DEF Submit, Turns
  <2>2. current_turn' \in Nat /\ current_turn' <= MaxTurns
    BY <1>1, BuzzAssumption, SMTT(30) DEF Submit
  <2>3. cmds' \in Seq(Turns \cup {Shutdown})
    BY <1>1, <2>1 DEF Submit
  <2>. QED  BY <1>1, <2>2, <2>3 DEF Submit
<1>2. CASE PollStray
  BY <1>2 DEF PollStray
<1>3. CASE PollChunk
  <2>1. current_turn \in Turns /\ Head(replies) \in Nat /\ Tail(replies) \in Seq(Nat \ {Completion})
    BY <1>3 DEF PollChunk, NoTurn, Turns
  <2>. QED  BY <1>3, <2>1 DEF PollChunk, Given
<1>4. CASE PollComplete
  <2>1. current_turn \in Turns \cup {NoTurn}
    BY DEF Turns, NoTurn
  <2>. QED  BY <1>4, <2>1 DEF PollComplete, Given, Completion, NoReply
<1>5. CASE TimePasses
  BY <1>5, BuzzAssumption, SMTT(30) DEF TimePasses
<1>6. CASE Drop
  BY <1>6 DEF Drop
<1>. QED  BY <1>1, <1>2, <1>3, <1>4, <1>5, <1>6 DEF Poll

LEMMA HandshakeOK ==
  ASSUME BuzzOK, Attempt \/ AnswerChallenge \/ Authenticated \/ HandshakeFails
                 \/ Subscribe \/ SubscribeFails
  PROVE  BuzzOK'
<1>. USE DEF BuzzOK, BuzzTypeOK, AgentTypeOK, EventsOK, EventsOf, EventOf, agentVars, transportVars, wireVars, relayVars
<1>1. CASE Attempt
  <2>1. cmds' \in Seq(Turns \cup {Shutdown})
    BY <1>1 DEF Attempt
  <2>2. pending' \in Turns \cup {NoTurn}
    BY <1>1 DEF Attempt
  <2>. QED  BY <1>1, <2>1, <2>2 DEF Attempt
<1>2. CASE AnswerChallenge
  <2>1. up' \in Seq(ToRelay)
    <3>1. <<Auth>> \in Seq(ToRelay)
      BY MessageTypes
    <3>. QED  BY <1>2, <3>1, SentType DEF AnswerChallenge
  <2>. QED  BY <1>2, <2>1, SMTT(30) DEF AnswerChallenge, Received
<1>3. CASE Authenticated
  BY <1>3, SMTT(30) DEF Authenticated, Received
<1>4. CASE HandshakeFails
  BY <1>4, UnconnectedOK DEF HandshakeFails, Disconnected
<1>5. CASE Subscribe
  <2>1. up' \in Seq(ToRelay)
    BY <1>5, SentType, MessageTypes DEF Subscribe
  <2>. QED  BY <1>5, <2>1 DEF Subscribe
<1>6. CASE SubscribeFails
  BY <1>6, UnconnectedOK DEF SubscribeFails, Disconnected
<1>. QED  BY <1>1, <1>2, <1>3, <1>4, <1>5, <1>6

LEMMA ServeOK ==
  ASSUME BuzzOK, ServeCommand \/ ServeRead \/ ReadFails \/ WaitCommand \/ WaitOver
  PROVE  BuzzOK'
<1>. USE DEF BuzzOK, BuzzTypeOK, AgentTypeOK, EventsOK, EventsOf, EventOf, agentVars, transportVars, wireVars, relayVars
<1>1. CASE ServeCommand
  <2>1. cmds' \in Seq(Turns \cup {Shutdown})
    BY <1>1 DEF ServeCommand
  <2>2. CASE Head(cmds) = Shutdown
    BY <1>1, <2>1, <2>2, UnconnectedOK DEF ServeCommand
  <2>3. CASE Head(cmds) # Shutdown
    <3>1. Head(cmds) \in Turns
      BY <1>1, <2>3 DEF ServeCommand
    <3>2. up' \in Seq(ToRelay) /\ reactions' \subseteq Turns
      BY <1>1, <2>3, <3>1, SentType, MessageTypes DEF ServeCommand, Publish
    <3>. QED  BY <1>1, <2>1, <2>3, <3>2 DEF ServeCommand
  <2>. QED  BY <2>2, <2>3
<1>2. CASE ServeRead
  <2>1. CASE down = <<>> /\ UNCHANGED <<replies, reactions, up, down>>
    BY <1>2, <2>1 DEF ServeRead
  <2>2. CASE ReadEvent /\ down' = Tail(down)
    <3>1. Head(down).id \in Nat \ {Completion}
      BY <2>2, SMTT(30) DEF ReadEvent, Received, Completion
    <3>2. replies' \in Seq(Nat \ {Completion})
      BY <2>2, <3>1 DEF ReadEvent
    <3>3. down # <<>> /\ down' = Tail(down)
      BY <2>2 DEF ReadEvent, Received
    <3>4. down' \in Seq(FromRelay)
      BY <3>3
    <3>5. \A i \in DOMAIN down' : i + 1 \in DOMAIN down /\ down'[i] = down[i + 1]
      <4>1. down \in Seq(FromRelay)
        OBVIOUS
      <4>. HIDE DEF BuzzTypeOK, EventsOK
      <4>. QED  BY <3>3, <4>1
    <3>6. UNCHANGED <<log, up, reactions>>
      BY <1>2, <2>2 DEF ServeRead, ReadEvent
    <3>7. EventsOK'
      <4>. HIDE DEF BuzzTypeOK
      <4>. QED  BY <3>5, <3>6
    <3>8. BuzzTypeOK'
      <4>. HIDE DEF EventsOK
      <4>. QED  BY <1>2, <3>2, <3>4, <3>6 DEF ServeRead
    <3>. QED  BY <3>7, <3>8
  <2>3. CASE ReadOk /\ down' = Tail(down)
    <3>1. up' \in Seq(ToRelay)
      <4>1. \A t \in reactions : <<Reaction(t)>> \in Seq(ToRelay)
        BY MessageTypes
      <4>. QED  BY <2>3, <4>1, SentType DEF ReadOk
    <3>. QED  BY <1>2, <2>3, <3>1 DEF ServeRead, ReadOk, Received
  <2>. QED  BY <1>2, <2>1, <2>2, <2>3 DEF ServeRead
<1>3. CASE ReadFails
  BY <1>3, UnconnectedOK DEF ReadFails, Disconnected
<1>4. CASE WaitCommand
  BY <1>4 DEF WaitCommand
<1>5. CASE WaitOver
  BY <1>5 DEF WaitOver
<1>. QED  BY <1>1, <1>2, <1>3, <1>4, <1>5

LEMMA TakesDown ==
  ASSUME log \in Seq(EventRecords), DownOK(down, Len(log)), up \in Seq(ToRelay), up # <<>>,
         RelayAuthenticates \/ RelaySubscribes \/ RelayAccepts \/ RelayReacts
  PROVE  log' = log /\ DownOK(down', Len(log))
<1>1. log' = log
  BY DEF RelayAuthenticates, RelaySubscribes, RelayAccepts, RelayReacts, relayVars
<1>2. Len(log) \in Nat
  OBVIOUS
<1>3. \A id \in Nat, status \in BOOLEAN : DownOK(Append(down, Ok(id, status)), Len(log))
  BY <1>2, Confirmations, EventsAppend
<1>4. CASE RelayAuthenticates
  <2>1. down' = Append(down, Ok(NoTurn, TRUE)) \/ down' = Append(down, Ok(NoTurn, FALSE))
    BY <1>4 DEF RelayAuthenticates
  <2>2. NoTurn \in Nat /\ TRUE \in BOOLEAN /\ FALSE \in BOOLEAN
    BY DEF NoTurn
  <2>. QED  BY <1>1, <1>3, <2>1, <2>2, Zenon
<1>5. CASE RelaySubscribes
  <2>. DEFINE stored == [i \in DOMAIN log |-> Delivery(i)]
  <2>1. \A i \in DOMAIN log : Delivery(i) \in FromRelay /\ EventOf(Delivery(i), Len(log))
    BY <1>2, Deliveries
  <2>2. stored \in Seq(FromRelay)
    BY <2>1
  <2>3. EventsOf(stored, Len(log))
    BY <2>1 DEF EventsOf
  <2>4. down' = down \o stored
    BY <1>5 DEF RelaySubscribes
  <2>. HIDE DEF stored
  <2>5. DownOK(stored, Len(log))
    BY <2>2, <2>3 DEF DownOK
  <2>. QED  BY <1>1, <1>2, <2>4, <2>5, EventsConcat
<1>6. CASE RelayAccepts
  <2>1. Head(up).turn \in Nat
    <3>1. Head(up) \in ToRelay
      OBVIOUS
    <3>. QED  BY <3>1, ToRelayTurns
  <2>2. DownOK(Append(down, Ok(Head(up).turn, FALSE)), Len(log))
    BY <2>1, <1>3
  <2>. QED  BY <1>6, <2>2 DEF RelayAccepts
<1>7. CASE RelayReacts
  BY <1>7 DEF RelayReacts
<1>. QED  BY <1>1, <1>4, <1>5, <1>6, <1>7

LEMMA CommitsDown ==
  ASSUME BuzzOK, RelayCommits
  PROVE  /\ log' \in Seq(EventRecords) /\ published' \in Seq(Turns) /\ committing' \in Seq(Turns)
         /\ Head(committing) \in Turns
         /\ DownOK(down', Len(log'))
<1>1. /\ log \in Seq(EventRecords) /\ DownOK(down, Len(log))
      /\ published \in Seq(Turns) /\ committing \in Seq(Turns) /\ Len(log) \in Nat
  BY DEF BuzzOK, BuzzTypeOK, EventsOK, DownOK
<1>2. Head(committing) \in Turns /\ committing' \in Seq(Turns) /\ published' \in Seq(Turns)
  BY <1>1 DEF RelayCommits
<1>3. log' \in Seq(EventRecords) /\ Len(log') = Len(log) + 1 /\ Len(log') \in Nat
  BY <1>1, StreamMessageType DEF RelayCommits
<1>. DEFINE new == IF subscribed THEN <<Delivery(Len(log) + 1)>> ELSE <<>>
            confirmed == IF Head(committing) \in due THEN <<Ok(Head(committing), TRUE)>> ELSE <<>>
<1>4. DownOK(new, Len(log'))
  <2>1. Delivery(Len(log) + 1) \in FromRelay /\ EventOf(Delivery(Len(log) + 1), Len(log'))
    BY <1>1, <1>3, Deliveries
  <2>. QED  BY <1>3, <2>1, EventsSmall
<1>5. DownOK(confirmed, Len(log'))
  <2>1. Ok(Head(committing), TRUE) \in FromRelay /\ EventOf(Ok(Head(committing), TRUE), Len(log'))
    <3>1. Head(committing) \in Nat /\ TRUE \in BOOLEAN
      BY <1>2, TurnsAreNumbers
    <3>. QED  BY <1>3, <3>1, Confirmations
  <2>. QED  BY <1>3, <2>1, EventsSmall
<1>6. down' = down \o new \o confirmed
  BY DEF RelayCommits
<1>. HIDE DEF new, confirmed
<1>7. DownOK(down, Len(log'))
  BY <1>1, <1>3, EventsGrow
<1>8. DownOK(down \o new, Len(log'))
  BY <1>3, <1>4, <1>7, EventsConcat
<1>9. DownOK(down', Len(log'))
  BY <1>3, <1>5, <1>6, <1>8, EventsConcat
<1>. QED  BY <1>2, <1>3, <1>9

LEMMA RelayOK ==
  ASSUME BuzzOK, Relay \/ AgentPosts \/ LinkBreaks
  PROVE  BuzzOK'
<1>. USE DEF BuzzOK, BuzzTypeOK, AgentTypeOK, agentVars, transportVars, wireVars, relayVars
<1>1. CASE RelayChallenges
  BY <1>1, AnswerTypes DEF RelayChallenges, Challenge, EventsOK, EventsOf, EventOf
<1>2. CASE RelayTakes
  <2>1. up' \in Seq(ToRelay) /\ Head(up) \in ToRelay
    BY <1>2 DEF RelayTakes
  <2>2. log' = log /\ down' \in Seq(FromRelay) /\ EventsOK'
    BY <1>2, TakesDown DEF RelayTakes, DownOK, EventsOK
  <2>3. due' \subseteq Turns /\ committing' \in Seq(Turns)
    <3>1. ASSUME RelayAccepts  PROVE due' \subseteq Turns /\ committing' \in Seq(Turns)
      <4>1. Head(up).turn \in Turns
        BY <2>1, <3>1, ToRelayTurns DEF RelayAccepts
      <4>2. due' \subseteq Turns
        BY <3>1, <4>1 DEF RelayAccepts
      <4>3. committing' = Append(committing, Head(up).turn) \/ committing' = committing
        BY <3>1 DEF RelayAccepts
      <4>4. committing \in Seq(Turns)
        OBVIOUS
      <4>5. Append(committing, Head(up).turn) \in Seq(Turns)
        BY <4>1, <4>4
      <4>. QED  BY <4>2, <4>3, <4>4, <4>5
    <3>. QED  BY <1>2, <3>1 DEF RelayTakes, RelayAuthenticates, RelaySubscribes, RelayReacts
  <2>4. subscribed' \in BOOLEAN /\ early' \in BOOLEAN
    BY <1>2 DEF RelayTakes, RelayAuthenticates, RelaySubscribes, RelayAccepts, RelayReacts
  <2>5. published' = published
    BY <1>2 DEF RelayTakes, RelayAuthenticates, RelaySubscribes, RelayAccepts, RelayReacts
  <2>. QED  BY <1>2, <2>1, <2>2, <2>3, <2>4, <2>5 DEF RelayTakes
<1>3. CASE RelayCommits
  <2>1. /\ log' \in Seq(EventRecords) /\ published' \in Seq(Turns) /\ committing' \in Seq(Turns)
        /\ down' \in Seq(FromRelay) /\ EventsOK'
    BY <1>3, CommitsDown DEF DownOK, EventsOK
  <2>. QED  BY <1>3, <2>1 DEF RelayCommits
<1>4. CASE AgentPosts
  <2>1. log' \in Seq(EventRecords) /\ Len(log') = Len(log) + 1 /\ Len(log) \in Nat /\ Len(log') \in Nat
    <3>1. Posts \subseteq EventRecords
      BY BuzzAssumption
    <3>. QED  BY <1>4, <3>1 DEF AgentPosts
  <2>2. DownOK(down, Len(log')) /\ DownOK(Append(down, Delivery(Len(log) + 1)), Len(log'))
    <3>1. DownOK(down, Len(log))
      BY DEF DownOK, EventsOK
    <3>2. DownOK(down, Len(log'))
      BY <2>1, <3>1, EventsGrow
    <3>3. Len(log) + 1 \in 1..Len(log')
      BY <2>1
    <3>. QED  BY <2>1, <3>2, <3>3, Deliveries, EventsAppend
  <2>3. down' \in Seq(FromRelay) /\ EventsOK'
    BY <1>4, <2>2 DEF AgentPosts, DownOK, EventsOK
  <2>. QED  BY <1>4, <2>1, <2>3 DEF AgentPosts
<1>5. CASE LinkBreaks
  BY <1>5, UnconnectedOK DEF LinkBreaks
<1>. QED  BY <1>1, <1>2, <1>3, <1>4, <1>5 DEF Relay

LEMMA BuzzOKStep == ASSUME BuzzOK, [BuzzNext]_buzzVars PROVE BuzzOK'
<1>1. CASE BuzzNext
  BY <1>1, AgentOK, HandshakeOK, ServeOK, RelayOK DEF BuzzNext, Transport
<1>2. CASE UNCHANGED buzzVars
  BY <1>2 DEF buzzVars, BuzzOK, BuzzTypeOK, AgentTypeOK, EventsOK, EventsOf, EventOf, agentVars, transportVars,
              wireVars, relayVars
<1>. QED  BY <1>1, <1>2

----------------------------------------------------------------------------
(* What is in a queue. *)

Elem(s) == {s[i] : i \in DOMAIN s}

LEMMA ElemSmall ==
  /\ Elem(<<>>) = {}
  /\ \A x : Elem(<<x>>) = {x}
BY DEF Elem

LEMMA ElemConcat ==
  ASSUME NEW S, NEW a \in Seq(S), NEW b \in Seq(S)
  PROVE  Elem(a \o b) = Elem(a) \cup Elem(b)
<1>1. ASSUME NEW x \in Elem(a \o b)  PROVE x \in Elem(a) \cup Elem(b)
  <2>1. PICK i \in 1..Len(a \o b) : x = (a \o b)[i]
    BY DEF Elem
  <2>2. CASE i <= Len(a)
    BY <2>1, <2>2 DEF Elem
  <2>3. CASE i > Len(a)
    <3>1. i - Len(a) \in 1..Len(b) /\ x = b[i - Len(a)]
      BY <2>1, <2>3
    <3>. QED  BY <3>1 DEF Elem
  <2>. QED  BY <2>2, <2>3
<1>2. ASSUME NEW x \in Elem(a)  PROVE x \in Elem(a \o b)
  <2>1. PICK i \in 1..Len(a) : x = a[i]
    BY DEF Elem
  <2>2. i \in DOMAIN (a \o b) /\ (a \o b)[i] = x
    BY <2>1
  <2>. QED  BY <2>2 DEF Elem
<1>3. ASSUME NEW x \in Elem(b)  PROVE x \in Elem(a \o b)
  <2>1. PICK i \in 1..Len(b) : x = b[i]
    BY DEF Elem
  <2>2. i + Len(a) \in DOMAIN (a \o b) /\ (a \o b)[i + Len(a)] = x
    BY <2>1
  <2>. QED  BY <2>2 DEF Elem
<1>. QED  BY <1>1, <1>2, <1>3

LEMMA ElemAppend ==
  ASSUME NEW S, NEW s \in Seq(S), NEW x \in S
  PROVE  Elem(Append(s, x)) = Elem(s) \cup {x}
<1>1. Append(s, x) = s \o <<x>> /\ <<x>> \in Seq(S)
  OBVIOUS
<1>2. Elem(s \o <<x>>) = Elem(s) \cup Elem(<<x>>)
  BY <1>1, ElemConcat, ZenonT(30)
<1>. QED  BY <1>1, <1>2, ElemSmall

LEMMA ElemTail ==
  ASSUME NEW S, NEW s \in Seq(S), s # <<>>
  PROVE  Elem(Tail(s)) \subseteq Elem(s) /\ Head(s) \in Elem(s)
<1>1. \A i \in DOMAIN Tail(s) : Tail(s)[i] = s[i + 1] /\ i + 1 \in DOMAIN s
  OBVIOUS
<1>2. 1 \in DOMAIN s /\ Head(s) = s[1]
  OBVIOUS
<1>. QED  BY <1>1, <1>2 DEF Elem

LEMMA ElemSent ==
  ASSUME up \in Seq(ToRelay), NEW ms \in Seq(ToRelay)
  PROVE  Elem(Sent(ms)) \subseteq Elem(up) \cup Elem(ms)
BY ElemConcat DEF Sent

----------------------------------------------------------------------------
(* A reaction is sent only when the relay confirmed the message, which it does
   when it has stored it: every confirmation on its way, and every reaction, is
   about words in the log. *)

ReactionsOK ==
  /\ \A m \in Elem(up) : m.type = "reaction" => m.turn \in OwnTurns
  /\ \A m \in Elem(down) : m.type = "ok" /\ m.status /\ m.id \in Turns => m.id \in OwnTurns
  /\ ~ early

(* What a step may put on its way. *)
LEMMA WordsStored ==
  ASSUME BuzzOK, BuzzNext
  PROVE  OwnTurns \subseteq OwnTurns'
<1>1. CASE RelayCommits
  <2>1. published \in Seq(Turns) /\ committing \in Seq(Turns) /\ Head(committing) \in Turns
    BY <1>1, CommitsDown DEF BuzzOK, BuzzTypeOK
  <2>2. Elem(published') = Elem(published) \cup {Head(committing)}
    BY <1>1, <2>1, ElemAppend DEF RelayCommits
  <2>. QED  BY <2>2 DEF Elem, OwnTurns
<1>2. CASE ~ RelayCommits
  <2>1. published' = published
    BY <1>2 DEF BuzzNext, Submit, Poll, PollStray, PollChunk, PollComplete, TimePasses, Drop, Transport,
       Attempt, AnswerChallenge, Authenticated, HandshakeFails, Subscribe, SubscribeFails, ServeCommand,
       ServeRead, ReadFails, WaitCommand, WaitOver, Relay, RelayChallenges, RelayTakes,
       RelayAuthenticates, RelaySubscribes, RelayAccepts, RelayReacts, AgentPosts, LinkBreaks, relayVars
  <2>. QED  BY <2>1 DEF OwnTurns
<1>. QED  BY <1>1, <1>2

Harmless(m) == m \in ToRelay /\ m.type # "reaction"

LEMMA UpSteps ==
  ASSUME BuzzOK, BuzzNext, NEW m \in Elem(up')
  PROVE  \/ m \in Elem(up)
         \/ Harmless(m)
         \/ /\ down # <<>> /\ Head(down).type = "ok" /\ Head(down).status
            /\ Head(down).id \in reactions /\ m = Reaction(Head(down).id)
<1>. USE DEF agentVars, transportVars, wireVars, relayVars
<1>0. up \in Seq(ToRelay) /\ reactions \subseteq Turns /\ cmds \in Seq(Turns \cup {Shutdown})
      /\ pending \in Turns \cup {NoTurn}
  BY DEF BuzzOK, BuzzTypeOK
<1>1. CASE AnswerChallenge
  <2>1. <<Auth>> \in Seq(ToRelay) /\ Harmless(Auth)
    BY MessageTypes DEF Auth, Harmless
  <2>2. m \in Elem(up) \cup {Auth}
    BY <1>0, <1>1, <2>1, ElemSent, ElemSmall DEF AnswerChallenge
  <2>. QED  BY <2>1, <2>2
<1>2. CASE Subscribe
  <2>1. <<Req>> \in Seq(ToRelay) /\ Harmless(Req) /\ Publication(pending) \in Seq(ToRelay)
        /\ <<Req>> \o Publication(pending) \in Seq(ToRelay)
    BY <1>0, MessageTypes DEF Req, Harmless
  <2>2. \A x \in Elem(Publication(pending)) : Harmless(x)
    BY <1>0, ElemSmall, MessageTypes DEF Publication, Harmless, Message
  <2>3. m \in Elem(up) \cup ({Req} \cup Elem(Publication(pending)))
    <3>1. Elem(<<Req>> \o Publication(pending)) = {Req} \cup Elem(Publication(pending))
      <4>1. Elem(<<Req>> \o Publication(pending)) = Elem(<<Req>>) \cup Elem(Publication(pending))
        BY <2>1, ElemConcat, ZenonT(30)
      <4>. QED  BY <4>1, ElemSmall
    <3>. QED  BY <1>0, <1>2, <2>1, <3>1, ElemSent DEF Subscribe
  <2>. QED  BY <2>1, <2>2, <2>3
<1>3. CASE ServeCommand
  <2>1. CASE Head(cmds) = Shutdown
    BY <1>3, <2>1, ElemSmall DEF ServeCommand, Unconnected
  <2>2. CASE Head(cmds) # Shutdown
    <3>1. Head(cmds) \in Turns
      BY <1>0, <1>3, <2>2 DEF ServeCommand
    <3>2. Publication(Head(cmds)) \in Seq(ToRelay)
      BY <3>1, MessageTypes
    <3>3. \A x \in Elem(Publication(Head(cmds))) : Harmless(x)
      BY <3>1, ElemSmall, MessageTypes DEF Publication, Harmless, Message
    <3>. QED  BY <1>0, <1>3, <2>2, <3>2, <3>3, ElemSent DEF ServeCommand, Publish
  <2>. QED  BY <2>1, <2>2
<1>4. CASE ServeRead
  <2>1. CASE ReadOk /\ Head(down).status /\ Head(down).id \in reactions
    <3>1. Reaction(Head(down).id) \in ToRelay /\ <<Reaction(Head(down).id)>> \in Seq(ToRelay)
      BY <1>0, <2>1, MessageTypes
    <3>2. m \in Elem(up) \cup {Reaction(Head(down).id)}
      BY <1>0, <2>1, <3>1, ElemSent, ElemSmall DEF ReadOk
    <3>. QED  BY <2>1, <3>2 DEF ReadOk, Received
  <2>. QED  BY <1>4, <2>1 DEF ServeRead, ReadOk, ReadEvent
<1>5. CASE RelayTakes
  BY <1>0, <1>5, ElemTail DEF RelayTakes
<1>6. CASE HandshakeFails \/ SubscribeFails \/ ReadFails \/ LinkBreaks
  BY <1>6, ElemSmall DEF HandshakeFails, SubscribeFails, ReadFails, LinkBreaks, Disconnected, Unconnected
<1>7. CASE Submit \/ Poll \/ TimePasses \/ Drop
  BY <1>7 DEF Submit, Poll, PollStray, PollChunk, PollComplete, TimePasses, Drop
<1>8. CASE Attempt \/ Authenticated \/ WaitCommand \/ WaitOver
  BY <1>8 DEF Attempt, Authenticated, WaitCommand, WaitOver
<1>9. CASE RelayChallenges \/ RelayCommits \/ AgentPosts
  BY <1>9 DEF RelayChallenges, RelayCommits, AgentPosts
<1>. QED
  BY <1>1, <1>2, <1>3, <1>4, <1>5, <1>6, <1>7, <1>8, <1>9 DEF BuzzNext, Transport, Relay

LEMMA DownSteps ==
  ASSUME BuzzOK, BuzzNext, NEW m \in Elem(down')
  PROVE  \/ m \in Elem(down)
         \/ m \in FromRelay /\ (m.type = "ok" /\ m.status => m.id \notin Turns \/ m.id \in OwnTurns')
<1>. USE DEF agentVars, transportVars, wireVars, relayVars
<1>0. down \in Seq(FromRelay) /\ log \in Seq(EventRecords) /\ up \in Seq(ToRelay)
      /\ committing \in Seq(Turns) /\ published \in Seq(Turns)
  BY DEF BuzzOK, BuzzTypeOK
<1>1. CASE AnswerChallenge \/ Authenticated
  BY <1>0, <1>1, ElemTail DEF AnswerChallenge, Authenticated, Received
<1>2. CASE ServeRead
  BY <1>0, <1>2, ElemTail DEF ServeRead, ReadEvent, ReadOk, Received
<1>3. CASE ServeCommand
  BY <1>3, ElemSmall DEF ServeCommand, Unconnected
<1>4. CASE HandshakeFails \/ SubscribeFails \/ ReadFails \/ LinkBreaks
  BY <1>4, ElemSmall DEF HandshakeFails, SubscribeFails, ReadFails, LinkBreaks, Disconnected, Unconnected
<1>5. CASE Submit \/ Poll \/ TimePasses \/ Drop
  BY <1>5 DEF Submit, Poll, PollStray, PollChunk, PollComplete, TimePasses, Drop
<1>6. CASE Attempt \/ Subscribe \/ WaitCommand \/ WaitOver
  BY <1>6 DEF Attempt, Subscribe, WaitCommand, WaitOver
<1>7. CASE RelayChallenges
  <2>1. Challenge \in FromRelay /\ Challenge.type # "ok"
    BY AnswerTypes DEF Challenge
  <2>. QED  BY <1>7, <2>1, ElemSmall DEF RelayChallenges
<1>8. CASE AgentPosts
  <2>1. Delivery(Len(log) + 1) \in FromRelay /\ Delivery(Len(log) + 1).type # "ok"
    BY <1>0, AnswerTypes DEF Delivery
  <2>2. Elem(Append(down, Delivery(Len(log) + 1))) = Elem(down) \cup {Delivery(Len(log) + 1)}
    BY <1>0, <2>1, ElemAppend
  <2>. QED  BY <1>8, <2>1, <2>2 DEF AgentPosts
<1>9. CASE RelayTakes
  <2>1. CASE RelaySubscribes
    <3>. DEFINE stored == [i \in DOMAIN log |-> Delivery(i)]
    <3>1. \A i \in DOMAIN log : Delivery(i) \in FromRelay /\ Delivery(i).type # "ok"
      <4>1. DOMAIN log \subseteq Nat
        BY <1>0
      <4>. QED  BY <4>1, AnswerTypes DEF Delivery
    <3>2. stored \in Seq(FromRelay)
      BY <1>0, <3>1, SMTT(30)
    <3>3. \A x \in Elem(stored) : x \in FromRelay /\ x.type # "ok"
      BY <3>1 DEF Elem
    <3>4. down' = down \o stored
      BY <2>1 DEF RelaySubscribes
    <3>. HIDE DEF stored
    <3>. QED  BY <1>0, <3>2, <3>3, <3>4, ElemConcat
  <2>2. CASE RelayAuthenticates
    <3>1. \A status \in BOOLEAN : Ok(NoTurn, status) \in FromRelay /\ Ok(NoTurn, status).id = NoTurn
      BY AnswerTypes DEF Ok, NoTurn
    <3>2. PICK status \in BOOLEAN : down' = Append(down, Ok(NoTurn, status))
      BY <2>2 DEF RelayAuthenticates
    <3>3. Elem(Append(down, Ok(NoTurn, status))) = Elem(down) \cup {Ok(NoTurn, status)}
      BY <1>0, <3>1, ElemAppend
    <3>. QED  BY <3>1, <3>2, <3>3, TurnsAreNumbers
  <2>3. CASE RelayAccepts
    <3>1. Head(up).turn \in Nat
      BY <1>0, <1>9, ToRelayTurns DEF RelayTakes
    <3>2. Ok(Head(up).turn, FALSE) \in FromRelay /\ ~ Ok(Head(up).turn, FALSE).status
      BY <3>1, AnswerTypes DEF Ok
    <3>. DEFINE refusal == Ok(Head(up).turn, FALSE)
    <3>3. down' = down \/ down' = Append(down, refusal)
      BY <2>3 DEF RelayAccepts
    <3>4. refusal \in FromRelay /\ ~ refusal.status
      BY <3>2
    <3>. HIDE DEF refusal
    <3>5. Elem(Append(down, refusal)) = Elem(down) \cup {refusal}
      BY <1>0, <3>4, ElemAppend
    <3>. QED  BY <3>3, <3>4, <3>5
  <2>4. CASE RelayReacts
    BY <2>4 DEF RelayReacts
  <2>. QED  BY <1>9, <2>1, <2>2, <2>3, <2>4 DEF RelayTakes
<1>10. CASE RelayCommits
  <2>. DEFINE delivery == Delivery(Len(log) + 1)
              confirmation == Ok(Head(committing), TRUE)
              new == IF subscribed THEN <<delivery>> ELSE <<>>
              confirmed == IF Head(committing) \in due THEN <<confirmation>> ELSE <<>>
              front == down \o new
  <2>1. delivery \in FromRelay /\ delivery.type # "ok"
    BY <1>0, AnswerTypes DEF Delivery
  <2>2. Head(committing) \in Turns /\ Head(committing) \in Nat
    BY <1>10, CommitsDown, TurnsAreNumbers
  <2>3. confirmation \in FromRelay /\ confirmation.id = Head(committing)
    BY <2>2, AnswerTypes DEF Ok
  <2>6. down' = front \o confirmed
    BY <1>10 DEF RelayCommits
  <2>. HIDE DEF delivery, confirmation
  <2>4. new \in Seq(FromRelay) /\ Elem(new) \subseteq {delivery}
    BY <2>1, ElemSmall
  <2>5. confirmed \in Seq(FromRelay) /\ Elem(confirmed) \subseteq {confirmation}
    BY <2>3, ElemSmall
  <2>. HIDE DEF new, confirmed
  <2>7. front \in Seq(FromRelay) /\ Elem(front) = Elem(down) \cup Elem(new)
    BY <1>0, <2>4, ElemConcat
  <2>. HIDE DEF front
  <2>8. Elem(front \o confirmed) = Elem(front) \cup Elem(confirmed)
    BY <2>5, <2>7, ElemConcat
  <2>9. Head(committing) \in OwnTurns'
    <3>1. Elem(published') = Elem(published) \cup {Head(committing)}
      BY <1>0, <1>10, <2>2, ElemAppend DEF RelayCommits
    <3>. QED  BY <3>1 DEF Elem, OwnTurns
  <2>. QED  BY <2>1, <2>3, <2>4, <2>5, <2>6, <2>7, <2>8, <2>9
<1>. QED
  BY <1>1, <1>2, <1>3, <1>4, <1>5, <1>6, <1>7, <1>8, <1>9, <1>10 DEF BuzzNext, Transport, Relay

LEMMA ReactionsStep ==
  ASSUME BuzzOK, ReactionsOK, BuzzNext
  PROVE  ReactionsOK'
<1>0. up \in Seq(ToRelay) /\ down \in Seq(FromRelay) /\ reactions \subseteq Turns
  BY DEF BuzzOK, BuzzTypeOK
<1>1. ASSUME NEW m \in Elem(up'), m.type = "reaction"  PROVE m.turn \in OwnTurns'
  <2>1. CASE m \in Elem(up)
    BY <1>1, <2>1, WordsStored DEF ReactionsOK
  <2>2. CASE Harmless(m)
    BY <1>1, <2>2 DEF Harmless
  <2>3. CASE /\ down # <<>> /\ Head(down).type = "ok" /\ Head(down).status
             /\ Head(down).id \in reactions /\ m = Reaction(Head(down).id)
    <3>1. Head(down) \in Elem(down)
      BY <1>0, <2>3, ElemTail
    <3>2. Head(down).id \in OwnTurns
      BY <1>0, <2>3, <3>1 DEF ReactionsOK
    <3>3. m.turn = Head(down).id
      BY <2>3 DEF Reaction
    <3>. QED  BY <3>2, <3>3, WordsStored
  <2>. QED  BY <2>1, <2>2, <2>3, UpSteps
<1>2. ASSUME NEW m \in Elem(down'), m.type = "ok", m.status, m.id \in Turns  PROVE m.id \in OwnTurns'
  <2>1. CASE m \in Elem(down)
    BY <1>2, <2>1, WordsStored DEF ReactionsOK
  <2>. QED  BY <1>2, <2>1, DownSteps
<1>3. ~ early'
  <2>1. CASE RelayTakes
    <3>1. Head(up) \in Elem(up)
      BY <1>0, <2>1, ElemTail DEF RelayTakes
    <3>. QED
      BY <2>1, <3>1 DEF ReactionsOK, RelayTakes, RelayAuthenticates, RelaySubscribes, RelayAccepts,
                        RelayReacts, relayVars
  <2>2. CASE ~ RelayTakes
    <3>1. early' = early
      BY <2>2 DEF BuzzNext, Submit, Poll, PollStray, PollChunk, PollComplete, TimePasses, Drop,
         Transport, Attempt, AnswerChallenge, Authenticated, HandshakeFails, Subscribe, SubscribeFails,
         ServeCommand, ServeRead, ReadFails, WaitCommand, WaitOver, Relay, RelayChallenges,
         RelayCommits, AgentPosts, LinkBreaks, relayVars
    <3>. QED  BY <3>1 DEF ReactionsOK
  <2>. QED  BY <2>1, <2>2
<1>. QED  BY <1>1, <1>2, <1>3 DEF ReactionsOK

(* However often the connection breaks: a reaction never reaches the relay
   before the message it is about. *)
THEOREM ReactionsComeSecond == BuzzSpec => []ReactionsFindTheirMessage
<1>. DEFINE Inv == BuzzOK /\ ReactionsOK
<1>1. BuzzInit => Inv
  BY BuzzOKInit, ElemSmall DEF BuzzInit, ReactionsOK
<1>2. Inv /\ [BuzzNext]_buzzVars => Inv'
  <2>1. UNCHANGED buzzVars /\ ReactionsOK => ReactionsOK'
    BY DEF buzzVars, wireVars, relayVars, ReactionsOK, OwnTurns, Elem
  <2>. QED  BY <2>1, BuzzOKStep, ReactionsStep
<1>3. Inv => ReactionsFindTheirMessage
  BY DEF ReactionsOK, ReactionsFindTheirMessage
<1>. QED
  BY <1>1, <1>2, <1>3, PTL DEF BuzzSpec

----------------------------------------------------------------------------
(* The quiet period runs only after a reply, and a submission stops it: while
   it runs, what was given last is a reply of the current turn. *)

TimerOK ==
  last_reply # NoReply =>
    /\ given # <<>>
    /\ given[Len(given)].turn = current_turn /\ given[Len(given)].post # Completion

LEMMA GivenMore ==
  ASSUME given \in Seq([turn : Turns \cup {NoTurn}, post : Nat]), CompletionFollowsReply,
         NEW turn \in Turns \cup {NoTurn}, NEW post \in Nat,
         post = Completion =>
           /\ given # <<>>
           /\ given[Len(given)].turn = turn /\ given[Len(given)].post # Completion,
         given' = Given(turn, post)
  PROVE  /\ CompletionFollowsReply' /\ given' # <<>>
         /\ given'[Len(given')].turn = turn /\ given'[Len(given')].post = post
<1>. DEFINE n == Len(given) + 1
<1>1. /\ Len(given) \in Nat /\ DOMAIN given = 1..Len(given)
      /\ Len(given') = n /\ DOMAIN given' = 1..n
      /\ given'[n] = [turn |-> turn, post |-> post]
      /\ \A i \in 1..Len(given) : given'[i] = given[i]
  BY DEF Given
<1>2. ASSUME NEW i \in 1..n, given'[i].post = Completion
      PROVE  i > 1 /\ given'[i - 1].post # Completion /\ given'[i - 1].turn = given'[i].turn
  <2>1. CASE i = n
    <3>1. given # <<>> /\ Len(given) > 0 /\ i - 1 = Len(given)
      BY <1>1, <1>2, <2>1
    <3>. QED  BY <1>1, <1>2, <2>1, <3>1
  <2>2. CASE i < n
    <3>1. i \in 1..Len(given)
      BY <1>1, <2>2
    <3>2. i > 1 /\ given[i - 1].post # Completion /\ given[i - 1].turn = given[i].turn
      BY <1>1, <1>2, <3>1 DEF CompletionFollowsReply
    <3>. QED  BY <1>1, <3>1, <3>2, SMTT(30)
  <2>. QED  BY <1>1, <2>1, <2>2
<1>. QED  BY <1>1, <1>2 DEF CompletionFollowsReply

LEMMA TimerStep ==
  ASSUME BuzzOK, TimerOK, CompletionFollowsReply, BuzzNext
  PROVE  TimerOK' /\ CompletionFollowsReply'
<1>0. /\ given \in Seq([turn : Turns \cup {NoTurn}, post : Nat])
      /\ current_turn \in Turns \cup {NoTurn}
      /\ replies \in Seq(Nat \ {Completion})
  BY DEF BuzzOK, BuzzTypeOK, AgentTypeOK, Turns, NoTurn
<1>1. CASE PollChunk
  <2>1. Head(replies) \in Nat /\ Head(replies) # Completion
    BY <1>0, <1>1 DEF PollChunk
  <2>. QED  BY <1>0, <1>1, <2>1, GivenMore DEF PollChunk, TimerOK
<1>2. CASE PollComplete
  <2>1. last_reply # NoReply /\ last_reply' = NoReply
    BY <1>2, BuzzAssumption DEF PollComplete, NoReply
  <2>2. Completion \in Nat
    BY DEF Completion
  <2>. QED  BY <1>0, <1>2, <2>1, <2>2, GivenMore DEF PollComplete, TimerOK
<1>3. CASE Submit
  BY <1>3 DEF Submit, TimerOK, CompletionFollowsReply
<1>4. CASE TimePasses
  <2>1. last_reply # NoReply
    BY <1>4 DEF TimePasses, NoReply
  <2>. QED  BY <1>4, <2>1 DEF TimePasses, TimerOK, CompletionFollowsReply
<1>5. CASE ~ (PollChunk \/ PollComplete \/ Submit \/ TimePasses)
  <2>1. UNCHANGED <<last_reply, given, current_turn>>
    BY <1>5 DEF BuzzNext, Poll, PollStray, Drop, Transport, Attempt, AnswerChallenge, Authenticated,
       HandshakeFails, Subscribe, SubscribeFails, ServeCommand, ServeRead, ReadFails, WaitCommand,
       WaitOver, Relay, RelayChallenges, RelayTakes, RelayCommits, AgentPosts, LinkBreaks, agentVars
  <2>. QED  BY <2>1 DEF TimerOK, CompletionFollowsReply
<1>. QED  BY <1>1, <1>2, <1>3, <1>4, <1>5

(* Whenever words are submitted and replies come in: the end of a turn is given
   right after a reply of that turn. *)
THEOREM CompletionsFollow == BuzzSpec => []CompletionFollowsReply
<1>. DEFINE Inv == BuzzOK /\ TimerOK /\ CompletionFollowsReply
<1>1. BuzzInit => Inv
  BY BuzzOKInit DEF BuzzInit, TimerOK, CompletionFollowsReply
<1>2. Inv /\ [BuzzNext]_buzzVars => Inv'
  <2>1. UNCHANGED buzzVars /\ TimerOK /\ CompletionFollowsReply => TimerOK' /\ CompletionFollowsReply'
    BY DEF buzzVars, agentVars, TimerOK, CompletionFollowsReply
  <2>. QED  BY <2>1, BuzzOKStep, TimerStep
<1>. QED
  BY <1>1, <1>2, PTL DEF BuzzSpec

----------------------------------------------------------------------------
(* The words of a queue, whose other entries (a shutdown, a message that is
   not a publication) do not matter. *)

WordsIn(s) == {s[i] : i \in DOMAIN s} \cap Turns
Sorted(s) == \A i, j \in DOMAIN s : i < j /\ s[i] \in Turns /\ s[j] \in Turns => s[i] < s[j]
Below(A, B) == \A a \in A, b \in B : a < b
WordOf(m) == IF m.type = "message" THEN m.turn ELSE NoTurn
Wire(s) == [i \in DOMAIN s |-> WordOf(s[i])]

LEMMA SortedTail ==
  ASSUME NEW s \in Seq(Int), s # <<>>, Sorted(s)
  PROVE  /\ Sorted(Tail(s)) /\ WordsIn(Tail(s)) \subseteq WordsIn(s)
         /\ Head(s) \in Turns => Head(s) \in WordsIn(s) /\ Below({Head(s)}, WordsIn(Tail(s)))
<1>1. /\ 1 \in DOMAIN s /\ Head(s) = s[1]
      /\ \A i \in DOMAIN Tail(s) : i + 1 \in DOMAIN s /\ Tail(s)[i] = s[i + 1] /\ i \in Nat \ {0}
  OBVIOUS
<1>2. Sorted(Tail(s))
  BY <1>1 DEF Sorted
<1>3. WordsIn(Tail(s)) \subseteq WordsIn(s)
  BY <1>1 DEF WordsIn
<1>4. ASSUME Head(s) \in Turns, NEW b \in WordsIn(Tail(s))  PROVE Head(s) < b
  <2>1. PICK i \in DOMAIN Tail(s) : b = Tail(s)[i]
    BY DEF WordsIn
  <2>. QED  BY <1>1, <1>4, <2>1 DEF Sorted, WordsIn
<1>. QED  BY <1>1, <1>2, <1>3, <1>4 DEF Below, WordsIn

LEMMA SortedAppend ==
  ASSUME NEW s \in Seq(Int), NEW x \in Int, Sorted(s), x \in Turns => Below(WordsIn(s), {x})
  PROVE  Sorted(Append(s, x)) /\ WordsIn(Append(s, x)) = WordsIn(s) \cup ({x} \cap Turns)
<1>. DEFINE t == Append(s, x)
            n == Len(s) + 1
<1>1. /\ Len(s) \in Nat /\ DOMAIN s = 1..Len(s) /\ DOMAIN t = 1..n
      /\ t[n] = x /\ \A i \in 1..Len(s) : t[i] = s[i]
  OBVIOUS
<1>. HIDE DEF t
<1>2. ASSUME NEW i \in DOMAIN t, NEW j \in DOMAIN t, i < j, t[i] \in Turns, t[j] \in Turns
      PROVE  t[i] < t[j]
  <2>1. i \in 1..Len(s) /\ t[i] = s[i]
    BY <1>1, <1>2
  <2>2. CASE j \in 1..Len(s)
    BY <1>1, <1>2, <2>1, <2>2 DEF Sorted
  <2>3. CASE j = n
    <3>1. t[i] \in WordsIn(s) /\ x \in Turns
      BY <1>1, <1>2, <2>1, <2>3 DEF WordsIn
    <3>. QED  BY <1>1, <2>3, <3>1 DEF Below
  <2>. QED  BY <1>1, <2>2, <2>3
<1>3. {t[i] : i \in DOMAIN t} = {s[i] : i \in DOMAIN s} \cup {x}
  BY <1>1
<1>. QED  BY <1>2, <1>3 DEF Sorted, WordsIn, t

LEMMA SortedSmall == Sorted(<<>>) /\ WordsIn(<<>>) = {} /\ Wire(<<>>) = <<>>
BY DEF Sorted, WordsIn, Wire

LEMMA WireTail ==
  ASSUME NEW s \in Seq(ToRelay), s # <<>>
  PROVE  Wire(s) \in Seq(Int) /\ Wire(s) # <<>>
         /\ Wire(Tail(s)) = Tail(Wire(s)) /\ Head(Wire(s)) = WordOf(Head(s))
<1>1. \A m \in ToRelay : WordOf(m) \in Int
  BY ToRelayTurns DEF WordOf, NoTurn
<1>2. Wire(s) \in Seq(Int) /\ Len(Wire(s)) = Len(s) /\ DOMAIN Wire(s) = 1..Len(s)
  BY <1>1 DEF Wire
<1>3. Wire(s) # <<>> /\ Head(Wire(s)) = WordOf(Head(s))
  BY <1>2 DEF Wire
<1>4. Wire(Tail(s)) = Tail(Wire(s))
  <2>1. DOMAIN Wire(Tail(s)) = 1..(Len(s) - 1) /\ DOMAIN Tail(Wire(s)) = 1..(Len(s) - 1)
    BY <1>2, <1>3 DEF Wire
  <2>2. \A i \in 1..(Len(s) - 1) : Wire(Tail(s))[i] = WordOf(s[i + 1]) /\ Tail(Wire(s))[i] = WordOf(s[i + 1])
    BY <1>2, <1>3 DEF Wire
  <2>. QED  BY <1>2, <1>3, <2>1, <2>2 DEF Wire
<1>. QED  BY <1>2, <1>3, <1>4

LEMMA WireAppend ==
  ASSUME NEW s \in Seq(ToRelay), NEW m \in ToRelay
  PROVE  Wire(s) \in Seq(Int) /\ WordOf(m) \in Int /\ Wire(Append(s, m)) = Append(Wire(s), WordOf(m))
<1>1. \A x \in ToRelay : WordOf(x) \in Int
  BY ToRelayTurns DEF WordOf, NoTurn
<1>2. Wire(s) \in Seq(Int) /\ Len(Wire(s)) = Len(s) /\ DOMAIN Wire(s) = 1..Len(s)
  BY <1>1 DEF Wire
<1>3. DOMAIN Wire(Append(s, m)) = 1..(Len(s) + 1) /\ DOMAIN Append(Wire(s), WordOf(m)) = 1..(Len(s) + 1)
  BY <1>1, <1>2 DEF Wire
<1>4. \A i \in 1..(Len(s) + 1) : Wire(Append(s, m))[i] = Append(Wire(s), WordOf(m))[i]
  BY <1>1, <1>2 DEF Wire
<1>5. Wire(Append(s, m)) \in Seq(Int) /\ Append(Wire(s), WordOf(m)) \in Seq(Int)
  BY <1>1, <1>2 DEF Wire
<1>6. Wire(Append(s, m)) = Append(Wire(s), WordOf(m))
  <2>. DEFINE a == Wire(Append(s, m))
              b == Append(Wire(s), WordOf(m))
  <2>1. a \in Seq(Int) /\ b \in Seq(Int) /\ DOMAIN a = DOMAIN b /\ \A i \in DOMAIN a : a[i] = b[i]
    BY <1>3, <1>4, <1>5
  <2>. HIDE DEF a, b
  <2>2. a = b
    BY <2>1
  <2>. QED  BY <2>2 DEF a, b
<1>. QED  BY <1>1, <1>2, <1>6

----------------------------------------------------------------------------
(* The stages of the words, from the channel back to the user: each stage is
   sorted, and its words are older than those of the stages behind it. *)

Stored == WordsIn(published)
Accepted == WordsIn(committing)
OnWire == WordsIn(Wire(up))
Waiting == {pending} \cap Turns
Queued == WordsIn(cmds)
Submitted == 1..current_turn

StagesSorted == Sorted(published) /\ Sorted(committing) /\ Sorted(Wire(up)) /\ Sorted(cmds)

StagesInOrder ==
  /\ Below(Stored, Accepted) /\ Below(Stored, OnWire) /\ Below(Stored, Waiting) /\ Below(Stored, Queued)
  /\ Below(Accepted, OnWire) /\ Below(Accepted, Waiting) /\ Below(Accepted, Queued)
  /\ Below(OnWire, Waiting) /\ Below(OnWire, Queued)
  /\ Below(Waiting, Queued)

AllSubmitted == Stored \cup Accepted \cup OnWire \cup Waiting \cup Queued \subseteq Submitted

(* Words that are sent at once never overtake words that wait: nothing waits
   while the connection serves. *)
NoneWaits == phase \in {"serve", "read"} => pending = NoTurn

InOrder == StagesSorted /\ StagesInOrder /\ AllSubmitted /\ NoneWaits

LEMMA QueueTypes ==
  ASSUME BuzzTypeOK
  PROVE  /\ published \in Seq(Int) /\ committing \in Seq(Int) /\ cmds \in Seq(Int)
         /\ published \in Seq(Turns) /\ committing \in Seq(Turns)
         /\ up \in Seq(ToRelay) /\ pending \in Int
         /\ Turns \subseteq Int /\ NoTurn \notin Turns /\ Shutdown \notin Turns /\ NoTurn \in Int
<1>1. Turns \subseteq Int /\ NoTurn \in Int /\ Shutdown \in Int
  BY BuzzAssumption DEF Turns, NoTurn, Shutdown
<1>2. ASSUME NEW S, S \subseteq Int, NEW s \in Seq(S)  PROVE s \in Seq(Int)
  <2>1. Len(s) \in Nat /\ s \in [1..Len(s) -> S]
    OBVIOUS
  <2>2. s \in [1..Len(s) -> Int]
    BY <1>2, <2>1
  <2>. QED  BY <2>1, <2>2
<1>3. /\ published \in Seq(Turns) /\ committing \in Seq(Turns) /\ cmds \in Seq(Turns \cup {Shutdown})
      /\ up \in Seq(ToRelay) /\ pending \in Turns \cup {NoTurn}
  BY DEF BuzzTypeOK
<1>4. Turns \cup {Shutdown} \subseteq Int
  BY <1>1
<1>5. published \in Seq(Int) /\ committing \in Seq(Int) /\ cmds \in Seq(Int)
  BY <1>1, <1>2, <1>3, <1>4
<1>. QED  BY <1>1, <1>3, <1>5, TurnsAreNumbers

(* Steps that only lose words. *)
LEMMA LosingWords ==
  ASSUME InOrder, published' = published, committing' = committing, NoneWaits',
         Sorted(Wire(up))', OnWire' \subseteq OnWire,
         Sorted(cmds)', Queued' \subseteq Queued, Waiting' \subseteq Waiting,
         current_turn' = current_turn
  PROVE  InOrder'
<1>1. Stored' = Stored /\ Accepted' = Accepted /\ Submitted' = Submitted
  BY DEF Stored, Accepted, Submitted
<1>2. StagesSorted'
  BY DEF InOrder, StagesSorted
<1>3. StagesInOrder'
  BY <1>1 DEF InOrder, StagesInOrder, Below
<1>. QED  BY <1>1, <1>2, <1>3 DEF InOrder, AllSubmitted

(* Words sent go to the end of what is on the wire, if there is a connection. *)
LEMMA SentWords ==
  ASSUME up \in Seq(ToRelay), Sorted(Wire(up)), NEW m \in ToRelay,
         WordOf(m) \in Turns => Below(OnWire, {WordOf(m)}), up' = Sent(<<m>>)
  PROVE  Sorted(Wire(up))' /\ OnWire' \subseteq OnWire \cup ({WordOf(m)} \cap Turns)
<1>1. CASE up' = up
  BY <1>1 DEF OnWire
<1>2. CASE up' = up \o <<m>>
  <2>1. up' = Append(up, m)
    BY <1>2
  <2>2. Wire(Append(up, m)) = Append(Wire(up), WordOf(m)) /\ Wire(up) \in Seq(Int) /\ WordOf(m) \in Int
    BY WireAppend
  <2>3. /\ Sorted(Append(Wire(up), WordOf(m)))
        /\ WordsIn(Append(Wire(up), WordOf(m))) = OnWire \cup ({WordOf(m)} \cap Turns)
    BY <2>2, SortedAppend DEF OnWire
  <2>. QED  BY <2>1, <2>2, <2>3 DEF OnWire
<1>. QED  BY <1>1, <1>2 DEF Sent

LEMMA NoWordSent ==
  ASSUME up \in Seq(ToRelay), Sorted(Wire(up)), NEW m \in ToRelay,
         m.type # "message", up' = Sent(<<m>>)
  PROVE  Sorted(Wire(up))' /\ OnWire' \subseteq OnWire
<1>1. WordOf(m) = NoTurn
  BY DEF WordOf
<1>. QED  BY <1>1, SentWords, TurnsAreNumbers

LEMMA NothingOnWire ==
  up = <<>> => Sorted(Wire(up)) /\ OnWire = {}
BY SortedSmall DEF OnWire

LEMMA SubmitInOrder ==
  ASSUME BuzzOK, InOrder, Submit
  PROVE  InOrder'
<1>0. cmds \in Seq(Int) /\ current_turn \in Nat /\ current_turn + 1 \in Int
  BY QueueTypes DEF BuzzOK, BuzzTypeOK, AgentTypeOK
<1>1. UNCHANGED <<published, committing, up, pending, phase>>
  BY DEF Submit, transportVars, wireVars, relayVars
<1>2. Submitted' = Submitted \cup {current_turn + 1}
  BY <1>0 DEF Submit, Submitted
<1>3. \A w \in Submitted : w < current_turn + 1
  BY <1>0 DEF Submitted
<1>4. Sorted(cmds)' /\ Queued' \subseteq Queued \cup {current_turn + 1}
  <2>1. Below(Queued, {current_turn + 1})
    BY <1>3 DEF InOrder, AllSubmitted, Below
  <2>. QED  BY <1>0, <2>1, SortedAppend DEF InOrder, StagesSorted, Queued, Submit
<1>5. /\ Stored' = Stored /\ Accepted' = Accepted /\ OnWire' = OnWire /\ Waiting' = Waiting
  BY <1>1 DEF Stored, Accepted, OnWire, Waiting
<1>6. StagesSorted' /\ NoneWaits'
  BY <1>1, <1>4 DEF InOrder, StagesSorted, NoneWaits
<1>7. AllSubmitted'
  BY <1>2, <1>4, <1>5 DEF InOrder, AllSubmitted
<1>8. StagesInOrder'
  BY <1>3, <1>4, <1>5 DEF InOrder, StagesInOrder, AllSubmitted, Below
<1>. QED  BY <1>6, <1>7, <1>8 DEF InOrder

LEMMA DropInOrder ==
  ASSUME BuzzOK, InOrder, Drop
  PROVE  InOrder'
<1>1. UNCHANGED <<published, committing, up, pending, phase, current_turn>>
  BY DEF Drop, transportVars, wireVars, relayVars
<1>2. Sorted(cmds)' /\ Queued' \subseteq Queued
  <2>1. cmds \in Seq(Int) /\ Shutdown \in Int /\ Shutdown \notin Turns
    BY QueueTypes DEF BuzzOK, Shutdown
  <2>2. Sorted(Append(cmds, Shutdown))
        /\ WordsIn(Append(cmds, Shutdown)) = WordsIn(cmds) \cup ({Shutdown} \cap Turns)
    BY <2>1, SortedAppend DEF InOrder, StagesSorted
  <2>. QED  BY <2>1, <2>2 DEF Queued, Drop
<1>. QED
  BY <1>1, <1>2, LosingWords DEF InOrder, StagesSorted, NoneWaits, OnWire, Waiting

(* The command at the head of the queue is kept until there is a connection. *)
LEMMA HeadIsKept ==
  ASSUME BuzzOK, InOrder, cmds # <<>>, cmds' = Tail(cmds), pending' = Head(cmds),
         UNCHANGED <<published, committing, up, current_turn>>, phase' \notin {"serve", "read"}
  PROVE  InOrder'
<1>1. Sorted(cmds)' /\ Queued' \subseteq Queued
      /\ (Head(cmds) \in Turns => Head(cmds) \in Queued /\ Below({Head(cmds)}, Queued'))
  BY QueueTypes, SortedTail DEF BuzzOK, InOrder, StagesSorted, Queued
<1>2. Waiting' \subseteq Queued /\ Below(Waiting', Queued')
  BY <1>1 DEF Waiting, Below
<1>3. /\ Stored' = Stored /\ Accepted' = Accepted /\ OnWire' = OnWire /\ Submitted' = Submitted
  BY DEF Stored, Accepted, OnWire, Submitted
<1>4. StagesSorted' /\ NoneWaits'
  BY <1>1 DEF InOrder, StagesSorted, NoneWaits
<1>5. AllSubmitted'
  BY <1>1, <1>2, <1>3 DEF InOrder, AllSubmitted
<1>6. StagesInOrder'
  BY <1>1, <1>2, <1>3 DEF InOrder, StagesInOrder, Below
<1>. QED  BY <1>4, <1>5, <1>6 DEF InOrder

LEMMA CommandsShrink ==
  ASSUME BuzzOK, InOrder, cmds' = cmds \/ (cmds # <<>> /\ cmds' = Tail(cmds))
  PROVE  Sorted(cmds)' /\ Queued' \subseteq Queued
BY QueueTypes, SortedTail DEF BuzzOK, InOrder, StagesSorted, Queued

LEMMA WireSame ==
  ASSUME InOrder, up' = up \/ up' = <<>>
  PROVE  Sorted(Wire(up))' /\ OnWire' \subseteq OnWire
BY SortedSmall DEF InOrder, StagesSorted, OnWire

(* What waited goes out after the subscription. *)
LEMMA SubscribeInOrder ==
  ASSUME BuzzOK, InOrder, Subscribe
  PROVE  InOrder'
<1>0. /\ up \in Seq(ToRelay) /\ pending \in Turns \cup {NoTurn} /\ Req \in ToRelay
      /\ \A t \in Turns : Message(t) \in ToRelay
  BY MessageTypes DEF BuzzOK, BuzzTypeOK
<1>1. UNCHANGED <<published, committing, cmds, current_turn>> /\ pending' = NoTurn
  BY DEF Subscribe, relayVars, agentVars
<1>2. Sorted(Wire(up))' /\ OnWire' \subseteq OnWire \cup Waiting
  <2>. DEFINE subscribing == Append(up, Req)
  <2>1. subscribing \in Seq(ToRelay) /\ Sorted(Wire(subscribing))
        /\ WordsIn(Wire(subscribing)) = OnWire
    <3>1. WordOf(Req) = NoTurn /\ NoTurn \notin Turns
      BY TurnsAreNumbers DEF WordOf, Req
    <3>2. Wire(subscribing) = Append(Wire(up), NoTurn) /\ Wire(up) \in Seq(Int) /\ NoTurn \in Int
      BY <1>0, <3>1, WireAppend
    <3>3. Sorted(Wire(subscribing)) /\ WordsIn(Wire(subscribing)) = OnWire \cup ({NoTurn} \cap Turns)
      BY <3>1, <3>2, SortedAppend DEF InOrder, StagesSorted, OnWire
    <3>. QED  BY <1>0, <3>1, <3>3
  <2>2. CASE up' = up
    BY <2>2 DEF InOrder, StagesSorted, OnWire
  <2>3. CASE up' = up \o (<<Req>> \o Publication(pending)) /\ Publication(pending) = <<>>
    <3>1. up' = subscribing
      BY <1>0, <2>3
    <3>. QED  BY <2>1, <3>1 DEF OnWire
  <2>4. CASE up' = up \o (<<Req>> \o Publication(pending)) /\ Publication(pending) # <<>>
    <3>1. pending \in Turns /\ Publication(pending) = <<Message(pending)>>
      BY <1>0, <2>4 DEF Publication
    <3>2. Message(pending) \in ToRelay /\ WordOf(Message(pending)) = pending
      BY <1>0, <3>1 DEF Message, WordOf
    <3>. DEFINE m == Message(pending)
    <3>3. up' = Append(subscribing, m)
      <4>1. m \in ToRelay /\ up' = up \o (<<Req>> \o <<m>>)
        BY <2>4, <3>1, <3>2
      <4>. HIDE DEF m
      <4>. QED  BY <1>0, <4>1
    <3>. HIDE DEF subscribing, m
    <3>4. Wire(Append(subscribing, m)) = Append(Wire(subscribing), pending)
          /\ Wire(subscribing) \in Seq(Int) /\ pending \in Int
      BY <2>1, <3>2, WireAppend DEF m
    <3>5. Below(WordsIn(Wire(subscribing)), {pending})
      BY <2>1, <3>1 DEF InOrder, StagesInOrder, Below, Waiting
    <3>6. /\ Sorted(Append(Wire(subscribing), pending))
          /\ WordsIn(Append(Wire(subscribing), pending)) = OnWire \cup ({pending} \cap Turns)
      BY <2>1, <3>4, <3>5, SortedAppend
    <3>. QED  BY <3>3, <3>4, <3>6 DEF OnWire, Waiting
  <2>. QED  BY <2>2, <2>3, <2>4 DEF Subscribe, Sent
<1>3. Waiting' = {}
  BY <1>1, TurnsAreNumbers DEF Waiting
<1>4. /\ Stored' = Stored /\ Accepted' = Accepted /\ Queued' = Queued /\ Submitted' = Submitted
  BY <1>1 DEF Stored, Accepted, Queued, Submitted
<1>5. StagesSorted' /\ NoneWaits'
  BY <1>1, <1>2 DEF InOrder, StagesSorted, NoneWaits
<1>6. AllSubmitted'
  BY <1>2, <1>3, <1>4 DEF InOrder, AllSubmitted
<1>7. StagesInOrder'
  BY <1>2, <1>3, <1>4 DEF InOrder, StagesInOrder, Below
<1>. QED  BY <1>5, <1>6, <1>7 DEF InOrder

(* While the connection serves, a command is published at once. *)
LEMMA ServeInOrder ==
  ASSUME BuzzOK, InOrder, ServeCommand
  PROVE  InOrder'
<1>0. /\ up \in Seq(ToRelay) /\ cmds \in Seq(Turns \cup {Shutdown})
      /\ \A t \in Turns : Message(t) \in ToRelay
  BY MessageTypes DEF BuzzOK, BuzzTypeOK
<1>1. UNCHANGED <<published, committing, pending, current_turn>> /\ cmds # <<>> /\ cmds' = Tail(cmds)
  BY DEF ServeCommand, relayVars, agentVars
<1>2. Sorted(cmds)' /\ Queued' \subseteq Queued
  BY <1>1, CommandsShrink
<1>3. Waiting' = Waiting /\ pending = NoTurn /\ NoneWaits' /\ Waiting = {}
  BY <1>1, TurnsAreNumbers DEF Waiting, InOrder, NoneWaits, ServeCommand
<1>4. CASE up' = up \/ up' = <<>>
  BY <1>1, <1>2, <1>3, <1>4, WireSame, LosingWords
<1>5. CASE Head(cmds) # Shutdown /\ up' = Sent(<<Message(Head(cmds))>>)
  <2>. DEFINE w == Head(cmds)
  <2>1. w \in Turns /\ w \in Queued /\ Below({w}, Queued')
    <3>1. w \in Turns
      BY <1>0, <1>1, <1>5
    <3>. QED  BY <1>1, <3>1, QueueTypes, SortedTail DEF BuzzOK, InOrder, StagesSorted, Queued
  <2>2. Message(w) \in ToRelay /\ WordOf(Message(w)) = w
    BY <1>0, <2>1 DEF Message, WordOf
  <2>3. Sorted(Wire(up))' /\ OnWire' \subseteq OnWire \cup {w}
    <3>1. Below(OnWire, {w})
      BY <2>1 DEF InOrder, StagesInOrder, Below
    <3>. QED  BY <1>0, <1>5, <2>1, <2>2, <3>1, SentWords DEF InOrder, StagesSorted
  <2>4. /\ Stored' = Stored /\ Accepted' = Accepted /\ Submitted' = Submitted
    BY <1>1 DEF Stored, Accepted, Submitted
  <2>5. StagesSorted'
    BY <1>1, <1>2, <2>3 DEF InOrder, StagesSorted
  <2>6. AllSubmitted'
    BY <1>2, <1>3, <2>1, <2>3, <2>4 DEF InOrder, AllSubmitted
  <2>7. StagesInOrder'
    BY <1>2, <1>3, <2>1, <2>3, <2>4 DEF InOrder, StagesInOrder, Below
  <2>. QED  BY <1>3, <2>5, <2>6, <2>7 DEF InOrder
<1>6. up' = up \/ up' = <<>> \/ (Head(cmds) # Shutdown /\ up' = Sent(<<Message(Head(cmds))>>))
  <2>1. Sent(<<>>) = up
    BY <1>0 DEF Sent
  <2>2. Publication(Head(cmds)) = <<>> \/ Publication(Head(cmds)) = <<Message(Head(cmds))>>
    BY DEF Publication
  <2>3. CASE Head(cmds) = Shutdown
    BY <2>3 DEF ServeCommand, Unconnected
  <2>4. CASE Head(cmds) # Shutdown
    <3>1. up' = Sent(Publication(Head(cmds)))
      BY <2>4 DEF ServeCommand, Publish
    <3>. QED  BY <2>1, <2>2, <2>4, <3>1
  <2>. QED  BY <2>3, <2>4
<1>. QED  BY <1>4, <1>5, <1>6

(* The relay takes the message that arrived first, and stores in the order in
   which it took. *)
LEMMA AcceptInOrder ==
  ASSUME BuzzOK, InOrder, RelayTakes
  PROVE  InOrder'
<1>0. up \in Seq(ToRelay) /\ up # <<>> /\ up' = Tail(up) /\ Head(up) \in ToRelay
  BY DEF BuzzOK, BuzzTypeOK, RelayTakes
<1>1. UNCHANGED <<published, cmds, pending, phase, current_turn>>
  BY DEF RelayTakes, RelayAuthenticates, RelaySubscribes, RelayAccepts, RelayReacts, relayVars, agentVars,
         transportVars
<1>2. /\ Sorted(Wire(up))' /\ OnWire' \subseteq OnWire
      /\ WordOf(Head(up)) \in Turns => WordOf(Head(up)) \in OnWire /\ Below({WordOf(Head(up))}, OnWire')
  <2>1. /\ Wire(up) \in Seq(Int) /\ Wire(up) # <<>>
        /\ Wire(Tail(up)) = Tail(Wire(up)) /\ Head(Wire(up)) = WordOf(Head(up))
    BY <1>0, WireTail
  <2>. QED  BY <1>0, <2>1, SortedTail DEF InOrder, StagesSorted, OnWire
<1>3. Waiting' = Waiting /\ Queued' = Queued /\ Stored' = Stored /\ Submitted' = Submitted /\ NoneWaits'
  BY <1>1 DEF Waiting, Queued, Stored, Submitted, NoneWaits, InOrder
<1>4. CASE committing' = committing
  BY <1>1, <1>2, <1>3, <1>4, LosingWords DEF InOrder, StagesSorted
<1>5. CASE RelayAccepts /\ committing' = Append(committing, Head(up).turn)
  <2>. DEFINE w == Head(up).turn
  <2>1. w \in Turns /\ WordOf(Head(up)) = w
    BY <1>0, <1>5, ToRelayTurns DEF RelayAccepts, WordOf
  <2>2. w \in OnWire /\ Below({w}, OnWire')
    BY <1>2, <2>1
  <2>3. Below(Accepted, {w})
    BY <2>2 DEF InOrder, StagesInOrder, Below
  <2>4. Sorted(committing)' /\ Accepted' \subseteq Accepted \cup {w}
    <3>1. committing \in Seq(Int) /\ w \in Int
      BY <2>1, QueueTypes DEF BuzzOK
    <3>. QED  BY <1>5, <2>3, <3>1, SortedAppend DEF InOrder, StagesSorted, Accepted
  <2>5. StagesSorted'
    BY <1>1, <1>2, <2>4 DEF InOrder, StagesSorted
  <2>6. AllSubmitted'
    BY <1>2, <1>3, <2>2, <2>4 DEF InOrder, AllSubmitted
  <2>7. StagesInOrder'
    BY <1>2, <1>3, <2>2, <2>4 DEF InOrder, StagesInOrder, Below
  <2>. QED  BY <1>3, <2>5, <2>6, <2>7 DEF InOrder
<1>6. committing' = committing \/ (RelayAccepts /\ committing' = Append(committing, Head(up).turn))
  <2>1. RelayAccepts => committing' = committing \/ committing' = Append(committing, Head(up).turn)
    BY DEF RelayAccepts
  <2>2. RelayAuthenticates \/ RelaySubscribes \/ RelayReacts => committing' = committing
    BY DEF RelayAuthenticates, RelaySubscribes, RelayReacts, relayVars
  <2>. QED  BY <2>1, <2>2 DEF RelayTakes
<1>. QED  BY <1>4, <1>5, <1>6

LEMMA CommitInOrder ==
  ASSUME BuzzOK, InOrder, RelayCommits
  PROVE  /\ InOrder'
         /\ \E w \in Submitted : (\A i \in DOMAIN published : published[i] < w)
                                /\ published' = Append(published, w)
<1>. DEFINE w == Head(committing)
<1>0. /\ published \in Seq(Turns) /\ published \in Seq(Int) /\ committing \in Seq(Int)
      /\ committing # <<>> /\ committing' = Tail(committing) /\ published' = Append(published, w)
      /\ w \in Turns /\ w \in Int
  BY CommitsDown, QueueTypes DEF BuzzOK, RelayCommits
<1>1. UNCHANGED <<up, cmds, pending, phase, current_turn>>
  BY DEF RelayCommits, agentVars, transportVars
<1>2. Sorted(committing)' /\ Accepted' \subseteq Accepted /\ w \in Accepted /\ Below({w}, Accepted')
  BY <1>0, SortedTail DEF InOrder, StagesSorted, Accepted
<1>3. Below(Stored, {w})
  BY <1>2 DEF InOrder, StagesInOrder, Below
<1>4. Sorted(published)' /\ Stored' \subseteq Stored \cup {w}
  BY <1>0, <1>3, SortedAppend DEF InOrder, StagesSorted, Stored
<1>5. Waiting' = Waiting /\ Queued' = Queued /\ OnWire' = OnWire /\ Submitted' = Submitted /\ NoneWaits'
  BY <1>1 DEF Waiting, Queued, OnWire, Submitted, NoneWaits, InOrder
<1>6. StagesSorted'
  BY <1>1, <1>2, <1>4 DEF InOrder, StagesSorted
<1>7. AllSubmitted'
  BY <1>2, <1>4, <1>5 DEF InOrder, AllSubmitted
<1>8. StagesInOrder'
  BY <1>2, <1>4, <1>5 DEF InOrder, StagesInOrder, Below
<1>9. w \in Submitted /\ \A i \in DOMAIN published : published[i] < w
  <2>1. \A i \in DOMAIN published : published[i] \in Stored
    BY <1>0 DEF Stored, WordsIn
  <2>. QED  BY <1>2, <1>3, <2>1 DEF InOrder, AllSubmitted, Below
<1>. QED  BY <1>0, <1>5, <1>6, <1>7, <1>8, <1>9 DEF InOrder

LEMMA OthersInOrder ==
  ASSUME BuzzOK, InOrder, BuzzNext,
         ~ (Submit \/ Drop \/ Subscribe \/ ServeCommand \/ RelayTakes \/ RelayCommits)
  PROVE  InOrder'
<1>0. up \in Seq(ToRelay)
  BY DEF BuzzOK, BuzzTypeOK
<1>1. CASE UNCHANGED <<published, committing, current_turn, pending>> /\ (up' = up \/ up' = <<>>) /\ NoneWaits'
           /\ (cmds' = cmds \/ (cmds # <<>> /\ cmds' = Tail(cmds)))
  BY <1>1, WireSame, CommandsShrink, LosingWords DEF Waiting
<1>2. CASE Poll \/ TimePasses
  BY <1>1, <1>2 DEF Poll, PollStray, PollChunk, PollComplete, TimePasses, agentVars, transportVars, wireVars,
     relayVars, InOrder, NoneWaits
<1>3. CASE Attempt \/ WaitCommand
  <2>1. /\ UNCHANGED <<published, committing, up, current_turn>> /\ phase' \notin {"serve", "read"}
    BY <1>3 DEF Attempt, WaitCommand, agentVars, relayVars, wireVars
  <2>2. \/ cmds # <<>> /\ cmds' = Tail(cmds) /\ pending' = Head(cmds)
        \/ pending' = pending /\ (cmds' = cmds \/ (cmds # <<>> /\ cmds' = Tail(cmds)))
    BY <1>3 DEF Attempt, WaitCommand
  <2>3. NoneWaits'
    BY <2>1 DEF NoneWaits
  <2>. QED  BY <1>1, <2>1, <2>2, <2>3, HeadIsKept
<1>4. CASE AnswerChallenge
  <2>1. UNCHANGED <<published, committing, cmds, current_turn, pending>> /\ phase' = "auth"
        /\ up' = Sent(<<Auth>>)
    BY <1>4 DEF AnswerChallenge, agentVars, relayVars
  <2>2. Auth \in ToRelay /\ Auth.type # "message"
    BY MessageTypes DEF Auth
  <2>3. Sorted(Wire(up))' /\ OnWire' \subseteq OnWire
    BY <1>0, <2>1, <2>2, NoWordSent DEF InOrder, StagesSorted
  <2>. QED  BY <2>1, <2>3, LosingWords DEF InOrder, StagesSorted, NoneWaits, Waiting, Queued
<1>5. CASE ServeRead
  <2>1. UNCHANGED <<published, committing, cmds, current_turn, pending>> /\ NoneWaits'
    BY <1>5 DEF ServeRead, Reading, agentVars, relayVars, InOrder, NoneWaits
  <2>2. CASE up' = up
    BY <1>1, <2>1, <2>2
  <2>3. CASE Head(down).id \in reactions /\ up' = Sent(<<Reaction(Head(down).id)>>)
    <3>1. Reaction(Head(down).id) \in ToRelay /\ Reaction(Head(down).id).type # "message"
      BY <2>3, MessageTypes DEF Reaction, BuzzOK, BuzzTypeOK
    <3>2. Sorted(Wire(up))' /\ OnWire' \subseteq OnWire
      BY <1>0, <2>3, <3>1, NoWordSent DEF InOrder, StagesSorted
    <3>. QED  BY <2>1, <3>2, LosingWords DEF InOrder, StagesSorted, Waiting, Queued
  <2>. QED  BY <1>5, <2>2, <2>3 DEF ServeRead, ReadEvent, ReadOk
<1>6. CASE Authenticated \/ WaitOver
  BY <1>1, <1>6 DEF Authenticated, WaitOver, agentVars, relayVars, wireVars, InOrder, NoneWaits
<1>7. CASE HandshakeFails \/ SubscribeFails \/ ReadFails \/ LinkBreaks
  BY <1>1, <1>7 DEF HandshakeFails, SubscribeFails, ReadFails, LinkBreaks, Disconnected, Unconnected,
     agentVars, relayVars, transportVars, InOrder, NoneWaits
<1>8. CASE RelayChallenges \/ AgentPosts
  BY <1>1, <1>8 DEF RelayChallenges, AgentPosts, agentVars, relayVars, transportVars, InOrder, NoneWaits
<1>. QED
  BY <1>2, <1>3, <1>4, <1>5, <1>6, <1>7, <1>8 DEF BuzzNext, Transport, Relay

LEMMA InOrderInit == BuzzInit => InOrder
<1>. SUFFICES ASSUME BuzzInit  PROVE InOrder
  OBVIOUS
<1>1. Stored = {} /\ Accepted = {} /\ OnWire = {} /\ Queued = {} /\ Waiting = {}
  BY SortedSmall, TurnsAreNumbers DEF BuzzInit, Stored, Accepted, OnWire, Queued, Waiting
<1>2. StagesSorted /\ NoneWaits
  BY SortedSmall DEF BuzzInit, StagesSorted, NoneWaits
<1>. QED  BY <1>1, <1>2 DEF InOrder, StagesInOrder, AllSubmitted, Below

(* What the user submits reaches the channel in order and at most once, for any
   number of turns, broken connections and refusals, wherever they strike: the
   backend implements Outbox, a submission being Submit and a delivery the
   relay's commit. *)
THEOREM BuzzImplementsOutbox == BuzzSpec => WordsInOrderOnce
<1>. DEFINE Inv == BuzzOK /\ InOrder
<1>1. BuzzInit => Inv /\ Words!OutboxInit
  BY BuzzOKInit, InOrderInit DEF BuzzInit, Words!OutboxInit, NoTurn
<1>2. Inv /\ [BuzzNext]_buzzVars => Inv' /\ [Words!OutboxNext]_(Words!outboxVars)
  <2>. SUFFICES ASSUME BuzzOK, InOrder, [BuzzNext]_buzzVars
                PROVE  InOrder' /\ [Words!OutboxNext]_(Words!outboxVars)
    BY BuzzOKStep
  <2>1. CASE UNCHANGED buzzVars
    <3>1. UNCHANGED <<published, committing, up, cmds, pending, phase, current_turn>>
      BY <2>1 DEF buzzVars, agentVars, transportVars, wireVars, relayVars
    <3>. QED
      BY <3>1 DEF InOrder, StagesSorted, StagesInOrder, AllSubmitted, NoneWaits, Stored, Accepted, OnWire,
         Queued, Waiting, Submitted, Words!outboxVars
  <2>2. CASE Submit
    BY <2>2, SubmitInOrder DEF Submit, relayVars, Words!OutboxNext, Words!SubmitWords
  <2>3. CASE RelayCommits
    <3>1. current_turn' = current_turn
      BY <2>3 DEF RelayCommits, agentVars
    <3>. QED
      BY <2>3, <3>1, CommitInOrder DEF Submitted, Words!OutboxNext, Words!DeliverWords
  <2>4. CASE BuzzNext /\ ~ Submit /\ ~ RelayCommits
    <3>1. UNCHANGED <<current_turn, published>>
      BY <2>4 DEF BuzzNext, Poll, PollStray, PollChunk, PollComplete, TimePasses, Drop, Transport,
         Attempt, AnswerChallenge, Authenticated, HandshakeFails, Subscribe, SubscribeFails, ServeCommand,
         ServeRead, ReadFails, WaitCommand, WaitOver, Relay, RelayChallenges, RelayTakes,
         RelayAuthenticates, RelaySubscribes, RelayAccepts, RelayReacts, AgentPosts, LinkBreaks,
         relayVars, agentVars
    <3>2. InOrder'
      BY <2>4, DropInOrder, SubscribeInOrder, ServeInOrder, AcceptInOrder, OthersInOrder
    <3>. QED  BY <3>1, <3>2 DEF Words!outboxVars
  <2>. QED  BY <2>1, <2>2, <2>3, <2>4
<1>. QED
  BY <1>1, <1>2, PTL DEF BuzzSpec, WordsInOrderOnce, Words!Outbox
=============================================================================
