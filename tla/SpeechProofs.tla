---------------------------- MODULE SpeechProofs ----------------------------
(***************************************************************************)
(* The two engines behind the workers, which share no state.               *)
(*                                                                         *)
(* The synthesizer is never given too much at once, for every tokenizer,   *)
(* every text and every budget in which a single character fits.  That a   *)
(* prompt in the making fits is kept by every step; that the complete ones *)
(* do follows, because only what fits is ever completed.                   *)
(*                                                                         *)
(* The recognizer makes its words of audio of the right time, for every    *)
(* ring, window, queue and number of turns.  Every hand-over that waits is *)
(* placed with regard to every request behind it: it is of no later        *)
(* session, and unless a cut comes in between, later than the last cut     *)
(* before that request's turn.  The worker's steps move the queue up by    *)
(* one place, which keeps this; that a text has nothing of an earlier      *)
(* session follows, because a turn begins after the cut that ended the     *)
(* one before.  An utterance that is still spoken is read as one whose     *)
(* finish is already queued, behind all that is.                           *)
(***************************************************************************)
EXTENDS Synthesis, Recognition, SequenceTheorems, WellFoundedInduction, TLAPS

----------------------------------------------------------------------------
(* The synthesizer *)

(* Fits, of a given text. *)
Small(t, said) == Tokens(t, said, t[Max(said)] \in {"w", "d"}) <= MaxTokens

LEMMA FitsIsSmall == \A said : Fits(said) <=> Small(text, said)
BY DEF Fits, PreparedTokens, EndsOpen, Small

(* One character is within the budget, with or without a full stop. *)
LEMMA LetterIsSmall ==
  ASSUME NEW t \in Reply, NEW i \in Said(t)
  PROVE  Small(t, {i})
<1>1. i \in Positions(t)
  BY DEF Said
<1>2. (t[Max({i})] \in {"w", "d"}) \in BOOLEAN
  OBVIOUS
<1>. QED  BY <1>1, <1>2, LetterAssumption DEF Small

(* The next character is one of those that are left. *)
LEMMA NextLetter ==
  ASSUME NEW t \in Reply, NEW rest \in SUBSET Said(t), rest # {}
  PROVE  Min(rest) \in rest
<1>1. rest \subseteq Nat
  <2>. DEFINE Symbols == {"w", "d", ".", ",", " ", "n", "|", "f", "u"}
  <2>1. t \in Seq(Symbols)
    BY SynthesisAssumption
  <2>. HIDE DEF Symbols
  <2>2. Len(t) \in Nat
    BY <2>1
  <2>. QED  BY <2>2 DEF Said, Positions
<1>2. \E n \in rest : \A m \in rest : n <= m
  <2>1. PICK n \in rest : \A m \in rest : ~ (<<m, n>> \in OpToRel(<, Nat))
    BY <1>1, NatLessThanWellFounded, WFMin
  <2>2. \A m \in rest : ~ (m < n)
    BY <1>1, <2>1 DEF OpToRel
  <2>. QED  BY <1>1, <2>2
<1>. QED  BY <1>2 DEF Min

(* Whatever is completed, or being filled, fits. *)
Budget ==
  /\ text \in Reply /\ refused = 0
  /\ words \subseteq Said(text) /\ letters \subseteq Said(text)
  /\ \E S : prompts \in Seq(S)
  /\ \A k \in DOMAIN prompts : Small(text, prompts[k])
  /\ current # {} => Small(text, current)

(* Completing a prompt that fits keeps all of them fitting. *)
LEMMA PushFits ==
  ASSUME NEW t, NEW S, NEW chunks \in Seq(S), NEW chunk,
         \A k \in DOMAIN chunks : Small(t, chunks[k]),
         chunk # {} => Small(t, chunk)
  PROVE  /\ \E R : Push(chunks, chunk) \in Seq(R)
         /\ \A k \in DOMAIN Push(chunks, chunk) : Small(t, Push(chunks, chunk)[k])
         /\ \E R : Append(chunks, chunk) \in Seq(R)
         /\ chunk # {} => \A k \in DOMAIN Append(chunks, chunk) : Small(t, Append(chunks, chunk)[k])
<1>1. chunks \in Seq(S \cup {chunk}) /\ Append(chunks, chunk) \in Seq(S \cup {chunk})
  OBVIOUS
<1>2. chunk # {} => \A k \in DOMAIN Append(chunks, chunk) : Small(t, Append(chunks, chunk)[k])
  OBVIOUS
<1>. QED  BY <1>1, <1>2 DEF Push

LEMMA InitBudget == SynthesisInit => Budget
<1>. SUFFICES ASSUME SynthesisInit PROVE Budget
  OBVIOUS
<1>1. prompts \in Seq({}) /\ DOMAIN prompts = {}
  BY DEF SynthesisInit
<1>. QED  BY <1>1 DEF SynthesisInit, Budget

(* The steps of split_prompt and of the engine, one by one. *)
LEMMA NextBudget == Budget /\ [Synthesize]_synthVars => Budget'
<1>. SUFFICES ASSUME Budget, [Synthesize]_synthVars PROVE Budget'
  OBVIOUS
<1>1. CASE TakePhrase
  <2>. DEFINE said == Head(phrases) \intersect Said(text)
  <2>1. said \subseteq Said(text)
    OBVIOUS
  <2>2. CASE Fits(said)
    <3>1. prompts' = << said >> /\ UNCHANGED << text, words, letters, current, refused >>
      BY <1>1, <2>2 DEF TakePhrase
    <3>2. prompts' \in Seq({said}) /\ \A k \in DOMAIN prompts' : prompts'[k] = said
      BY <3>1
    <3>3. Small(text, said)
      BY <2>2, FitsIsSmall
    <3>. QED  BY <3>1, <3>2, <3>3 DEF Budget
  <2>3. CASE ~ Fits(said)
    <3>1. words' = said /\ UNCHANGED << text, prompts, letters, current, refused >>
      BY <1>1, <2>3 DEF TakePhrase
    <3>. QED  BY <2>1, <3>1 DEF Budget
  <2>. QED  BY <2>2, <2>3
<1>2. CASE AddWord
  <2>. DEFINE word == FirstWord(words)
  <2>1. word \subseteq Said(text) /\ words' \subseteq Said(text)
    BY <1>2 DEF AddWord, FirstWord, WordAt, Budget
  <2>2. UNCHANGED << text, refused >>
    BY <1>2 DEF AddWord
  <2>3. CASE Fits(current \union word)
    <3>1. current' = current \union word /\ UNCHANGED << letters, prompts >>
      BY <1>2, <2>3 DEF AddWord
    <3>2. Small(text, current')
      BY <2>3, <3>1, FitsIsSmall
    <3>. QED  BY <2>1, <2>2, <3>1, <3>2 DEF Budget
  <2>4. CASE ~ Fits(current \union word)
    <3>1. prompts' = Push(prompts, current)
      BY <1>2, <2>4 DEF AddWord
    <3>2. PICK S : prompts \in Seq(S)
      BY DEF Budget
    <3>3. /\ \E R : prompts' \in Seq(R)
          /\ \A k \in DOMAIN prompts' : Small(text, prompts'[k])
      BY <3>1, <3>2, PushFits DEF Budget
    <3>4. \/ Fits(word) /\ current' = word /\ letters' = letters
          \/ current' = {} /\ letters' = word
      BY <1>2, <2>4 DEF AddWord
    <3>5. current' # {} => Small(text, current')
      BY <3>4, FitsIsSmall
    <3>. QED  BY <2>1, <2>2, <3>3, <3>4, <3>5 DEF Budget
  <2>. QED  BY <2>3, <2>4
<1>3. CASE AddLetter
  <2>. DEFINE letter == {Min(letters)}
              full == current # {} /\ ~ Fits(current \union letter)
  <2>1. /\ letters # {} /\ letters' \subseteq Said(text)
        /\ UNCHANGED << text, words, refused >>
    BY <1>3 DEF AddLetter, Budget
  <2>2. Small(text, letter)
    BY <2>1, NextLetter, LetterIsSmall DEF Budget
  <2>3. CASE full
    <3>1. prompts' = Append(prompts, current) /\ current' = letter
      BY <1>3, <2>3 DEF AddLetter
    <3>2. PICK S : prompts \in Seq(S)
      BY DEF Budget
    <3>3. /\ \E R : prompts' \in Seq(R)
          /\ \A k \in DOMAIN prompts' : Small(text, prompts'[k])
      BY <2>3, <3>1, <3>2, PushFits DEF Budget
    <3>. QED  BY <2>1, <2>2, <3>1, <3>3 DEF Budget
  <2>4. CASE ~ full
    <3>1. prompts' = prompts /\ current' = current \union letter
      BY <1>3, <2>4 DEF AddLetter
    <3>2. Small(text, current')
      BY <2>2, <2>4, <3>1, FitsIsSmall
    <3>. QED  BY <2>1, <3>1, <3>2 DEF Budget
  <2>. QED  BY <2>3, <2>4
<1>4. CASE FinishSplit
  <2>. DEFINE all == Push(prompts, current)
  <2>1. PICK S : prompts \in Seq(S)
    BY DEF Budget
  <2>2. /\ \E R : all \in Seq(R)
        /\ \A k \in DOMAIN all : Small(text, all[k])
    BY <2>1, PushFits DEF Budget
  <2>3. \A k \in 1..Len(all) : Fits(all[k])
    BY <2>2, FitsIsSmall
  <2>4. prompts' = all /\ current' = {} /\ UNCHANGED << text, words, letters, refused >>
    BY <1>4, <2>3 DEF FinishSplit
  <2>. QED  BY <2>2, <2>4 DEF Budget
<1>5. CASE Generate \/ DecodeFrames
  BY <1>5 DEF Generate, DecodeFrames, Budget
<1>6. CASE PromptVoiced
  <2>1. prompts' = Tail(prompts) /\ UNCHANGED << text, words, letters, current, refused >>
    BY <1>6 DEF PromptVoiced
  <2>2. PICK S : prompts \in Seq(S)
    BY DEF Budget
  <2>3. \/ prompts = <<>> /\ prompts' = prompts
        \/ /\ prompts # <<>> /\ prompts' \in Seq(S)
           /\ \A k \in DOMAIN prompts' : k + 1 \in DOMAIN prompts /\ prompts'[k] = prompts[k + 1]
    BY <2>1, <2>2
  <2>. QED  BY <2>1, <2>3 DEF Budget
<1>7. CASE PhraseFails
  <2>1. /\ words' = {} /\ letters' = {} /\ current' = {} /\ prompts' = <<>>
        /\ UNCHANGED << text, refused >>
    BY <1>7 DEF PhraseFails
  <2>2. prompts' \in Seq({}) /\ DOMAIN prompts' = {}
    BY <2>1
  <2>. QED  BY <2>1, <2>2 DEF Budget
<1>8. CASE UNCHANGED synthVars
  BY <1>8 DEF synthVars, Budget
<1>. QED  BY <1>1, <1>2, <1>3, <1>4, <1>5, <1>6, <1>7, <1>8 DEF Synthesize

LEMMA BudgetIsKept == Budget => PromptsFit
BY FitsIsSmall DEF Budget, PromptsFit, Fits

(* split_prompt never has to refuse a phrase, and what generate_latents gets is
   never over MAX_TOKENS_PER_INFERENCE. *)
THEOREM PromptsAlwaysFit == SynthesisSpec => []PromptsFit
<1>1. SynthesisSpec => []Budget
  BY InitBudget, NextBudget, PTL DEF SynthesisSpec
<1>. QED  BY <1>1, BudgetIsKept, PTL

----------------------------------------------------------------------------
(* The recognizer *)

Requests ==
  [kind : {"audio"}, turn : Nat, frames : SUBSET Nat]
    \cup [kind : {"finish"}, turn : Nat] \cup [kind : {"reset"}]

OfATurn(r) == r.kind # "reset"
Speaking == state \in {"UserSpeaking", "Interrupting"}

(* The session a hand-over was captured in. *)
Source(p) == heard[fed[p]]

(* Nothing from the i-th request to the j-th makes the recognizer forget. *)
NoCut(q, i, j) == \A k \in i..j : q[k].kind = "audio"

(* The hand-overs a request brings; 0 stands for the recognizer itself. *)
Held(i) ==
  IF i = 0 THEN window \cup best
  ELSE IF requests[i].kind = "audio" THEN requests[i].frames ELSE {}

(* Whether words of a turn were shown, or may still be. *)
Spoken(i, t) ==
  IF i = 0 THEN t \in shown
  ELSE requests[i].kind = "audio" /\ requests[i].turn = t

ClockOK ==
  /\ session \in Nat /\ cut \in Nat /\ active \in Nat /\ preroll \in Seq(Nat)
  /\ heard \in Seq(Nat) /\ fed \in Seq(Nat)
  /\ begun \in Seq([session : Nat, after : Nat])
  /\ cut <= Len(fed) /\ active <= Turn
  /\ \A f \in 1..Len(heard) : heard[f] <= session
  /\ \A p \in 1..Len(fed) : fed[p] \in 1..Len(heard)
  /\ \A t \in 1..Turn : begun[t].session <= session /\ begun[t].after <= cut

(* The ring, the turn that is transcribed and what was handed over since the
   last cut are of this session; what was handed over after a turn began is not
   of an earlier session than it. *)
SessionOK ==
  /\ \A k \in 1..Len(preroll) :
       preroll[k] \in 1..Len(heard) /\ heard[preroll[k]] = session
  /\ active # NoTurn => begun[active].session = session
  /\ Speaking => active # NoTurn /\ begun[Turn].session = session
  /\ state = "Idle" => cut = Len(fed) /\ active = NoTurn
  /\ \A p \in 1..Len(fed) : cut < p => Source(p) = session
  /\ \A t \in 1..Turn : \A p \in 1..Len(fed) :
       begun[t].after < p => begun[t].session <= Source(p)

(* What waits ahead of a request of a turn is of no later session, and unless a
   cut comes in between, was handed over since the cut before the turn. *)
AheadOf(i, p, j) ==
  /\ Source(p) <= begun[requests[j].turn].session
  /\ NoCut(requests, i + 1, j - 1) => begun[requests[j].turn].after < p

InPlace(i, p) ==
  /\ p \in 1..Len(fed)
  /\ \A j \in 1..Len(requests) : i <= j /\ OfATurn(requests[j]) => AheadOf(i, p, j)
  /\ NoCut(requests, i + 1, Len(requests)) => cut < p

OrderOK ==
  /\ requests \in Seq(Requests)
  /\ \A j \in 1..Len(requests) : OfATurn(requests[j]) => requests[j].turn \in 1..Turn
  /\ \A i \in 0..Len(requests) : \A p \in Held(i) : InPlace(i, p)

(* Where a turn is finished: one that is still spoken, behind all that waits. *)
FinishAt(j, t) ==
  IF j \in 1..Len(requests) THEN requests[j].kind = "finish" /\ requests[j].turn = t
  ELSE Speaking /\ t = Turn

(* A finish in the j-th place finds the words of its turn. *)
FinishOK(j, t) ==
  \A i \in 0 .. j - 1 : Spoken(i, t) =>
    NoCut(requests, i + 1, j - 1) /\ (i = 0 => best # {})

ShownOK ==
  /\ shown \subseteq 1..Turn
  /\ \A j \in 1..Len(requests) + 1 : \A t \in 1..Turn : FinishAt(j, t) => FinishOK(j, t)

ResultOK ==
  result.text # {} =>
    /\ result.turn \in 1..Turn
    /\ \A p \in result.text :
         /\ p \in 1..Len(fed)
         /\ begun[result.turn].after < p
         /\ Source(p) = begun[result.turn].session

RecognitionInv ==
  ClockOK /\ SessionOK /\ OrderOK /\ ShownOK /\ ResultOK /\ SeenWordsAreKept

(* What an action of the orchestrator does: what has happened is added to, and
   the worker is not touched. *)
Grows ==
  /\ \A f \in 1..Len(heard) : f \in 1..Len(heard') /\ heard'[f] = heard[f]
  /\ \A p \in 1..Len(fed) : p \in 1..Len(fed') /\ fed'[p] = fed[p]
  /\ \A t \in 1..Turn : t \in 1..Turn' /\ begun'[t] = begun[t]
  /\ UNCHANGED workerVars

(* What a queue is longer by is audio of a turn. *)
Joins(queue, longer, turn, frames) ==
  /\ longer \in Seq(Requests)
  /\ \A k \in 1..Len(queue) : k \in 1..Len(longer) /\ longer[k] = queue[k]
  /\ \A k \in 1..Len(longer) : k \notin 1..Len(queue) =>
       /\ longer[k].kind = "audio" /\ longer[k].turn = turn /\ turn # NoTurn
       /\ longer[k].frames \subseteq frames

(* Nothing but audio of the turn that is transcribed joins the queue, and it is
   what is handed over in this step. *)
SendsAudio == Joins(requests, requests', active', Len(fed) + 1 .. Len(fed'))

----------------------------------------------------------------------------
LEMMA RequestKinds ==
  ASSUME NEW t \in Nat, NEW x \in SUBSET Nat
  PROVE  /\ Audio(t, x) \in Requests /\ Audio(t, x).kind = "audio"
         /\ Audio(t, x).turn = t /\ Audio(t, x).frames = x
         /\ Finish(t) \in Requests /\ Finish(t).kind = "finish" /\ Finish(t).turn = t
         /\ Reset \in Requests /\ Reset.kind = "reset"
BY DEF Requests, Audio, Finish, Reset

LEMMA RequestFields ==
  ASSUME NEW r \in Requests
  PROVE  /\ r.kind \in {"audio", "finish", "reset"}
         /\ r.kind = "audio" => r.frames \in SUBSET Nat
         /\ OfATurn(r) => r.turn \in Nat
BY DEF Requests, OfATurn

LEMMA RestOf ==
  ASSUME NEW S, NEW s \in Seq(S), s # <<>>
  PROVE  /\ Head(s) = s[1] /\ Tail(s) \in Seq(S) /\ Len(s) >= 1
         /\ Len(Tail(s)) = Len(s) - 1
         /\ \A i \in 1..Len(s) - 1 : Tail(s)[i] = s[i + 1]
OBVIOUS

LEMMA Appended ==
  ASSUME NEW S, NEW s \in Seq(S), NEW x \in S
  PROVE  /\ Append(s, x) \in Seq(S) /\ Append(s, x) # <<>>
         /\ Len(Append(s, x)) = Len(s) + 1 /\ Append(s, x)[Len(s) + 1] = x
         /\ \A i \in 1..Len(s) : Append(s, x)[i] = s[i]
OBVIOUS

(* Where a hand-over was captured stays as it was. *)
LEMMA SourceStays ==
  ASSUME ClockOK, Grows, NEW p \in 1..Len(fed)
  PROVE  Source(p)' = Source(p) /\ p \in 1..Len(fed')
BY DEF ClockOK, Grows, Source

LEMMA AudioSent ==
  ASSUME RecognitionInv, ClockOK', SessionOK', Grows, SendsAudio, cut' = cut,
         Speaking' => (Turn' = Turn + 1 \/ (Turn' = Turn /\ Speaking))
  PROVE  RecognitionInv'
<1>0. PICK m, n : m = Len(requests) /\ n = Len(requests')
  OBVIOUS
<1>1. /\ m \in Nat /\ n \in Nat /\ m <= n /\ Turn \in Nat /\ Turn' \in Nat
      /\ Len(fed) \in Nat /\ Len(fed') \in Nat /\ cut \in Nat /\ cut <= Len(fed)
      /\ Turn <= Turn' /\ Len(fed) <= Len(fed')
  <2>1. m \in Nat /\ n \in Nat
    BY <1>0 DEF RecognitionInv, OrderOK, SendsAudio, Joins
  <2>2. m <= n
    <3>1. CASE m = 0
      BY <2>1, <3>1
    <3>2. CASE m # 0
      BY <1>0, <2>1, <3>2 DEF SendsAudio, Joins
    <3>. QED  BY <3>1, <3>2
  <2>3. /\ Turn \in Nat /\ Turn' \in Nat /\ Len(fed) \in Nat /\ Len(fed') \in Nat
        /\ cut \in Nat /\ cut <= Len(fed)
    <3>1. /\ begun \in Seq([session : Nat, after : Nat]) /\ fed \in Seq(Nat)
          /\ cut \in Nat /\ cut <= Len(fed)
      BY DEF RecognitionInv, ClockOK
    <3>2. begun' \in Seq([session : Nat, after : Nat]) /\ fed' \in Seq(Nat)
      BY DEF ClockOK
    <3>. QED  BY <3>1, <3>2 DEF Turn
  <2>4. Turn <= Turn'
    <3>1. CASE Turn = 0
      BY <2>3, <3>1
    <3>2. CASE Turn # 0
      BY <2>3, <3>2 DEF Grows
    <3>. QED  BY <3>1, <3>2
  <2>5. Len(fed) <= Len(fed')
    <3>1. CASE Len(fed) = 0
      BY <2>3, <3>1
    <3>2. CASE Len(fed) # 0
      BY <2>3, <3>2 DEF Grows
    <3>. QED  BY <3>1, <3>2
  <2>. QED  BY <2>1, <2>2, <2>3, <2>4, <2>5
<1>2. /\ \A k \in 1..m : k \in 1..n /\ requests'[k] = requests[k]
      /\ \A k \in 1..n : k \notin 1..m =>
           /\ requests'[k].kind = "audio" /\ requests'[k].turn = active'
           /\ active' # NoTurn
           /\ requests'[k].frames \subseteq Len(fed) + 1 .. Len(fed')
  BY <1>0 DEF SendsAudio, Joins
<1>3. /\ \A p \in 1..Len(fed) : Source(p)' = Source(p) /\ p \in 1..Len(fed')
      /\ \A t \in 1..Turn : t \in 1..Turn' /\ begun'[t] = begun[t]
  BY SourceStays DEF RecognitionInv, Grows
<1>4. /\ \A p \in 1..Len(fed') : Source(p)' <= session'
      /\ session' \in Nat /\ active' \in Nat /\ active' <= Turn'
      /\ active' # NoTurn => begun'[active'].session = session'
      /\ \A t \in 1..Turn' : begun'[t].after <= cut /\ begun'[t].after \in Nat
                             /\ begun'[t].session \in Nat
  <2>1. \A p \in 1..Len(fed') : Source(p)' <= session'
    BY DEF ClockOK, Source
  <2>2. /\ session' \in Nat /\ active' \in Nat /\ active' <= Turn'
        /\ active' # NoTurn => begun'[active'].session = session'
    BY DEF ClockOK, SessionOK
  <2>3. ASSUME NEW t \in 1..Turn'
        PROVE  begun'[t].after <= cut /\ begun'[t] \in [session : Nat, after : Nat]
    <3>1. begun' \in Seq([session : Nat, after : Nat]) /\ t \in 1..Len(begun')
      BY <2>3 DEF ClockOK, Turn
    <3>2. begun'[t] \in [session : Nat, after : Nat]
      BY <3>1, ElementOfSeq
    <3>3. begun'[t].after <= cut'
      BY <2>3 DEF ClockOK
    <3>. QED  BY <3>2, <3>3
  <2>. QED  BY <2>1, <2>2, <2>3
<1>5. /\ window' = window /\ best' = best /\ shown' = shown /\ result' = result
  BY DEF Grows, workerVars
<1>6. /\ \A i \in 0..m : Held(i)' = Held(i)
      /\ \A i \in 0..n : i \notin 0..m => Held(i)' \subseteq Len(fed) + 1 .. Len(fed')
  <2>1. ASSUME NEW i \in 0..m PROVE Held(i)' = Held(i)
    BY <1>1, <1>2, <1>5 DEF Held
  <2>2. ASSUME NEW i \in 0..n, i \notin 0..m
        PROVE  Held(i)' \subseteq Len(fed) + 1 .. Len(fed')
    <3>1. i \in 1..n /\ i \notin 1..m /\ i # 0
      BY <1>1, <2>2
    <3>. QED  BY <1>2, <3>1 DEF Held
  <2>. QED  BY <2>1, <2>2
<1>7. /\ \A i, j \in 0..m + 1 : NoCut(requests', i + 1, j - 1) => NoCut(requests, i + 1, j - 1)
      /\ \A i \in 0..m : NoCut(requests, i + 1, m) => NoCut(requests', i + 1, n)
      /\ \A i \in 0..m : \A j \in m..n : NoCut(requests', i + 1, j) => NoCut(requests, i + 1, m)
      /\ \A i, j \in 0..m + 1 : NoCut(requests, i + 1, j - 1) => NoCut(requests', i + 1, j - 1)
  <2>1. ASSUME NEW i \in 0..m + 1, NEW j \in 0..m + 1
        PROVE  NoCut(requests', i + 1, j - 1) <=> NoCut(requests, i + 1, j - 1)
    <3>1. \A k \in i + 1 .. j - 1 : k \in 1..m
      BY <1>1, <2>1
    <3>. QED  BY <1>2, <3>1 DEF NoCut
  <2>2. ASSUME NEW i \in 0..m, NoCut(requests, i + 1, m) PROVE NoCut(requests', i + 1, n)
    <3>1. ASSUME NEW k \in i + 1 .. n PROVE requests'[k].kind = "audio"
      <4>1. k \in 1..n /\ (k \in 1..m => k \in i + 1 .. m)
        BY <1>1, <2>2, <3>1
      <4>2. CASE k \in 1..m
        BY <1>2, <2>2, <4>1, <4>2 DEF NoCut
      <4>. QED  BY <1>2, <4>1, <4>2
    <3>. QED  BY <3>1 DEF NoCut
  <2>3. ASSUME NEW i \in 0..m, NEW j \in m..n, NoCut(requests', i + 1, j) PROVE NoCut(requests, i + 1, m)
    <3>1. \A k \in i + 1 .. m : k \in 1..m /\ k \in i + 1 .. j
      BY <1>1, <2>3
    <3>. QED  BY <1>2, <2>3, <3>1 DEF NoCut
  <2>. QED  BY <2>1, <2>2, <2>3
<1>8. OrderOK
  BY DEF RecognitionInv
<1>9. OrderOK'
  <2>1. requests' \in Seq(Requests)
    BY DEF SendsAudio, Joins
  <2>2. ASSUME NEW j \in 1..n, OfATurn(requests'[j])
        PROVE  requests'[j].turn \in 1..Turn'
    <3>1. CASE j \in 1..m
      BY <1>0, <1>2, <1>3, <1>8, <2>2, <3>1 DEF OrderOK
    <3>2. CASE j \notin 1..m
      BY <1>1, <1>2, <1>4, <3>2 DEF NoTurn
    <3>. QED  BY <3>1, <3>2
  <2>3. ASSUME NEW i \in 0..n, NEW p \in Held(i)'
        PROVE  /\ p \in 1..Len(fed')
               /\ i \in 0..m \/ cut < p
               /\ i \in 0..m => p \in 1..Len(fed) /\ p \in Held(i)
    BY <1>0, <1>1, <1>3, <1>6, <1>8, <2>3 DEF OrderOK, InPlace
  <2>4. ASSUME NEW i \in 0..n, NEW p \in Held(i)', NEW j \in 1..n, i <= j, OfATurn(requests'[j])
        PROVE  Source(p)' <= begun'[requests'[j].turn].session
    <3>1. CASE j \in 1..m
      <4>1. i \in 0..m /\ requests'[j] = requests[j]
        BY <1>1, <1>2, <2>4, <3>1
      <4>2. p \in 1..Len(fed) /\ p \in Held(i)
        BY <2>3, <4>1, <2>4
      <4>3. Source(p) <= begun[requests[j].turn].session /\ requests[j].turn \in 1..Turn
        BY <1>0, <1>8, <2>4, <3>1, <4>1, <4>2 DEF OrderOK, InPlace, AheadOf
      <4>. QED  BY <1>3, <4>1, <4>2, <4>3
    <3>2. CASE j \notin 1..m
      BY <1>2, <1>4, <2>3, <2>4, <3>2
    <3>. QED  BY <3>1, <3>2
  <2>5. ASSUME NEW i \in 0..n, NEW p \in Held(i)', NEW j \in 1..n, i <= j, OfATurn(requests'[j]),
               NoCut(requests', i + 1, j - 1)
        PROVE  begun'[requests'[j].turn].after < p
    <3>1. CASE j \in 1..m
      <4>1. i \in 0..m /\ requests'[j] = requests[j]
        BY <1>1, <1>2, <2>5, <3>1
      <4>2. p \in 1..Len(fed) /\ p \in Held(i)
        BY <2>3, <4>1, <2>5
      <4>3. NoCut(requests, i + 1, j - 1)
        BY <1>1, <1>7, <2>5, <3>1, <4>1
      <4>4. begun[requests[j].turn].after < p /\ requests[j].turn \in 1..Turn
        BY <1>0, <1>8, <2>5, <3>1, <4>1, <4>2, <4>3 DEF OrderOK, InPlace, AheadOf
      <4>. QED  BY <1>3, <4>1, <4>4
    <3>2. CASE j \notin 1..m
      <4>1. cut < p
        <5>1. CASE i \in 0..m
          <6>1. NoCut(requests, i + 1, m)
            <7>1. j - 1 \in m..n
              BY <1>1, <3>2
            <7>. QED  BY <1>7, <2>5, <5>1, <7>1
          <6>2. p \in Held(i)
            BY <2>3, <2>5, <5>1
          <6>. QED  BY <1>0, <1>8, <5>1, <6>1, <6>2 DEF OrderOK, InPlace
        <5>2. CASE i \notin 0..m
          BY <2>3, <2>5, <5>2
        <5>. QED  BY <5>1, <5>2
      <4>2. p \in Nat /\ requests'[j].turn \in 1..Turn'
        BY <2>2, <2>3, <2>5, <1>1
      <4>3. begun'[requests'[j].turn].after <= cut /\ begun'[requests'[j].turn].after \in Nat
        BY <1>4, <4>2
      <4>. QED  BY <1>1, <4>1, <4>2, <4>3
    <3>. QED  BY <3>1, <3>2
  <2>6. ASSUME NEW i \in 0..n, NEW p \in Held(i)', NoCut(requests', i + 1, n)
        PROVE  cut' < p
    <3>1. CASE i \in 0..m
      <4>1. NoCut(requests, i + 1, m)
        BY <1>1, <1>7, <2>6, <3>1
      <4>2. p \in Held(i)
        BY <2>3, <2>6, <3>1
      <4>. QED  BY <1>0, <1>8, <3>1, <4>1, <4>2 DEF OrderOK, InPlace
    <3>2. CASE i \notin 0..m
      BY <2>3, <2>6, <3>2
    <3>. QED  BY <3>1, <3>2
  <2>7. ASSUME NEW i \in 0..n, NEW p \in Held(i)' PROVE InPlace(i, p)'
    <3>1. ASSUME NEW j \in 1..n, i <= j, OfATurn(requests'[j]) PROVE AheadOf(i, p, j)'
      BY <2>4, <2>5, <2>7, <3>1 DEF AheadOf
    <3>. QED  BY <1>0, <2>3, <2>6, <2>7, <3>1 DEF InPlace
  <2>. QED  BY <1>0, <2>1, <2>2, <2>7 DEF OrderOK
<1>10. ASSUME NEW t, NEW j \in 1..m + 1, FinishOK(j, t)
       PROVE  FinishOK(j, t)'
  <2>1. \A i \in 0 .. j - 1 : Spoken(i, t)' => Spoken(i, t)
    BY <1>1, <1>2, <1>5, <1>10 DEF Spoken
  <2>2. ASSUME NEW i \in 0 .. j - 1, Spoken(i, t)'
        PROVE  NoCut(requests', i + 1, j - 1) /\ (i = 0 => best' # {})
    <3>1. NoCut(requests, i + 1, j - 1) /\ (i = 0 => best # {})
      BY <1>10, <2>1, <2>2 DEF FinishOK
    <3>. QED  BY <1>1, <1>5, <1>7, <3>1
  <2>. QED  BY <2>2 DEF FinishOK
<1>11. ShownOK'
  <2>1. shown' \subseteq 1..Turn'
    BY <1>1, <1>5 DEF RecognitionInv, ShownOK
  <2>2. ASSUME NEW i \in 0..n, NEW t \in 1..Turn', Spoken(i, t)', i \in 0..m
        PROVE  t \in 1..Turn /\ Spoken(i, t)
    <3>1. Spoken(i, t)
      BY <1>1, <1>2, <1>5, <2>2 DEF Spoken
    <3>2. CASE i = 0
      BY <3>1, <3>2 DEF Spoken, RecognitionInv, ShownOK
    <3>3. CASE i # 0
      <4>1. i \in 1..m /\ requests[i].turn = t /\ requests[i].kind = "audio"
        BY <1>1, <2>2, <3>1, <3>3 DEF Spoken
      <4>. QED  BY <1>0, <1>8, <3>1, <4>1 DEF OrderOK, OfATurn
    <3>. QED  BY <3>1, <3>2, <3>3
  <2>3. ASSUME NEW j \in 1..m, NEW t \in 1..Turn', FinishAt(j, t)'
        PROVE  FinishOK(j, t)'
    <3>1. j \in 1..m /\ requests'[j] = requests[j] /\ FinishAt(j, t)
      BY <1>0, <1>1, <1>2, <2>3 DEF FinishAt
    <3>2. t \in 1..Turn
      <4>1. requests[j].kind = "finish" /\ requests[j].turn = t
        BY <1>0, <3>1 DEF FinishAt
      <4>. QED  BY <1>0, <1>8, <3>1, <4>1 DEF OrderOK, OfATurn
    <3>3. FinishOK(j, t)
      BY <1>0, <1>1, <3>1, <3>2 DEF RecognitionInv, ShownOK
    <3>. QED  BY <1>1, <1>10, <3>1, <3>3
  <2>4. ASSUME NEW j \in m + 1 .. n, NEW t \in 1..Turn', FinishAt(j, t)'
        PROVE  FALSE
    <3>1. j \in 1..n /\ j \notin 1..m
      BY <1>1, <2>4
    <3>. QED  BY <1>0, <1>2, <2>4, <3>1 DEF FinishAt
  <2>5. ASSUME NEW t \in 1..Turn', FinishAt(n + 1, t)'
        PROVE  FinishOK(n + 1, t)'
    <3>1. Speaking' /\ t = Turn' /\ (n + 1) - 1 = n
      BY <1>0, <1>1, <2>5 DEF FinishAt
    <3>2. ASSUME NEW i \in 0..n, Spoken(i, t)'
          PROVE  NoCut(requests', i + 1, n) /\ (i = 0 => best' # {})
      <4>1. CASE i \notin 0..m
        <5>1. i # 0 /\ \A k \in i + 1 .. n : k \in 1..n /\ k \notin 1..m
          BY <1>1, <3>2, <4>1
        <5>. QED  BY <1>2, <5>1 DEF NoCut
      <4>2. CASE i \in 0..m
        <5>1. Spoken(i, t) /\ t \in 1..Turn
          BY <2>2, <3>2, <4>2
        <5>2. Speaking /\ t = Turn
          BY <1>1, <3>1, <5>1
        <5>3. FinishAt(m + 1, t) /\ m + 1 \in 1..Len(requests) + 1 /\ (m + 1) - 1 = m
          BY <1>0, <1>1, <5>2 DEF FinishAt
        <5>4. FinishOK(m + 1, t)
          BY <5>1, <5>3 DEF RecognitionInv, ShownOK
        <5>5. NoCut(requests, i + 1, m) /\ (i = 0 => best # {})
          BY <4>2, <5>1, <5>3, <5>4 DEF FinishOK
        <5>. QED  BY <1>5, <1>7, <4>2, <5>5
      <4>. QED  BY <4>1, <4>2
    <3>. QED  BY <3>1, <3>2 DEF FinishOK
  <2>6. \A j \in 1..n + 1 : j \in 1..m \/ j \in m + 1 .. n \/ j = n + 1
    BY <1>1
  <2>7. \A j \in 1..n + 1 : \A t \in 1..Turn' : FinishAt(j, t)' => FinishOK(j, t)'
    BY <2>3, <2>4, <2>5, <2>6
  <2>. QED  BY <1>0, <2>1, <2>7 DEF ShownOK
<1>12. ResultOK'
  BY <1>3, <1>5 DEF RecognitionInv, ResultOK
<1>13. SeenWordsAreKept'
  BY <1>5 DEF RecognitionInv, SeenWordsAreKept
<1>. QED  BY <1>9, <1>11, <1>12, <1>13 DEF RecognitionInv

(* A request that makes the recognizer forget joins the queue. *)
LEMMA CutSent ==
  ASSUME RecognitionInv, ClockOK', SessionOK', Grows,
         UNCHANGED << session, fed, begun >>, cut' = Len(fed), ~ Speaking',
         NEW r \in Requests, requests' = Append(requests, r), r.kind # "audio",
         r.kind = "finish" => Speaking /\ r.turn = Turn /\ Turn # 0
  PROVE  RecognitionInv'
<1>0. PICK m : m = Len(requests)
  OBVIOUS
<1>1. /\ m \in Nat /\ Turn \in Nat /\ Turn' = Turn /\ Len(fed') = Len(fed) /\ Len(fed) \in Nat
      /\ Len(requests') = m + 1 /\ requests' \in Seq(Requests)
      /\ \A k \in 1..m : requests'[k] = requests[k]
      /\ requests'[m + 1] = r
  <2>1. requests \in Seq(Requests)
    BY DEF RecognitionInv, OrderOK
  <2>. QED  BY <1>0, <2>1, Appended DEF RecognitionInv, ClockOK, Turn
<1>2. /\ \A p \in 1..Len(fed) : Source(p)' = Source(p) /\ Source(p)' <= session'
      /\ \A t \in 1..Turn : begun'[t] = begun[t]
                            /\ begun'[t].after <= cut /\ begun'[t].after \in Nat
      /\ cut \in Nat
  <2>1. \A p \in 1..Len(fed) : Source(p)' = Source(p)
    BY SourceStays DEF RecognitionInv
  <2>2. \A p \in 1..Len(fed) : Source(p)' <= session'
    BY <1>1 DEF ClockOK, Source
  <2>3. ASSUME NEW t \in 1..Turn
        PROVE  begun[t].after <= cut /\ begun[t].after \in Nat
    <3>1. begun \in Seq([session : Nat, after : Nat]) /\ t \in 1..Len(begun)
      BY <2>3 DEF RecognitionInv, ClockOK, Turn
    <3>2. begun[t] \in [session : Nat, after : Nat]
      BY <3>1, ElementOfSeq
    <3>3. begun[t].after <= cut
      BY <2>3 DEF RecognitionInv, ClockOK
    <3>. QED  BY <3>2, <3>3
  <2>4. cut \in Nat
    BY DEF RecognitionInv, ClockOK
  <2>. QED  BY <2>1, <2>2, <2>3, <2>4
<1>3. /\ r.kind \in {"finish", "reset"}
      /\ OfATurn(r) => r.turn \in 1..Turn /\ begun'[r.turn].session = session'
  <2>1. r.kind \in {"finish", "reset"}
    BY RequestFields
  <2>2. ASSUME OfATurn(r) PROVE r.turn \in 1..Turn /\ begun'[r.turn].session = session'
    <3>1. Speaking /\ r.turn = Turn /\ Turn # 0
      BY <2>1, <2>2 DEF OfATurn
    <3>2. begun[Turn].session = session
      BY <3>1 DEF RecognitionInv, SessionOK
    <3>. QED  BY <1>1, <3>1, <3>2
  <2>. QED  BY <2>1, <2>2
<1>4. /\ window' = window /\ best' = best /\ shown' = shown /\ result' = result
  BY DEF Grows, workerVars
<1>5. /\ \A i \in 0..m : Held(i)' = Held(i)
      /\ Held(m + 1)' = {}
  BY <1>1, <1>3, <1>4 DEF Held
<1>6. /\ \A i, j \in 0..m + 1 : NoCut(requests', i + 1, j - 1) <=> NoCut(requests, i + 1, j - 1)
      /\ \A i \in 0..m : ~ NoCut(requests', i + 1, m + 1)
  <2>1. ASSUME NEW i \in 0..m + 1, NEW j \in 0..m + 1
        PROVE  NoCut(requests', i + 1, j - 1) <=> NoCut(requests, i + 1, j - 1)
    <3>1. \A k \in i + 1 .. j - 1 : k \in 1..m
      BY <1>1, <2>1
    <3>. QED  BY <1>1, <3>1 DEF NoCut
  <2>2. ASSUME NEW i \in 0..m PROVE ~ NoCut(requests', i + 1, m + 1)
    <3>1. m + 1 \in i + 1 .. m + 1
      BY <1>1, <2>2
    <3>. QED  BY <1>1, <3>1 DEF NoCut
  <2>. QED  BY <2>1, <2>2
<1>7. OrderOK
  BY DEF RecognitionInv
<1>8. OrderOK'
  <2>1. ASSUME NEW j \in 1..m + 1, OfATurn(requests'[j])
        PROVE  requests'[j].turn \in 1..Turn'
    <3>1. CASE j \in 1..m
      BY <1>0, <1>1, <1>7, <2>1, <3>1 DEF OrderOK
    <3>2. CASE j \notin 1..m
      BY <1>1, <1>3, <2>1, <3>2
    <3>. QED  BY <3>1, <3>2
  <2>2. ASSUME NEW i \in 0..m + 1, NEW p \in Held(i)'
        PROVE  InPlace(i, p)'
    <3>1. i \in 0..m /\ p \in Held(i)
      BY <1>1, <1>5, <2>2
    <3>2. InPlace(i, p)
      BY <1>0, <1>7, <3>1 DEF OrderOK
    <3>3. p \in 1..Len(fed) /\ p \in 1..Len(fed')
      BY <1>1, <3>2 DEF InPlace
    <3>4. ASSUME NEW j \in 1..m + 1, i <= j, OfATurn(requests'[j])
          PROVE  AheadOf(i, p, j)'
      <4>1. CASE j \in 1..m
        <5>1. AheadOf(i, p, j) /\ requests[j].turn \in 1..Turn /\ requests'[j] = requests[j]
          BY <1>0, <1>1, <1>7, <3>2, <3>4, <4>1 DEF OrderOK, InPlace
        <5>2. NoCut(requests', i + 1, j - 1) <=> NoCut(requests, i + 1, j - 1)
          <6>1. i \in 0..m + 1 /\ j \in 0..m + 1
            BY <1>1, <3>1, <4>1
          <6>. QED  BY <1>6, <6>1
        <5>3. Source(p)' = Source(p) /\ begun' = begun
          BY <1>2, <3>3
        <5>. QED  BY <5>1, <5>2, <5>3 DEF AheadOf
      <4>2. CASE j \notin 1..m
        <5>1. j = m + 1 /\ requests'[j] = r /\ OfATurn(r)
          BY <1>1, <3>4, <4>2
        <5>2. Source(p)' <= begun'[requests'[j].turn].session
          BY <1>2, <1>3, <3>3, <5>1
        <5>3. ASSUME NoCut(requests', i + 1, j - 1)
              PROVE  begun'[requests'[j].turn].after < p
          <6>1. NoCut(requests, i + 1, m)
            <7>1. (m + 1) - 1 = m /\ m + 1 \in 0..m + 1 /\ i \in 0..m + 1
              BY <1>1, <3>1
            <7>. QED  BY <1>6, <5>1, <5>3, <7>1
          <6>2. cut < p
            BY <1>0, <3>2, <6>1 DEF InPlace
          <6>3. begun'[requests'[j].turn].after <= cut /\ begun'[requests'[j].turn].after \in Nat
            BY <1>2, <1>3, <5>1
          <6>. QED  BY <1>1, <1>2, <3>3, <6>2, <6>3
        <5>. QED  BY <5>2, <5>3 DEF AheadOf
      <4>. QED  BY <4>1, <4>2
    <3>5. ~ NoCut(requests', i + 1, Len(requests'))
      BY <1>1, <1>6, <3>1
    <3>. QED  BY <1>1, <3>3, <3>4, <3>5 DEF InPlace
  <2>. QED  BY <1>1, <2>1, <2>2 DEF OrderOK
<1>9. ShownOK'
  <2>1. shown' \subseteq 1..Turn'
    BY <1>1, <1>4 DEF RecognitionInv, ShownOK
  <2>2. ASSUME NEW j \in 1..(m + 1) + 1, NEW t \in 1..Turn', FinishAt(j, t)'
        PROVE  FinishOK(j, t)'
    <3>1. j \in 1..m + 1
      BY <1>1, <2>2 DEF FinishAt
    <3>2. FinishAt(j, t) /\ t \in 1..Turn /\ j \in 1..Len(requests) + 1
      <4>1. CASE j \in 1..m
        BY <1>0, <1>1, <2>2, <4>1 DEF FinishAt
      <4>2. CASE j \notin 1..m
        <5>1. j = m + 1 /\ r.kind = "finish" /\ r.turn = t
          BY <1>1, <2>2, <3>1, <4>2 DEF FinishAt
        <5>. QED  BY <1>0, <1>1, <5>1 DEF FinishAt
      <4>. QED  BY <4>1, <4>2
    <3>3. FinishOK(j, t)
      BY <3>2 DEF RecognitionInv, ShownOK
    <3>4. ASSUME NEW i \in 0 .. j - 1, Spoken(i, t)'
          PROVE  NoCut(requests', i + 1, j - 1) /\ (i = 0 => best' # {})
      <4>1. i \in 0..m /\ j \in 0..m + 1 /\ i \in 0..m + 1
        BY <1>1, <3>1, <3>4
      <4>2. Spoken(i, t)
        BY <1>1, <1>4, <3>4, <4>1 DEF Spoken
      <4>3. NoCut(requests, i + 1, j - 1) /\ (i = 0 => best # {})
        BY <3>3, <3>4, <4>2 DEF FinishOK
      <4>. QED  BY <1>4, <1>6, <4>1, <4>3
    <3>. QED  BY <3>4 DEF FinishOK
  <2>. QED  BY <1>1, <2>1, <2>2 DEF ShownOK
<1>10. ResultOK'
  BY <1>1, <1>2, <1>4 DEF RecognitionInv, ResultOK
<1>11. SeenWordsAreKept'
  BY <1>4 DEF RecognitionInv, SeenWordsAreKept
<1>. QED  BY <1>8, <1>9, <1>10, <1>11 DEF RecognitionInv

(* The worker takes the request at the head; what has happened stays. *)
LEMMA Taken ==
  ASSUME RecognitionInv, requests # <<>>, requests' = Tail(requests), UNCHANGED orchestratorVars
  PROVE  /\ Len(requests) \in Nat /\ Len(requests) >= 1
         /\ Len(requests') = Len(requests) - 1 /\ requests' \in Seq(Requests)
         /\ Head(requests) = requests[1] /\ requests[1] \in Requests
         /\ \A k \in 1..Len(requests') : requests'[k] = requests[k + 1]
         /\ state' = state /\ session' = session /\ preroll' = preroll /\ active' = active
         /\ heard' = heard /\ fed' = fed /\ begun' = begun /\ cut' = cut
         /\ Turn' = Turn /\ Turn \in Nat /\ Len(fed) \in Nat /\ ClockOK' /\ SessionOK'
         /\ \A p : Source(p)' = Source(p)
<1>1. requests \in Seq(Requests)
  BY DEF RecognitionInv, OrderOK
<1>2. /\ state' = state /\ session' = session /\ preroll' = preroll /\ active' = active
      /\ heard' = heard /\ fed' = fed /\ begun' = begun /\ cut' = cut
  BY DEF orchestratorVars, historyVars
<1>3. /\ Len(requests) \in Nat /\ Len(requests) >= 1
      /\ Len(requests') = Len(requests) - 1 /\ requests' \in Seq(Requests)
      /\ Head(requests) = requests[1]
      /\ \A k \in 1..Len(requests') : requests'[k] = requests[k + 1]
  BY <1>1, RestOf
<1>4. requests[1] \in Requests
  BY <1>1, <1>3
<1>5. Turn' = Turn /\ \A p : Source(p)' = Source(p)
  BY <1>2 DEF Turn, Source
<1>6. Turn \in Nat /\ Len(fed) \in Nat
  BY DEF RecognitionInv, ClockOK, Turn
<1>7. ClockOK'
  BY <1>2, <1>5 DEF RecognitionInv, ClockOK
<1>8. SessionOK'
  BY <1>2, <1>5 DEF RecognitionInv, SessionOK, Speaking
<1>. QED  BY <1>2, <1>3, <1>4, <1>5, <1>6, <1>7, <1>8

(* What the recognizer takes over from the request at the head is as well placed
   with it as it was there, and what it forgets is not there any more. *)
LEMMA TakenKeepsOrder ==
  ASSUME RecognitionInv, requests # <<>>, requests' = Tail(requests), UNCHANGED orchestratorVars,
         \/ requests[1].kind = "audio" /\ Held(0)' \subseteq Held(0) \cup Held(1)
         \/ Held(0)' = {}
  PROVE  OrderOK'
<1>0. PICK m : m = Len(requests) - 1
  OBVIOUS
<1>1. /\ m \in Nat /\ Len(requests) = m + 1 /\ Len(requests') = m
      /\ requests' \in Seq(Requests)
      /\ \A k \in 1..m : requests'[k] = requests[k + 1]
      /\ begun' = begun /\ cut' = cut /\ fed' = fed /\ Turn' = Turn
      /\ \A p : Source(p)' = Source(p)
  BY <1>0, Taken
<1>2. OrderOK
  BY DEF RecognitionInv
<1>3. \A i \in 1..m : Held(i)' = Held(i + 1)
  <2>1. ASSUME NEW i \in 1..m PROVE Held(i)' = Held(i + 1)
    <3>1. i # 0 /\ i + 1 # 0
      BY <1>1
    <3>. QED  BY <1>1, <3>1 DEF Held
  <2>. QED  BY <2>1
<1>4. \A i, j \in 0..m + 1 : NoCut(requests', i + 1, j - 1) => NoCut(requests, (i + 1) + 1, j)
  <2>1. ASSUME NEW i \in 0..m + 1, NEW j \in 0..m + 1, NoCut(requests', i + 1, j - 1),
               NEW k \in (i + 1) + 1 .. j
        PROVE  requests[k].kind = "audio"
    <3>1. k - 1 \in i + 1 .. j - 1 /\ k - 1 \in 1..m /\ (k - 1) + 1 = k
      BY <1>1, <2>1
    <3>. QED  BY <1>1, <2>1, <3>1 DEF NoCut
  <2>. QED  BY <2>1 DEF NoCut
<1>5. ASSUME NEW j \in 1..m, OfATurn(requests'[j])
      PROVE  requests'[j].turn \in 1..Turn'
  <2>1. j + 1 \in 1..Len(requests)
    BY <1>1
  <2>. QED  BY <1>1, <1>2, <1>5, <2>1 DEF OrderOK
<1>6. ASSUME NEW i \in 0..m, NEW p \in Held(i)'
      PROVE  InPlace(i, p)'
  (* Where it was before. *)
  <2>1. PICK h \in 0..m + 1 :
          /\ p \in Held(h) /\ h <= i + 1
          /\ \A k \in h + 1 .. i + 1 : requests[k].kind = "audio"
    <3>1. CASE i # 0
      BY <1>1, <1>3, <1>6, <3>1
    <3>2. CASE i = 0
      <4>1. requests[1].kind = "audio" /\ p \in Held(0) \cup Held(1)
        BY <1>6, <3>2
      <4>2. 0 \in 0..m + 1 /\ 1 \in 0..m + 1
        BY <1>1
      <4>3. CASE p \in Held(0)
        <5>1. \A k \in 0 + 1 .. i + 1 : k = 1
          BY <3>2
        <5>. QED  BY <3>2, <4>1, <4>2, <4>3, <5>1
      <4>4. CASE p \in Held(1)
        <5>1. \A k \in 1 + 1 .. i + 1 : FALSE
          BY <3>2
        <5>. QED  BY <3>2, <4>2, <4>4, <5>1
      <4>. QED  BY <4>1, <4>3, <4>4
    <3>. QED  BY <3>1, <3>2
  <2>2. InPlace(h, p)
    BY <1>1, <1>2, <2>1 DEF OrderOK
  <2>3. \A j \in 0..m + 1 : NoCut(requests', i + 1, j - 1) => NoCut(requests, h + 1, j)
    <3>1. ASSUME NEW j \in 0..m + 1, NoCut(requests', i + 1, j - 1), NEW k \in h + 1 .. j
          PROVE  requests[k].kind = "audio"
      <4>1. NoCut(requests, (i + 1) + 1, j)
        <5>1. i \in 0..m + 1
          BY <1>1
        <5>. QED  BY <1>4, <3>1, <5>1
      <4>2. k \in h + 1 .. i + 1 \/ k \in (i + 1) + 1 .. j
        BY <1>1, <2>1, <3>1
      <4>. QED  BY <2>1, <4>1, <4>2 DEF NoCut
    <3>. QED  BY <3>1 DEF NoCut
  <2>4. ASSUME NEW j \in 1..m, i <= j, OfATurn(requests'[j])
        PROVE  AheadOf(i, p, j)'
    <3>1. /\ j + 1 \in 1..Len(requests) /\ requests'[j] = requests[j + 1] /\ h <= j + 1
          /\ (j + 1) - 1 = j /\ j \in 0..m + 1
      BY <1>1, <2>1, <2>4
    <3>2. AheadOf(h, p, j + 1)
      BY <2>2, <2>4, <3>1 DEF InPlace
    <3>3. /\ Source(p) <= begun[requests[j + 1].turn].session
          /\ NoCut(requests, h + 1, j) => begun[requests[j + 1].turn].after < p
      BY <3>1, <3>2 DEF AheadOf
    <3>4. NoCut(requests', i + 1, j - 1) => NoCut(requests, h + 1, j)
      BY <2>3, <3>1
    <3>. QED  BY <1>1, <3>1, <3>3, <3>4 DEF AheadOf
  <2>5. NoCut(requests', i + 1, m) => cut' < p
    <3>1. (m + 1) - 1 = m /\ m + 1 \in 0..m + 1
      BY <1>1
    <3>2. NoCut(requests', i + 1, m) => NoCut(requests, h + 1, m + 1)
      BY <2>3, <3>1
    <3>. QED  BY <1>1, <2>2, <3>2 DEF InPlace
  <2>6. p \in 1..Len(fed')
    BY <1>1, <2>2 DEF InPlace
  <2>. QED  BY <1>1, <2>4, <2>5, <2>6 DEF InPlace
<1>. QED  BY <1>1, <1>5, <1>6 DEF OrderOK

(* So are the words that were shown, or may still be. *)
LEMMA TakenKeepsShown ==
  ASSUME RecognitionInv, requests # <<>>, requests' = Tail(requests), UNCHANGED orchestratorVars,
         \/ /\ requests[1].kind = "audio"
            /\ shown' \subseteq shown \cup {requests[1].turn}
            /\ best # {} \/ shown' # shown => best' # {}
         \/ requests[1].kind # "audio" /\ shown' = shown
  PROVE  ShownOK'
<1>0. PICK m : m = Len(requests) - 1
  OBVIOUS
<1>1. /\ m \in Nat /\ Len(requests) = m + 1 /\ Len(requests') = m
      /\ requests[1] \in Requests
      /\ \A k \in 1..m : requests'[k] = requests[k + 1]
      /\ Turn' = Turn /\ state' = state
  BY <1>0, Taken
<1>2. shown' \subseteq 1..Turn'
  <2>1. shown \subseteq 1..Turn
    BY DEF RecognitionInv, ShownOK
  <2>2. requests[1].kind = "audio" => requests[1].turn \in 1..Turn
    <3>1. 1 \in 1..Len(requests)
      BY <1>1
    <3>. QED  BY <3>1 DEF RecognitionInv, OrderOK, OfATurn
  <2>. QED  BY <1>1, <2>1, <2>2
<1>3. ASSUME NEW j \in 1..m + 1, NEW t \in 1..Turn', FinishAt(j, t)'
      PROVE  FinishOK(j, t)'
  <2>1. j + 1 \in 1..Len(requests) + 1 /\ (j + 1) - 1 = j /\ j \in 0..m + 1
    BY <1>1
  <2>2. FinishAt(j + 1, t)
    <3>1. CASE j \in 1..m
      BY <1>1, <1>3, <2>1, <3>1 DEF FinishAt
    <3>2. CASE j \notin 1..m
      <4>1. j + 1 \notin 1..Len(requests)
        BY <1>1, <3>2
      <4>. QED  BY <1>1, <1>3, <3>2, <4>1 DEF FinishAt, Speaking
    <3>. QED  BY <3>1, <3>2
  <2>3. FinishOK(j + 1, t)
    BY <1>1, <2>1, <2>2 DEF RecognitionInv, ShownOK
  <2>4. ASSUME NEW h \in 0..j, Spoken(h, t)
        PROVE  NoCut(requests, h + 1, j) /\ (h = 0 => best # {})
    <3>1. h \in 0 .. (j + 1) - 1
      BY <1>1
    <3>. QED  BY <2>1, <2>3, <2>4, <3>1 DEF FinishOK
  <2>5. ASSUME NEW h \in 0..j, NEW i \in 0 .. j - 1, h <= i + 1, NoCut(requests, h + 1, j)
        PROVE  NoCut(requests', i + 1, j - 1)
    <3>1. ASSUME NEW k \in i + 1 .. j - 1 PROVE requests'[k].kind = "audio"
      <4>1. k \in 1..m /\ k + 1 \in h + 1 .. j
        BY <1>1, <2>5, <3>1
      <4>. QED  BY <1>1, <2>5, <4>1 DEF NoCut
    <3>. QED  BY <3>1 DEF NoCut
  <2>6. ASSUME NEW i \in 0 .. j - 1, Spoken(i, t)'
        PROVE  NoCut(requests', i + 1, j - 1) /\ (i = 0 => best' # {})
    <3>1. CASE i # 0
      <4>1. i + 1 \in 0..j /\ i \in 1..m /\ i + 1 # 0
        BY <1>1, <2>6, <3>1
      <4>2. Spoken(i + 1, t)
        BY <1>1, <2>6, <3>1, <4>1 DEF Spoken
      <4>3. NoCut(requests, (i + 1) + 1, j)
        BY <2>4, <4>1, <4>2
      <4>4. i + 1 <= i + 1
        BY <4>1
      <4>. QED  BY <2>5, <2>6, <3>1, <4>1, <4>3, <4>4
    <3>2. CASE i = 0
      <4>0. t \in shown' /\ 0 \in 0..j /\ 1 \in 0..j /\ 0 <= i + 1 /\ 1 <= i + 1
        BY <1>1, <2>6, <3>2 DEF Spoken
      <4>1. CASE t \in shown
        <5>1. NoCut(requests, 0 + 1, j) /\ best # {}
          BY <2>4, <4>0, <4>1 DEF Spoken
        <5>2. requests[1].kind = "audio"
          <6>1. 1 \in 0 + 1 .. j
            BY <1>1
          <6>. QED  BY <5>1, <6>1 DEF NoCut
        <5>3. best' # {}
          BY <5>1, <5>2
        <5>. QED  BY <2>5, <2>6, <4>0, <5>1, <5>3
      <4>2. CASE t \notin shown
        <5>1. requests[1].kind = "audio" /\ t = requests[1].turn /\ best' # {}
          BY <4>0, <4>2
        <5>2. Spoken(1, t)
          BY <5>1 DEF Spoken
        <5>3. NoCut(requests, 1 + 1, j)
          BY <2>4, <4>0, <5>2
        <5>. QED  BY <2>5, <2>6, <4>0, <5>1, <5>3
      <4>. QED  BY <4>1, <4>2
    <3>. QED  BY <3>1, <3>2
  <2>. QED  BY <2>6 DEF FinishOK
<1>. QED  BY <1>1, <1>2, <1>3 DEF ShownOK

(* What the worker makes of audio or of a finish at the head is of the time of
   its turn. *)
LEMMA HeadIsOfItsTime ==
  ASSUME RecognitionInv, requests # <<>>, OfATurn(requests[1]),
         NEW p \in Held(0) \cup Held(1)
  PROVE  /\ requests[1].turn \in 1..Turn /\ p \in 1..Len(fed)
         /\ begun[requests[1].turn].after < p
         /\ Source(p) = begun[requests[1].turn].session
<1>1. requests \in Seq(Requests) /\ 1 \in 1..Len(requests) /\ 0 \in 0..Len(requests)
      /\ 1 \in 0..Len(requests)
  <2>1. requests \in Seq(Requests)
    BY DEF RecognitionInv, OrderOK
  <2>. QED  BY <2>1, RestOf
<1>2. PICK i \in {0, 1} : p \in Held(i)
  OBVIOUS
<1>3. InPlace(i, p) /\ i <= 1 /\ requests[1].turn \in 1..Turn
  BY <1>1, <1>2 DEF RecognitionInv, OrderOK
<1>4. p \in 1..Len(fed) /\ AheadOf(i, p, 1)
  BY <1>1, <1>3 DEF InPlace
<1>5. NoCut(requests, i + 1, 1 - 1)
  <2>1. \A k \in i + 1 .. 1 - 1 : FALSE
    BY <1>2
  <2>. QED  BY <2>1 DEF NoCut
<1>6. begun[requests[1].turn].after < p /\ Source(p) <= begun[requests[1].turn].session
  BY <1>4, <1>5 DEF AheadOf
<1>7. begun[requests[1].turn].session <= Source(p)
  BY <1>3, <1>4, <1>6 DEF RecognitionInv, SessionOK
<1>8. Source(p) \in Nat /\ begun[requests[1].turn].session \in Nat
  <2>1. begun \in Seq([session : Nat, after : Nat]) /\ heard \in Seq(Nat)
        /\ requests[1].turn \in 1..Len(begun) /\ fed[p] \in 1..Len(heard)
    BY <1>3, <1>4 DEF RecognitionInv, ClockOK, Turn
  <2>2. begun[requests[1].turn] \in [session : Nat, after : Nat] /\ heard[fed[p]] \in Nat
    BY <2>1, ElementOfSeq
  <2>. QED  BY <2>2 DEF Source
<1>. QED  BY <1>3, <1>4, <1>6, <1>7, <1>8

LEMMA AudioStep ==
  ASSUME RecognitionInv, HandleAudio
  PROVE  RecognitionInv'
<1>1. /\ requests # <<>> /\ requests' = Tail(requests) /\ UNCHANGED orchestratorVars
      /\ Head(requests).kind = "audio"
  BY DEF HandleAudio
<1>2. PICK r : r = requests[1]
  OBVIOUS
<1>3. /\ Head(requests) = r /\ r \in Requests /\ r.kind = "audio" /\ OfATurn(r)
      /\ Turn' = Turn /\ begun' = begun /\ fed' = fed /\ ClockOK' /\ SessionOK'
      /\ \A p : Source(p)' = Source(p)
  BY <1>1, <1>2, Taken DEF OfATurn
<1>4. Held(0) = window \cup best /\ Held(1) = r.frames
  BY <1>2, <1>3 DEF Held
<1>5. /\ window' \subseteq window \cup r.frames
      /\ \/ UNCHANGED << best, shown, result >>
         \/ \E partial \in {window', {}} :
              /\ result'.kind = "partial" /\ result'.turn = r.turn /\ result'.text = partial
              /\ best' = IF partial = {} THEN best ELSE partial
              /\ shown' = IF partial = {} THEN shown ELSE shown \cup {r.turn}
  <2>1. window' = Pushed(r.frames)
    BY <1>3 DEF HandleAudio
  <2>2. window' \subseteq window \cup r.frames
    BY <2>1 DEF Pushed
  <2>3. \/ UNCHANGED << best, shown, result >>
        \/ \E partial \in {window', {}} :
             /\ result' = [kind |-> "partial", turn |-> r.turn, text |-> partial]
             /\ best' = IF partial = {} THEN best ELSE partial
             /\ shown' = IF partial = {} THEN shown ELSE shown \cup {r.turn}
    BY <1>3, <2>1 DEF HandleAudio, Decoded
  <2>. QED  BY <2>2, <2>3
<1>6. OrderOK'
  <2>1. Held(0)' \subseteq Held(0) \cup Held(1)
    BY <1>4, <1>5 DEF Held
  <2>. QED  BY <1>1, <1>2, <1>3, <2>1, TakenKeepsOrder
<1>7. ShownOK'
  <2>1. /\ shown' \subseteq shown \cup {requests[1].turn}
        /\ best # {} \/ shown' # shown => best' # {}
    BY <1>2, <1>5
  <2>. QED  BY <1>1, <1>2, <1>3, <2>1, TakenKeepsShown
<1>8. ResultOK' /\ SeenWordsAreKept'
  <2>1. CASE UNCHANGED << best, shown, result >>
    <3>1. SeenWordsAreKept'
      BY <2>1 DEF RecognitionInv, SeenWordsAreKept
    <3>2. ResultOK'
      BY <1>3, <2>1 DEF RecognitionInv, ResultOK
    <3>. QED  BY <3>1, <3>2
  <2>2. CASE /\ result'.kind = "partial" /\ result'.turn = r.turn
             /\ result'.text = window' \/ result'.text = {}
    <3>1. SeenWordsAreKept'
      BY <2>2 DEF SeenWordsAreKept
    <3>2. ASSUME NEW p \in result'.text
          PROVE  /\ r.turn \in 1..Turn /\ p \in 1..Len(fed)
                 /\ begun[r.turn].after < p /\ Source(p) = begun[r.turn].session
      <4>1. p \in Held(0) \cup Held(1)
        BY <1>4, <1>5, <2>2, <3>2
      <4>. QED  BY <1>1, <1>2, <1>3, <4>1, HeadIsOfItsTime
    <3>3. result'.text # {} => r.turn \in 1..Turn
      BY <3>2
    <3>4. ResultOK'
      BY <1>3, <2>2, <3>2, <3>3 DEF ResultOK
    <3>. QED  BY <3>1, <3>4
  <2>. QED  BY <2>1, <2>2, <1>5
<1>. QED  BY <1>3, <1>6, <1>7, <1>8 DEF RecognitionInv

LEMMA FinalStep ==
  ASSUME RecognitionInv, HandleFinish
  PROVE  RecognitionInv'
<1>1. /\ requests # <<>> /\ requests' = Tail(requests) /\ UNCHANGED orchestratorVars
      /\ Head(requests).kind = "finish" /\ window' = {} /\ best' = {} /\ shown' = shown
  BY DEF HandleFinish
<1>2. PICK r : r = requests[1]
  OBVIOUS
<1>3. /\ Head(requests) = r /\ r \in Requests /\ r.kind = "finish" /\ OfATurn(r)
      /\ Turn' = Turn /\ begun' = begun /\ fed' = fed /\ ClockOK' /\ SessionOK'
      /\ \A p : Source(p)' = Source(p)
      /\ Len(requests) \in Nat /\ Len(requests) >= 1
  BY <1>1, <1>2, Taken DEF OfATurn
<1>4. OrderOK' /\ ShownOK'
  <2>1. Held(0)' = {}
    BY <1>1 DEF Held
  <2>. QED  BY <1>1, <1>2, <1>3, <2>1, TakenKeepsOrder, TakenKeepsShown
<1>5. PICK final \in {window, {}} :
        result' = [kind |-> "final", turn |-> r.turn, text |-> IF final = {} THEN best ELSE final]
  BY <1>3 DEF HandleFinish, Decoded
<1>6. result'.turn = r.turn /\ result'.text = IF final = {} THEN best ELSE final
  BY <1>5
<1>7. r.turn \in shown => best # {}
  <2>1. 1 \in 1..Len(requests) /\ 1 \in 1..Len(requests) + 1 /\ r.turn \in 1..Turn
    BY <1>2, <1>3 DEF RecognitionInv, OrderOK
  <2>2. FinishOK(1, r.turn)
    BY <1>2, <1>3, <2>1 DEF RecognitionInv, ShownOK, FinishAt
  <2>. QED  BY <2>2 DEF FinishOK, Spoken
<1>8. SeenWordsAreKept'
  BY <1>1, <1>6, <1>7 DEF SeenWordsAreKept
<1>9. ResultOK'
  <2>1. ASSUME NEW p \in result'.text
        PROVE  /\ r.turn \in 1..Turn /\ p \in 1..Len(fed)
               /\ begun[r.turn].after < p /\ Source(p) = begun[r.turn].session
    <3>1. p \in Held(0) \cup Held(1)
      BY <1>5, <1>6, <2>1 DEF Held
    <3>. QED  BY <1>1, <1>2, <1>3, <3>1, HeadIsOfItsTime
  <2>2. result'.text # {} => r.turn \in 1..Turn
    BY <2>1
  <2>. QED  BY <1>3, <1>6, <2>1, <2>2 DEF ResultOK
<1>. QED  BY <1>3, <1>4, <1>8, <1>9 DEF RecognitionInv

LEMMA ForgetStep ==
  ASSUME RecognitionInv, HandleReset
  PROVE  RecognitionInv'
<1>1. /\ requests # <<>> /\ requests' = Tail(requests) /\ UNCHANGED orchestratorVars
      /\ Head(requests).kind = "reset" /\ window' = {} /\ best' = {} /\ shown' = shown
      /\ result' = result
  BY DEF HandleReset
<1>2. /\ Head(requests) = requests[1] /\ requests[1].kind # "audio"
      /\ Turn' = Turn /\ begun' = begun /\ fed' = fed /\ ClockOK' /\ SessionOK'
      /\ \A p : Source(p)' = Source(p)
  BY <1>1, Taken
<1>3. OrderOK' /\ ShownOK'
  <2>1. Held(0)' = {}
    BY <1>1 DEF Held
  <2>. QED  BY <1>1, <1>2, <2>1, TakenKeepsOrder, TakenKeepsShown
<1>4. SeenWordsAreKept'
  BY <1>1 DEF RecognitionInv, SeenWordsAreKept
<1>5. ResultOK'
  BY <1>1, <1>2 DEF RecognitionInv, ResultOK
<1>. QED  BY <1>2, <1>3, <1>4, <1>5 DEF RecognitionInv

(* What the records hold. *)
LEMMA Records ==
  ASSUME ClockOK
  PROVE  /\ Turn \in Nat /\ Len(fed) \in Nat /\ Len(heard) \in Nat
         /\ \A f \in 1..Len(heard) : heard[f] \in Nat
         /\ \A t \in 1..Turn : begun[t].session \in Nat /\ begun[t].after \in Nat
<1>1. heard \in Seq(Nat) /\ fed \in Seq(Nat) /\ begun \in Seq([session : Nat, after : Nat])
  BY DEF ClockOK
<1>2. Turn \in Nat /\ Len(fed) \in Nat /\ Len(heard) \in Nat
  BY <1>1 DEF Turn
<1>3. ASSUME NEW t \in 1..Turn PROVE begun[t].session \in Nat /\ begun[t].after \in Nat
  <2>1. begun[t] \in [session : Nat, after : Nat]
    BY <1>1, <1>3, ElementOfSeq DEF Turn
  <2>. QED  BY <2>1
<1>. QED  BY <1>1, <1>2, <1>3, ElementOfSeq

(* A step of the orchestrator that says nothing to the recognizer. *)
LEMMA SilentStep ==
  ASSUME RecognitionInv, ClockOK', SessionOK',
         UNCHANGED << requests, heard, fed, begun, cut >>, UNCHANGED workerVars,
         Speaking' => Speaking
  PROVE  RecognitionInv'
<1>1. Grows
  BY DEF Grows, Turn
<1>2. SendsAudio
  BY DEF SendsAudio, Joins, RecognitionInv, OrderOK
<1>3. Turn' = Turn
  BY DEF Turn
<1>. QED  BY <1>1, <1>2, <1>3, AudioSent

LEMMA StartSessionStep ==
  ASSUME RecognitionInv, StartSession
  PROVE  RecognitionInv'
<1>1. /\ state = "Idle" /\ state' = "Listening" /\ session' = session + 1 /\ preroll' = <<>>
      /\ UNCHANGED << active, requests, heard, fed, begun, cut >> /\ UNCHANGED workerVars
  BY DEF StartSession, ClearPreRoll, historyVars
<1>2. Turn' = Turn /\ \A p : Source(p)' = Source(p)
  BY <1>1 DEF Turn, Source
<1>3. ClockOK /\ session \in Nat
  BY DEF RecognitionInv, ClockOK
<1>4. ClockOK'
  <2>1. \A f \in 1..Len(heard) : heard[f] <= session'
    BY <1>1, <1>3, Records DEF ClockOK
  <2>2. ASSUME NEW t \in 1..Turn
        PROVE  begun[t].session <= session' /\ begun[t].after <= cut
    <3>1. begun[t].session <= session /\ begun[t].after <= cut /\ begun[t].session \in Nat
      BY <1>3, Records DEF ClockOK
    <3>. QED  BY <1>1, <1>3, <3>1
  <2>3. preroll' \in Seq(Nat) /\ session' \in Nat
    BY <1>1, <1>3
  <2>. QED  BY <1>1, <1>2, <1>3, <2>1, <2>2, <2>3 DEF ClockOK
<1>5. SessionOK'
  <2>1. cut = Len(fed) /\ active = NoTurn
    BY <1>1 DEF RecognitionInv, SessionOK
  <2>2. \A p \in 1..Len(fed) : ~ (cut < p)
    BY <1>3, <2>1, Records
  <2>3. \A t \in 1..Turn : \A p \in 1..Len(fed) :
          begun[t].after < p => begun[t].session <= Source(p)
    BY DEF RecognitionInv, SessionOK
  <2>4. Len(preroll') = 0
    BY <1>1
  <2>. QED  BY <1>1, <1>2, <2>1, <2>2, <2>3, <2>4 DEF SessionOK, Speaking
<1>6. ~ Speaking'
  BY <1>1 DEF Speaking
<1>. QED  BY <1>1, <1>4, <1>5, <1>6, SilentStep

LEMMA QuietStep ==
  ASSUME RecognitionInv,
         \/ ConfirmBargeIn \/ RetractBargeIn \/ SubmitWords \/ BackToListening
         \/ UNCHANGED recognitionVars
  PROVE  RecognitionInv'
<1>1. /\ UNCHANGED << session, preroll, requests, heard, fed, begun, cut >>
      /\ UNCHANGED workerVars
  BY DEF ConfirmBargeIn, RetractBargeIn, SubmitWords, BackToListening,
         recognitionVars, historyVars, orchestratorVars
<1>2. /\ Speaking' => Speaking /\ active' # NoTurn
      /\ state' = "Idle" => state = "Idle"
      /\ active' = active \/ active' = NoTurn
      /\ state = "Idle" => active' = active
  <2>1. Speaking => active # NoTurn
    BY DEF RecognitionInv, SessionOK
  <2>2. \/ Speaking' => Speaking /\ active' = active
    BY DEF ConfirmBargeIn, RetractBargeIn, SubmitWords, BackToListening,
           recognitionVars, orchestratorVars, Speaking
  <2>3. /\ state' = "Idle" => state = "Idle"
        /\ active' = active \/ active' = NoTurn
        /\ state = "Idle" => active' = active
    BY DEF ConfirmBargeIn, RetractBargeIn, SubmitWords, BackToListening,
           recognitionVars, orchestratorVars
  <2>. QED  BY <2>1, <2>2, <2>3
<1>3. Turn' = Turn /\ \A p : Source(p)' = Source(p)
  BY <1>1 DEF Turn, Source
<1>4. ClockOK'
  <2>1. ClockOK /\ Turn \in Nat
    BY Records DEF RecognitionInv
  <2>2. active' \in Nat /\ active' <= Turn'
    BY <1>2, <1>3, <2>1 DEF ClockOK, NoTurn
  <2>. QED  BY <1>1, <1>3, <2>1, <2>2 DEF ClockOK
<1>5. SessionOK'
  BY <1>1, <1>2, <1>3 DEF RecognitionInv, SessionOK
<1>. QED  BY <1>1, <1>2, <1>4, <1>5, SilentStep

(* A frame goes into the ring, or none does. *)
LEMMA Captured ==
  ASSUME ClockOK, SessionOK, session' = session, Capture \/ NoCapture
  PROVE  /\ heard' \in Seq(Nat) /\ preroll' \in Seq(Nat)
         /\ \A f \in 1..Len(heard) : f \in 1..Len(heard') /\ heard'[f] = heard[f]
         /\ \A f \in 1..Len(heard') : heard'[f] <= session
         /\ \A k \in 1..Len(preroll') :
              preroll'[k] \in 1..Len(heard') /\ heard'[preroll'[k]] = session
         /\ Capture => Frame \in 1..Len(heard') /\ heard'[Frame] = session
<1>0. heard \in Seq(Nat) /\ preroll \in Seq(Nat) /\ session \in Nat /\ Len(heard) \in Nat
  BY DEF ClockOK
<1>1. CASE NoCapture
  BY <1>0, <1>1 DEF NoCapture, ClockOK, SessionOK, Capture
<1>2. CASE Capture
  <2>. DEFINE all == Append(preroll, Frame)
  <2>1. /\ heard' \in Seq(Nat) /\ Len(heard') = Len(heard) + 1 /\ heard'[Frame] = session
        /\ Frame = Len(heard) + 1 /\ Frame \in 1..Len(heard') /\ Frame \in Nat
        /\ \A f \in 1..Len(heard) : f \in 1..Len(heard') /\ heard'[f] = heard[f]
    BY <1>0, <1>2 DEF Capture, Frame
  <2>2. all \in Seq(Nat) /\ Len(all) \in Nat
    BY <1>0, <2>1
  <2>3. \A k \in 1..Len(all) : all[k] \in 1..Len(heard') /\ heard'[all[k]] = session
    <3>1. ASSUME NEW k \in 1..Len(all), k # Len(preroll) + 1
          PROVE  all[k] = preroll[k] /\ k \in 1..Len(preroll)
      <4>1. /\ Len(all) = Len(preroll) + 1 /\ Len(preroll) \in Nat
            /\ \A l \in 1..Len(preroll) : all[l] = preroll[l]
        BY <1>0, <2>1, Appended
      <4>2. k \in 1..Len(preroll)
        BY <3>1, <4>1
      <4>. QED  BY <4>1, <4>2
    <3>2. all[Len(preroll) + 1] = Frame
      BY <1>0, <2>1
    <3>. QED  BY <2>1, <3>1, <3>2 DEF SessionOK
  <2>. HIDE DEF all
  <2>4. preroll' = Newest(all)
    BY <1>2 DEF Capture, all
  <2>5. preroll' = all \/ (all # <<>> /\ preroll' = Tail(all))
    <3>1. CASE Len(all) > PreRollFrames
      <4>1. Len(all) # 0
        BY <2>2, <3>1, RecognitionAssumption
      <4>. QED  BY <2>4, <3>1, <4>1 DEF Newest
    <3>2. CASE ~ (Len(all) > PreRollFrames)
      BY <2>4, <3>2 DEF Newest
    <3>. QED  BY <3>1, <3>2
  <2>6. /\ preroll' \in Seq(Nat)
        /\ \A k \in 1..Len(preroll') : \E l \in 1..Len(all) : preroll'[k] = all[l]
    <3>1. CASE preroll' = all
      BY <2>2, <3>1
    <3>2. CASE all # <<>> /\ preroll' = Tail(all)
      <4>1. /\ preroll' \in Seq(Nat) /\ Len(preroll') = Len(all) - 1
            /\ \A k \in 1..Len(all) - 1 : preroll'[k] = all[k + 1]
        BY <2>2, <3>2, RestOf
      <4>2. \A k \in 1..Len(preroll') : k + 1 \in 1..Len(all) /\ preroll'[k] = all[k + 1]
        BY <2>2, <4>1
      <4>. QED  BY <4>1, <4>2
    <3>. QED  BY <2>5, <3>1, <3>2
  <2>7. \A k \in 1..Len(preroll') :
          preroll'[k] \in 1..Len(heard') /\ heard'[preroll'[k]] = session
    BY <2>3, <2>6
  <2>8. \A f \in 1..Len(heard') : heard'[f] <= session
    <3>1. ASSUME NEW f \in 1..Len(heard') PROVE heard'[f] <= session
      <4>1. f \in 1..Len(heard) \/ f = Frame
        BY <1>0, <2>1
      <4>2. CASE f \in 1..Len(heard)
        <5>1. heard'[f] = heard[f] /\ heard[f] <= session
          BY <2>1, <4>2 DEF ClockOK
        <5>. QED  BY <5>1
      <4>3. CASE f = Frame
        BY <1>0, <2>1, <4>3
      <4>. QED  BY <4>1, <4>2, <4>3
    <3>. QED  BY <3>1
  <2>. QED  BY <2>1, <2>6, <2>7, <2>8
<1>. QED  BY <1>1, <1>2

(* What is handed over in a step, of frames of this session. *)
HandsOver ==
  /\ fed' \in Seq(Nat)
  /\ \A p \in 1..Len(fed) : p \in 1..Len(fed') /\ fed'[p] = fed[p]
  /\ \A p \in 1..Len(fed') : p \notin 1..Len(fed) =>
       fed'[p] \in 1..Len(heard') /\ heard'[fed'[p]] = session

(* The turn that is transcribed is the one it was, or one that begins. *)
KeepsTurn == begun' = begun /\ active' = active /\ (Speaking' => Speaking)

BeginsTurn ==
  /\ begun' = Append(begun, [session |-> session, after |-> cut])
  /\ active' = Turn + 1 \/ (active' = active /\ active # NoTurn)

LEMMA TurnBegun ==
  ASSUME ClockOK, BeginsTurn
  PROVE  /\ begun' \in Seq([session : Nat, after : Nat]) /\ Turn' = Turn + 1 /\ Turn \in Nat
         /\ \A t \in 1..Turn : t \in 1..Turn' /\ begun'[t] = begun[t]
         /\ begun'[Turn + 1].session = session /\ begun'[Turn + 1].after = cut
         /\ active' \in Nat /\ active' # NoTurn /\ active' <= Turn'
<1>1. begun \in Seq([session : Nat, after : Nat]) /\ active \in Nat /\ active <= Turn
      /\ [session |-> session, after |-> cut] \in [session : Nat, after : Nat]
  BY DEF ClockOK
<1>2. /\ begun' \in Seq([session : Nat, after : Nat]) /\ Turn' = Turn + 1 /\ Turn \in Nat
      /\ \A t \in 1..Turn : t \in 1..Turn' /\ begun'[t] = begun[t]
      /\ begun'[Turn + 1] = [session |-> session, after |-> cut]
  BY <1>1, Appended DEF BeginsTurn, Turn
<1>3. active' \in Nat /\ active' # NoTurn /\ active' <= Turn'
  BY <1>1, <1>2 DEF BeginsTurn, NoTurn
<1>. QED  BY <1>2, <1>3

LEMMA SendingStep ==
  ASSUME RecognitionInv, Capture \/ NoCapture, HandsOver, SendsAudio, KeepsTurn \/ BeginsTurn,
         UNCHANGED << session, cut >>, UNCHANGED workerVars, state' # "Idle"
  PROVE  RecognitionInv'
<1>0. ClockOK /\ SessionOK
  BY DEF RecognitionInv
<1>1. /\ heard' \in Seq(Nat) /\ preroll' \in Seq(Nat)
      /\ \A f \in 1..Len(heard) : f \in 1..Len(heard') /\ heard'[f] = heard[f]
      /\ \A f \in 1..Len(heard') : heard'[f] <= session
      /\ \A k \in 1..Len(preroll') :
           preroll'[k] \in 1..Len(heard') /\ heard'[preroll'[k]] = session
  BY <1>0, Captured
<1>2. /\ begun' \in Seq([session : Nat, after : Nat]) /\ Turn' \in Nat /\ Turn \in Nat
      /\ \A t \in 1..Turn : t \in 1..Turn' /\ begun'[t] = begun[t]
      /\ \A t \in 1..Turn' : t \notin 1..Turn =>
           begun'[t].session = session /\ begun'[t].after = cut
      /\ active' \in Nat /\ active' <= Turn'
      /\ active' # NoTurn => begun'[active'].session = session
      /\ Speaking' => active' # NoTurn /\ begun'[Turn'].session = session
  <2>1. CASE KeepsTurn
    <3>1. Turn' = Turn /\ Turn \in Nat
      BY <2>1, <1>0, Records DEF KeepsTurn, Turn
    <3>. QED  BY <1>0, <2>1, <3>1 DEF KeepsTurn, ClockOK, SessionOK
  <2>2. CASE BeginsTurn
    <3>1. /\ begun' \in Seq([session : Nat, after : Nat]) /\ Turn' = Turn + 1 /\ Turn \in Nat
          /\ \A t \in 1..Turn : t \in 1..Turn' /\ begun'[t] = begun[t]
          /\ begun'[Turn + 1].session = session /\ begun'[Turn + 1].after = cut
          /\ active' \in Nat /\ active' # NoTurn /\ active' <= Turn'
      BY <1>0, <2>2, TurnBegun
    <3>2. ASSUME NEW t \in 1..Turn', t \notin 1..Turn
          PROVE  begun'[t].session = session /\ begun'[t].after = cut
      <4>1. t = Turn + 1
        BY <3>1, <3>2
      <4>. QED  BY <3>1, <4>1
    <3>3. begun'[active'].session = session
      <4>1. CASE active' = Turn + 1
        BY <3>1, <4>1
      <4>2. CASE active' = active /\ active # NoTurn
        <5>1. active \in 1..Turn
          BY <1>0, <3>1, <4>2 DEF ClockOK, NoTurn
        <5>. QED  BY <1>0, <3>1, <4>2, <5>1 DEF SessionOK
      <4>. QED  BY <2>2, <4>1, <4>2 DEF BeginsTurn
    <3>4. Turn' \in Nat /\ begun'[Turn'].session = session
      BY <3>1
    <3>. QED  BY <3>1, <3>2, <3>3, <3>4
  <2>. QED  BY <2>1, <2>2
<1>3. /\ fed' \in Seq(Nat) /\ Len(fed) \in Nat /\ Len(fed') \in Nat /\ Len(fed) <= Len(fed')
      /\ \A p \in 1..Len(fed) : p \in 1..Len(fed') /\ fed'[p] = fed[p]
      /\ \A p \in 1..Len(fed') : p \notin 1..Len(fed) =>
           fed'[p] \in 1..Len(heard') /\ heard'[fed'[p]] = session
  <2>1. fed' \in Seq(Nat) /\ Len(fed) \in Nat /\ Len(fed') \in Nat
    BY <1>0, Records DEF HandsOver
  <2>2. Len(fed) <= Len(fed')
    <3>1. CASE Len(fed) = 0
      BY <2>1, <3>1
    <3>2. CASE Len(fed) # 0
      <4>1. Len(fed) \in 1..Len(fed)
        BY <2>1, <3>2
      <4>. QED  BY <2>1, <4>1 DEF HandsOver
    <3>. QED  BY <3>1, <3>2
  <2>. QED  BY <2>1, <2>2 DEF HandsOver
<1>4. Grows
  BY <1>1, <1>2, <1>3 DEF Grows
<1>5. \A p \in 1..Len(fed) : Source(p)' = Source(p)
  BY <1>0, <1>4, SourceStays
<1>6. \A p \in 1..Len(fed') : p \notin 1..Len(fed) => Source(p)' = session
  BY <1>3 DEF Source
<1>7. ClockOK'
  <2>1. \A p \in 1..Len(fed') : fed'[p] \in 1..Len(heard')
    BY <1>0, <1>1, <1>3 DEF ClockOK
  <2>2. ASSUME NEW t \in 1..Turn'
        PROVE  begun'[t].session <= session /\ begun'[t].after <= cut
    <3>1. CASE t \in 1..Turn
      BY <1>0, <1>2, <3>1 DEF ClockOK
    <3>2. CASE t \notin 1..Turn
      <4>1. begun'[t].session = session /\ begun'[t].after = cut
        BY <1>2, <2>2, <3>2
      <4>2. session \in Nat /\ cut \in Nat /\ cut' = cut
        BY <1>0 DEF ClockOK
      <4>. QED  BY <4>1, <4>2
    <3>. QED  BY <3>1, <3>2
  <2>3. session \in Nat /\ cut \in Nat /\ cut <= Len(fed')
    BY <1>0, <1>3 DEF ClockOK
  <2>. QED  BY <1>1, <1>2, <1>3, <2>1, <2>2, <2>3 DEF ClockOK
<1>8. SessionOK'
  <2>1. ASSUME NEW p \in 1..Len(fed'), cut < p
        PROVE  Source(p)' = session
    BY <1>0, <1>5, <1>6, <2>1 DEF SessionOK
  <2>2. ASSUME NEW t \in 1..Turn', NEW p \in 1..Len(fed'), begun'[t].after < p
        PROVE  begun'[t].session <= Source(p)'
    <3>1. CASE Source(p)' = session
      BY <2>2, <3>1, <1>7 DEF ClockOK
    <3>2. CASE Source(p)' # session
      <4>1. p \in 1..Len(fed) /\ ~ (cut < p) /\ Source(p)' = Source(p)
        BY <1>5, <1>6, <2>1, <2>2, <3>2
      <4>2. t \in 1..Turn /\ begun'[t] = begun[t]
        BY <1>2, <2>2, <4>1
      <4>. QED  BY <1>0, <2>2, <4>1, <4>2 DEF SessionOK
    <3>. QED  BY <3>1, <3>2
  <2>. QED  BY <1>1, <1>2, <2>1, <2>2 DEF SessionOK
<1>9. Speaking' => (Turn' = Turn + 1 \/ (Turn' = Turn /\ Speaking))
  <2>1. CASE KeepsTurn
    BY <2>1 DEF KeepsTurn, Turn
  <2>2. CASE BeginsTurn
    BY <2>2, <1>0, TurnBegun
  <2>. QED  BY <2>1, <2>2
<1>. QED  BY <1>4, <1>7, <1>8, <1>9, AudioSent

LEMMA AudioJoins ==
  ASSUME NEW q \in Seq(Requests), NEW a \in Nat, a # NoTurn, NEW own \in SUBSET Nat,
         NEW x \in SUBSET own
  PROVE  Joins(q, q, a, own) /\ Joins(q, Append(q, Audio(a, x)), a, own)
<1>. DEFINE r == Append(q, Audio(a, x))
<1>1. /\ Audio(a, x) \in Requests /\ Audio(a, x).kind = "audio"
      /\ Audio(a, x).turn = a /\ Audio(a, x).frames = x
  BY RequestKinds
<1>2. /\ r \in Seq(Requests) /\ Len(r) = Len(q) + 1 /\ r[Len(q) + 1] = Audio(a, x)
      /\ \A k \in 1..Len(q) : r[k] = q[k]
      /\ Len(q) \in Nat
  BY <1>1, Appended
<1>. HIDE DEF r
<1>3. ASSUME NEW k \in 1..Len(r), k \notin 1..Len(q)
      PROVE  r[k] = Audio(a, x)
  <2>1. k = Len(q) + 1
    BY <1>2, <1>3
  <2>. QED  BY <1>2, <2>1
<1>4. \A k \in 1..Len(q) : k \in 1..Len(r)
  BY <1>2
<1>5. Joins(q, r, a, own)
  BY <1>1, <1>2, <1>3, <1>4 DEF Joins
<1>6. Joins(q, q, a, own)
  BY DEF Joins
<1>. QED  BY <1>5, <1>6 DEF r

LEMMA JoinsTwice ==
  ASSUME NEW p, NEW q, NEW r, NEW a, NEW own, Joins(p, q, a, own), Joins(q, r, a, own)
  PROVE  Joins(p, r, a, own)
<1>1. r \in Seq(Requests)
  BY DEF Joins
<1>2. \A k \in 1..Len(p) : k \in 1..Len(r) /\ r[k] = p[k]
  BY DEF Joins
<1>3. ASSUME NEW k \in 1..Len(r), k \notin 1..Len(p)
      PROVE  /\ r[k].kind = "audio" /\ r[k].turn = a /\ a # NoTurn
             /\ r[k].frames \subseteq own
  <2>1. CASE k \in 1..Len(q)
    BY <1>3, <2>1 DEF Joins
  <2>2. CASE k \notin 1..Len(q)
    BY <1>3, <2>2 DEF Joins
  <2>. QED  BY <2>1, <2>2
<1>. QED  BY <1>1, <1>2, <1>3 DEF Joins

LEMMA FramePushed ==
  ASSUME RecognitionInv, Capture, session' = session,
         NEW a \in Nat, a # NoTurn, a = active', PushFrame(a)
  PROVE  HandsOver /\ SendsAudio
<1>0. ClockOK /\ SessionOK /\ requests \in Seq(Requests) /\ Len(fed) \in Nat /\ fed \in Seq(Nat)
  BY DEF RecognitionInv, ClockOK, OrderOK
<1>1. Frame \in 1..Len(heard') /\ heard'[Frame] = session /\ Frame \in Nat
  <2>1. Frame \in Nat
    BY <1>0, Records DEF Frame
  <2>. QED  BY <1>0, <2>1, Captured
<1>2. fed' = Append(fed, Frame)
  BY DEF PushFrame
<1>3. /\ fed' \in Seq(Nat) /\ Len(fed') = Len(fed) + 1 /\ fed'[Len(fed) + 1] = Frame
      /\ \A p \in 1..Len(fed) : fed'[p] = fed[p]
  BY <1>0, <1>1, <1>2, Appended
<1>4. HandsOver
  <2>1. \A p \in 1..Len(fed') : p \notin 1..Len(fed) => p = Len(fed) + 1
    BY <1>0, <1>3
  <2>. QED  BY <1>0, <1>1, <1>3, <2>1 DEF HandsOver
<1>5. SendsAudio
  <2>1. PICK own : own = Len(fed) + 1 .. Len(fed')
    OBVIOUS
  <2>2. PICK x : x = {Len(fed) + 1}
    OBVIOUS
  <2>3. own \in SUBSET Nat /\ x \in SUBSET own
    BY <1>0, <1>3, <2>1, <2>2
  <2>4. requests' = requests \/ requests' = Append(requests, Audio(a, x))
    BY <2>2 DEF PushFrame, TrySend
  <2>5. Joins(requests, requests, a, own) /\ Joins(requests, Append(requests, Audio(a, x)), a, own)
    BY <1>0, <2>3, AudioJoins
  <2>6. Joins(requests, requests', a, own)
    BY <2>4, <2>5
  <2>. QED  BY <2>1, <2>6 DEF SendsAudio
<1>. QED  BY <1>4, <1>5

(* A step that hands nothing over. *)
LEMMA NothingPushed ==
  ASSUME RecognitionInv, UNCHANGED << fed, requests >>
  PROVE  HandsOver /\ SendsAudio
BY DEF RecognitionInv, ClockOK, OrderOK, HandsOver, SendsAudio, Joins

LEMMA ProcessFrameStep ==
  ASSUME RecognitionInv, ProcessFrame
  PROVE  RecognitionInv'
<1>1. /\ state # "Idle" /\ state' = state /\ Capture /\ active' = active /\ begun' = begun
      /\ session' = session /\ cut' = cut /\ UNCHANGED workerVars
      /\ IF Speaking THEN PushFrame(active) ELSE UNCHANGED << fed, requests >>
  BY DEF ProcessFrame, Speaking
<1>2. HandsOver /\ SendsAudio
  <2>1. CASE Speaking
    <3>1. active # NoTurn /\ active \in Nat
      BY <2>1 DEF RecognitionInv, SessionOK, ClockOK
    <3>. QED  BY <1>1, <2>1, <3>1, FramePushed
  <2>2. CASE ~ Speaking
    BY <1>1, <2>2, NothingPushed
  <2>. QED  BY <2>1, <2>2
<1>3. KeepsTurn
  BY <1>1 DEF KeepsTurn, Speaking
<1>. QED  BY <1>1, <1>2, <1>3, SendingStep

LEMMA TurnTaken ==
  ASSUME RecognitionInv, BeginTurn, active' = Transcribed(Turn + 1)
  PROVE  BeginsTurn /\ active' \in Nat /\ active' # NoTurn
<1>1. BeginsTurn
  BY DEF BeginsTurn, BeginTurn, Transcribed
<1>. QED  BY <1>1, TurnBegun DEF RecognitionInv

LEMMA SpeechStartStep ==
  ASSUME RecognitionInv, SpeechStart
  PROVE  RecognitionInv'
<1>1. /\ state' = "UserSpeaking" /\ Capture /\ BeginTurn /\ active' = Transcribed(Turn + 1)
      /\ PushFrame(active') /\ UNCHANGED << session, cut >> /\ UNCHANGED workerVars
  BY DEF SpeechStart
<1>2. BeginsTurn /\ active' \in Nat /\ active' # NoTurn
  BY <1>1, TurnTaken
<1>3. PICK a : a = active'
  OBVIOUS
<1>4. PushFrame(a)
  BY <1>1, <1>3 DEF PushFrame
<1>5. HandsOver /\ SendsAudio
  BY <1>1, <1>2, <1>3, <1>4, FramePushed
<1>. QED  BY <1>1, <1>2, <1>5, SendingStep

LEMMA PushToTalkStep ==
  ASSUME RecognitionInv, PushToTalk
  PROVE  RecognitionInv'
<1>1. /\ state' = "UserSpeaking" /\ BeginTurn /\ active' = Transcribed(Turn + 1)
      /\ UNCHANGED << heard, preroll, fed, requests >>
      /\ UNCHANGED << session, cut >> /\ UNCHANGED workerVars
  BY DEF PushToTalk
<1>2. BeginsTurn
  BY <1>1, TurnTaken
<1>3. HandsOver /\ SendsAudio
  BY <1>1, NothingPushed
<1>4. NoCapture
  BY <1>1 DEF NoCapture
<1>. QED  BY <1>1, <1>2, <1>3, <1>4, SendingStep

LEMMA BargeInStep ==
  ASSUME RecognitionInv, BargeIn
  PROVE  RecognitionInv'
<1>1. PICK last : last = Len(fed) + Len(preroll')
  OBVIOUS
<1>2. PICK a : a = active'
  OBVIOUS
<1>3. /\ state' = "Interrupting" /\ Capture /\ BeginTurn /\ a = Turn + 1
      /\ UNCHANGED << session, cut >> /\ UNCHANGED workerVars
      /\ fed' = fed \o preroll' \o << Frame >>
  BY <1>2 DEF BargeIn
<1>4. requests' = TrySend(Append(requests, Audio(a, Len(fed) + 1 .. last)), Audio(a, {last + 1}))
  BY <1>1, <1>2 DEF BargeIn
<1>5. BeginsTurn /\ a \in Nat /\ a # NoTurn
  <2>1. BeginsTurn
    BY <1>2, <1>3 DEF BeginsTurn, BeginTurn
  <2>. QED  BY <1>2, <2>1, TurnBegun DEF RecognitionInv
<1>6. /\ ClockOK /\ SessionOK /\ requests \in Seq(Requests)
      /\ Len(fed) \in Nat /\ fed \in Seq(Nat)
  BY DEF RecognitionInv, ClockOK, OrderOK
<1>7. /\ Frame \in 1..Len(heard') /\ heard'[Frame] = session /\ Frame \in Nat
      /\ preroll' \in Seq(Nat) /\ Len(preroll') \in Nat
      /\ \A k \in 1..Len(preroll') :
           preroll'[k] \in 1..Len(heard') /\ heard'[preroll'[k]] = session
  <2>1. Frame \in Nat
    BY <1>6, Records DEF Frame
  <2>. QED  BY <1>3, <1>6, <2>1, Captured
<1>8. /\ fed' \in Seq(Nat) /\ Len(fed') = last + 1 /\ last \in Nat /\ Len(fed) <= last
      /\ \A p \in 1..Len(fed) : fed'[p] = fed[p]
      /\ \A p \in Len(fed) + 1 .. last : fed'[p] = preroll'[p - Len(fed)]
      /\ fed'[last + 1] = Frame
  <2>1. PICK both : both = fed \o preroll'
    OBVIOUS
  <2>2. /\ both \in Seq(Nat) /\ Len(both) = last /\ last \in Nat /\ Len(fed) <= last
        /\ \A p \in 1..last :
             both[p] = IF p <= Len(fed) THEN fed[p] ELSE preroll'[p - Len(fed)]
    BY <1>1, <1>6, <1>7, <2>1, ConcatProperties
  <2>3. << Frame >> \in Seq(Nat) /\ Len(<< Frame >>) = 1 /\ << Frame >>[1] = Frame
    BY <1>7
  <2>4. /\ fed' \in Seq(Nat) /\ Len(fed') = last + 1
        /\ \A p \in 1..last + 1 :
             fed'[p] = IF p <= last THEN both[p] ELSE << Frame >>[p - last]
    BY <1>3, <2>1, <2>2, <2>3, ConcatProperties
  <2>5. \A p \in 1..last : fed'[p] = both[p]
    BY <2>2, <2>4
  <2>6. fed'[last + 1] = Frame
    BY <2>2, <2>3, <2>4
  <2>7. Len(fed) \in Nat
    BY <1>6
  <2>8. ASSUME NEW p \in 1..Len(fed) PROVE fed'[p] = fed[p]
    <3>1. p \in 1..last /\ p <= Len(fed)
      BY <2>2, <2>7, <2>8
    <3>. QED  BY <2>2, <2>5, <3>1
  <2>9. ASSUME NEW p \in Len(fed) + 1 .. last PROVE fed'[p] = preroll'[p - Len(fed)]
    <3>1. p \in 1..last /\ ~ (p <= Len(fed))
      BY <2>2, <2>7, <2>9
    <3>. QED  BY <2>2, <2>5, <3>1
  <2>. QED  BY <2>2, <2>4, <2>6, <2>8, <2>9
<1>9. HandsOver
  <2>1. \A p \in 1..Len(fed) : p \in 1..Len(fed')
    BY <1>6, <1>8
  <2>2. ASSUME NEW p \in 1..Len(fed'), p \notin 1..Len(fed)
        PROVE  fed'[p] \in 1..Len(heard') /\ heard'[fed'[p]] = session
    <3>1. CASE p = last + 1
      BY <1>7, <1>8, <3>1
    <3>2. CASE p # last + 1
      <4>1. p \in Len(fed) + 1 .. last /\ p - Len(fed) \in 1..Len(preroll')
        <5>1. p \in Nat /\ p <= last /\ Len(fed) < p
          BY <1>6, <1>8, <2>2, <3>2
        <5>2. Len(preroll') = last - Len(fed)
          BY <1>1, <1>6, <1>7
        <5>. QED  BY <1>6, <1>8, <5>1, <5>2
      <4>. QED  BY <1>7, <1>8, <4>1
    <3>. QED  BY <3>1, <3>2
  <2>. QED  BY <1>8, <2>1, <2>2 DEF HandsOver
<1>10. SendsAudio
  <2>1. PICK ring, again, own :
          ring = Len(fed) + 1 .. last /\ again = {last + 1} /\ own = Len(fed) + 1 .. Len(fed')
    OBVIOUS
  <2>2. own \in SUBSET Nat /\ ring \in SUBSET own /\ again \in SUBSET own
    BY <1>6, <1>8, <2>1
  <2>3. PICK q : q = Append(requests, Audio(a, ring))
    OBVIOUS
  <2>4. Joins(requests, q, a, own)
    BY <1>5, <1>6, <2>2, <2>3, AudioJoins
  <2>5. requests' = q \/ requests' = Append(q, Audio(a, again))
    BY <1>4, <2>1, <2>3 DEF TrySend
  <2>6. q \in Seq(Requests)
    BY <2>4 DEF Joins
  <2>7. Joins(q, q, a, own) /\ Joins(q, Append(q, Audio(a, again)), a, own)
    BY <1>5, <2>2, <2>6, AudioJoins
  <2>8. Joins(q, requests', a, own)
    BY <2>5, <2>7
  <2>9. Joins(requests, requests', a, own)
    BY <2>4, <2>8, JoinsTwice
  <2>. QED  BY <1>2, <2>1, <2>9 DEF SendsAudio
<1>. QED  BY <1>3, <1>5, <1>9, <1>10, SendingStep

(* What a request that cuts leaves. *)
LEMMA AfterCut ==
  ASSUME RecognitionInv, UNCHANGED << session, fed, begun >>, cut' = Len(fed),
         ~ Speaking', active' = active \/ active' = NoTurn,
         state' = "Idle" => active' = NoTurn,
         heard' \in Seq(Nat), preroll' \in Seq(Nat),
         \A f \in 1..Len(heard) : f \in 1..Len(heard') /\ heard'[f] = heard[f],
         \A f \in 1..Len(heard') : heard'[f] <= session,
         \A k \in 1..Len(preroll') :
           preroll'[k] \in 1..Len(heard') /\ heard'[preroll'[k]] = session
  PROVE  ClockOK' /\ SessionOK'
<1>0. ClockOK /\ SessionOK /\ cut \in Nat /\ Len(fed) \in Nat /\ cut <= Len(fed)
      /\ Turn' = Turn /\ Turn \in Nat
  BY Records DEF RecognitionInv, ClockOK, Turn
<1>1. ClockOK'
  <2>1. ASSUME NEW t \in 1..Turn PROVE begun[t].session <= session /\ begun[t].after <= cut'
    <3>1. begun[t].after \in Nat /\ begun[t].after <= cut /\ begun[t].session <= session
      BY <1>0, Records DEF ClockOK
    <3>. QED  BY <1>0, <3>1
  <2>2. active' \in Nat /\ active' <= Turn'
    BY <1>0 DEF ClockOK, NoTurn
  <2>3. \A p \in 1..Len(fed) : fed[p] \in 1..Len(heard')
    BY <1>0 DEF ClockOK
  <2>4. session \in Nat /\ fed \in Seq(Nat) /\ begun \in Seq([session : Nat, after : Nat])
    BY <1>0 DEF ClockOK
  <2>5. /\ session' \in Nat /\ cut' \in Nat /\ fed' \in Seq(Nat)
        /\ begun' \in Seq([session : Nat, after : Nat]) /\ cut' <= Len(fed')
    BY <1>0, <2>4
  <2>6. /\ \A p \in 1..Len(fed') : fed'[p] \in 1..Len(heard')
        /\ \A t \in 1..Turn' : begun'[t].session <= session' /\ begun'[t].after <= cut'
        /\ \A f \in 1..Len(heard') : heard'[f] <= session'
    BY <1>0, <2>1, <2>3
  <2>. QED  BY <2>2, <2>5, <2>6 DEF ClockOK
<1>2. SessionOK'
  <2>1. \A p \in 1..Len(fed) : Source(p)' = Source(p)
    BY <1>0 DEF ClockOK, Source
  <2>2. \A p \in 1..Len(fed) : ~ (cut' < p)
    BY <1>0
  <2>3. active' # NoTurn => begun[active'].session = session
    BY <1>0 DEF SessionOK
  <2>4. \A t \in 1..Turn : \A p \in 1..Len(fed) :
          begun[t].after < p => begun[t].session <= Source(p)'
    BY <1>0, <2>1 DEF SessionOK
  <2>. QED  BY <1>0, <2>2, <2>3, <2>4 DEF SessionOK
<1>. QED  BY <1>1, <1>2

LEMMA FinishStep ==
  ASSUME RecognitionInv, FinishUtterance
  PROVE  RecognitionInv'
<1>1. /\ state = "UserSpeaking" /\ state' = "Finalizing" /\ (Capture \/ NoCapture)
      /\ requests' = Append(requests, Finish(Turn)) /\ cut' = Len(fed)
      /\ UNCHANGED << session, active, fed, begun >> /\ UNCHANGED workerVars
  BY DEF FinishUtterance
<1>2. ClockOK /\ SessionOK /\ Turn \in Nat /\ Turn # 0
  <2>1. ClockOK /\ SessionOK
    BY DEF RecognitionInv
  <2>2. active # NoTurn /\ active \in Nat /\ active <= Turn /\ Turn \in Nat
    BY <1>1, <2>1, Records DEF SessionOK, ClockOK, Speaking
  <2>. QED  BY <2>1, <2>2 DEF NoTurn
<1>3. /\ heard' \in Seq(Nat) /\ preroll' \in Seq(Nat)
      /\ \A f \in 1..Len(heard) : f \in 1..Len(heard') /\ heard'[f] = heard[f]
      /\ \A f \in 1..Len(heard') : heard'[f] <= session
      /\ \A k \in 1..Len(preroll') :
           preroll'[k] \in 1..Len(heard') /\ heard'[preroll'[k]] = session
  BY <1>1, <1>2, Captured
<1>4. ~ Speaking' /\ Speaking
  BY <1>1 DEF Speaking
<1>5. ClockOK' /\ SessionOK'
  BY <1>1, <1>3, <1>4, AfterCut
<1>6. Grows
  BY <1>1, <1>3 DEF Grows, Turn
<1>7. Finish(Turn) \in Requests /\ Finish(Turn).kind = "finish" /\ Finish(Turn).turn = Turn
  BY <1>2, RequestKinds
<1>. QED  BY <1>1, <1>2, <1>4, <1>5, <1>6, <1>7, CutSent

LEMMA EndSessionStep ==
  ASSUME RecognitionInv, EndSession
  PROVE  RecognitionInv'
<1>1. /\ state' = "Idle" /\ active' = NoTurn /\ preroll' = <<>>
      /\ requests' = Append(requests, Reset) /\ cut' = Len(fed)
      /\ UNCHANGED << session, heard, fed, begun >> /\ UNCHANGED workerVars
  BY DEF EndSession, ClearPreRoll
<1>2. ~ Speaking'
  BY <1>1 DEF Speaking
<1>3. heard \in Seq(Nat) /\ \A f \in 1..Len(heard) : heard[f] <= session
  BY DEF RecognitionInv, ClockOK
<1>4. preroll' \in Seq(Nat) /\ Len(preroll') = 0
  BY <1>1
<1>5. ClockOK' /\ SessionOK'
  BY <1>1, <1>2, <1>3, <1>4, AfterCut
<1>6. Grows
  BY <1>1 DEF Grows, Turn
<1>7. Reset \in Requests /\ Reset.kind = "reset"
  BY RequestKinds
<1>. QED  BY <1>1, <1>2, <1>5, <1>6, <1>7, CutSent

LEMMA RecognitionInitInv == RecognitionInit => RecognitionInv
<1>. SUFFICES ASSUME RecognitionInit PROVE RecognitionInv
  OBVIOUS
<1>1. /\ heard = <<>> /\ fed = <<>> /\ begun = <<>> /\ requests = <<>> /\ preroll = <<>>
      /\ Len(heard) = 0 /\ Len(fed) = 0 /\ Turn = 0 /\ Len(requests) = 0 /\ Len(preroll) = 0
      /\ session = 0 /\ cut = 0 /\ active = 0 /\ state = "Idle"
      /\ window = {} /\ best = {} /\ shown = {} /\ result.text = {} /\ result.turn = 0
  BY DEF RecognitionInit, Turn, NoTurn
<1>2. ClockOK /\ SessionOK
  BY <1>1 DEF ClockOK, SessionOK, Speaking, NoTurn
<1>3. OrderOK
  <2>1. \A i \in 0..Len(requests) : Held(i) = {}
    BY <1>1 DEF Held
  <2>. QED  BY <1>1, <2>1 DEF OrderOK
<1>4. ShownOK
  BY <1>1 DEF ShownOK
<1>5. ResultOK /\ SeenWordsAreKept
  BY <1>1 DEF ResultOK, SeenWordsAreKept
<1>. QED  BY <1>2, <1>3, <1>4, <1>5 DEF RecognitionInv

LEMMA RecognitionStep == RecognitionInv /\ [Recognize]_recognitionVars => RecognitionInv'
<1>. SUFFICES ASSUME RecognitionInv, [Recognize]_recognitionVars PROVE RecognitionInv'
  OBVIOUS
<1>1. CASE StartSession
  BY <1>1, StartSessionStep
<1>2. CASE EndSession
  BY <1>2, EndSessionStep
<1>3. CASE ProcessFrame
  BY <1>3, ProcessFrameStep
<1>4. CASE SpeechStart
  BY <1>4, SpeechStartStep
<1>5. CASE PushToTalk
  BY <1>5, PushToTalkStep
<1>6. CASE BargeIn
  BY <1>6, BargeInStep
<1>7. CASE \/ ConfirmBargeIn \/ RetractBargeIn \/ SubmitWords \/ BackToListening
           \/ UNCHANGED recognitionVars
  BY <1>7, QuietStep
<1>8. CASE FinishUtterance
  BY <1>8, FinishStep
<1>9. CASE HandleAudio
  BY <1>9, AudioStep
<1>10. CASE HandleFinish
  BY <1>10, FinalStep
<1>11. CASE HandleReset
  BY <1>11, ForgetStep
<1>. QED  BY <1>1, <1>2, <1>3, <1>4, <1>5, <1>6, <1>7, <1>8, <1>9, <1>10, <1>11
           DEF Recognize, Orchestrate, Work

LEMMA RecognitionAlways == RecognitionSpec => []RecognitionInv
BY RecognitionInitInv, RecognitionStep, PTL DEF RecognitionSpec

(* A partial and a final are made of what was handed over since the recognizer
   was last told to finish or reset before their turn began, and of nothing of
   another session, however the queue fills, whatever is dropped, cut, replayed
   or decoded late (pipeline.rs, session preroll.rs, stt_worker.rs,
   recognizer.rs). *)
THEOREM TextsAreOfTheirTime == RecognitionSpec => []TextIsOfItsTime
<1>1. RecognitionInv => TextIsOfItsTime
  BY DEF RecognitionInv, ResultOK, TextIsOfItsTime, Source
<1>. QED  BY <1>1, RecognitionAlways, PTL

(* Words that were shown as a partial are not taken back by the last decode:
   the best partial of an utterance survives until its finish. *)
THEOREM WordsAreNotTakenBack == RecognitionSpec => []SeenWordsAreKept
<1>1. RecognitionInv => SeenWordsAreKept
  BY DEF RecognitionInv
<1>. QED  BY <1>1, RecognitionAlways, PTL
=============================================================================
