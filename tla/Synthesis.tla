----------------------------- MODULE Synthesis -----------------------------
(***************************************************************************)
(* A reply on its way to sound: the orchestrator cuts its text into        *)
(* phrases (Segmentation), the TTS worker takes them one by one, and the   *)
(* engine (buzztalk-tts/src/engine.rs) cuts a phrase that is too long for  *)
(* one inference into prompts, generates the frames of each prompt and     *)
(* decodes them a few at a time.                                           *)
(*                                                                         *)
(* A prompt is the set of the positions of the text it says; blanks only   *)
(* separate words.  The tokenizer is the operator Tokens: what it counts   *)
(* for a set of positions, with or without the full stop that              *)
(* prepare_prompt adds to text that ends in a letter or a digit.           *)
(***************************************************************************)
EXTENDS Segmentation, Functions

CONSTANTS
  Reply,                  \* the texts a reply can be
  Tokens(_, _, _),        \* tokens of (text, positions, with a full stop)
  MaxTokens,              \* MAX_TOKENS_PER_INFERENCE
  MaxFrames(_),           \* estimate_max_frames
  FramesAfterEos(_),      \* frames_after_eos, of the number of words
  DecoderChunk            \* DECODER_CHUNK_FRAMES

ASSUME SynthesisAssumption ==
  /\ Reply \subseteq Seq({"w", "d", ".", ",", " ", "n", "|", "f", "u"})
  /\ {MaxTokens, DecoderChunk} \subseteq Nat \ {0}

(* The budget of an inference has room for any one character and a full stop. *)
ASSUME LetterAssumption ==
  \A t \in Reply, stop \in BOOLEAN : \A i \in Positions(t) : Tokens(t, {i}, stop) <= MaxTokens

VARIABLES
  text,       \* the reply
  phrases,    \* its phrases the worker has not taken yet
  phase,      \* what the engine is doing
  words,      \* what is said in the phrase and is not in a prompt yet
  letters,    \* what is left of a word that is broken up
  current,    \* the prompt being filled
  prompts,    \* prompts of the phrase, complete
  latents,    \* frames generated for the first of them
  start,      \* where the decoder goes on in them
  sound,      \* how many of them are sound
  voiced,     \* the prompts that were turned into sound, in order
  refused,    \* phrases refused because a prompt was over the budget
  failed      \* phrases in which an inference or the tokenizer failed

synthVars == << text, phrases, phase, words, letters, current, prompts,
                latents, start, sound, voiced, refused, failed >>
Phase == {"idle", "words", "letters", "generate", "decode"}

----------------------------------------------------------------------------
(* prepare_prompt *)

EndsOpen(said) == text[Max(said)] \in {"w", "d"}
PreparedTokens(said) == Tokens(text, said, EndsOpen(said))
(* Mutated form: the full stop is not counted. *)
FitsUnprepared(said) == Tokens(text, said, FALSE) <= MaxTokens
Fits(said) == PreparedTokens(said) <= MaxTokens

(* The word of some text at a position, which ends at the blanks around it. *)
WordAt(said, i) ==
  {j \in said : \A k \in Min({i, j})..Max({i, j}) : text[k] \notin Blank}
FirstWord(said) == WordAt(said, Min(said))

Push(chunks, chunk) == IF chunk = {} THEN chunks ELSE Append(chunks, chunk)

----------------------------------------------------------------------------
(* The worker takes the next phrase.  One that fits is a prompt as it is. *)
TakePhrase ==
  /\ phase = "idle" /\ phrases # <<>>
  /\ phrases' = Tail(phrases)
  /\ LET said == Head(phrases) \intersect Said(text)
     IN  IF Fits(said)
           THEN /\ prompts' = << said >> /\ phase' = "generate"
                /\ UNCHANGED words
           ELSE /\ words' = said /\ phase' = "words"
                /\ UNCHANGED prompts
  /\ UNCHANGED << text, letters, current, latents, start, sound, voiced, refused, failed >>

(* split_prompt: the next word joins the prompt being filled, begins a new
   one, or is broken up. *)
AddWord ==
  /\ phase = "words" /\ words # {}
  /\ words' = words \ FirstWord(words)
  /\ LET word == FirstWord(words)
     IN  IF Fits(current \union word)
           THEN /\ current' = current \union word
                /\ UNCHANGED << phase, letters, prompts >>
           ELSE /\ prompts' = Push(prompts, current)
                /\ IF Fits(word)
                     THEN /\ current' = word
                          /\ UNCHANGED << phase, letters >>
                     ELSE /\ current' = {} /\ letters' = word
                          /\ phase' = "letters"
  /\ UNCHANGED << text, phrases, latents, start, sound, voiced, refused, failed >>

(* Mutated form: the letter that does not fit begins no new prompt. *)
AddLetterLosing ==
  /\ phase = "letters" /\ letters # {}
  /\ letters' = letters \ {Min(letters)}
  /\ LET letter == {Min(letters)}
         full == current # {} /\ ~ Fits(current \union letter)
     IN  /\ prompts' = IF full THEN Append(prompts, current) ELSE prompts
         /\ current' = IF full THEN {} ELSE current \union letter
         /\ phase' = IF letters = letter THEN "words" ELSE "letters"
  /\ UNCHANGED << text, phrases, words, latents, start, sound, voiced, refused, failed >>

AddLetter ==
  /\ phase = "letters" /\ letters # {}
  /\ letters' = letters \ {Min(letters)}
  /\ LET letter == {Min(letters)}
         full == current # {} /\ ~ Fits(current \union letter)
     IN  /\ prompts' = IF full THEN Append(prompts, current) ELSE prompts
         /\ current' = IF full THEN letter ELSE current \union letter
         /\ phase' = IF letters = letter THEN "words" ELSE "letters"
  /\ UNCHANGED << text, phrases, words, latents, start, sound, voiced, refused, failed >>

(* The last prompt is complete.  Every prompt is measured again, and one that
   is over the budget fails the whole phrase. *)
FinishSplit ==
  /\ phase = "words" /\ words = {}
  /\ LET all == Push(prompts, current)
     IN  IF \A i \in 1..Len(all) : Fits(all[i])
           THEN /\ prompts' = all /\ phase' = "generate"
                /\ UNCHANGED refused
           ELSE /\ prompts' = <<>> /\ phase' = "idle"
                /\ refused' = refused + 1
  /\ current' = {}
  /\ UNCHANGED << text, phrases, words, letters, latents, start, sound, voiced, failed >>

(* synth_chunk, generate_latents: the model says that the speech is over at
   frame eos, or not before the estimate runs out.  A few frames more are
   generated for the end of the sound. *)
Frames(max, eos, after) == IF eos + after < max THEN eos + after ELSE max
WordCount(said) == Cardinality({WordAt(said, i) : i \in said})

Generate ==
  /\ phase = "generate" /\ prompts # <<>>
  /\ LET said == Head(prompts)
         max == MaxFrames(PreparedTokens(said))
     IN  \E eos \in 0..max :
           latents' = Frames(max, eos, FramesAfterEos(WordCount(said)))
  /\ start' = 0 /\ sound' = 0 /\ phase' = "decode"
  /\ UNCHANGED << text, phrases, words, letters, current, prompts, voiced, refused, failed >>

(* decode_latents: one run of the decoder, which carries its state to the
   next; after the last the prompt is sound. *)
DecodeFrames ==
  /\ phase = "decode" /\ start < latents
  /\ sound' = sound + (Min({start + DecoderChunk, latents}) - start)
  /\ start' = start + DecoderChunk
  /\ UNCHANGED << text, phrases, phase, words, letters, current, prompts,
                  latents, voiced, refused, failed >>

PromptVoiced ==
  /\ phase = "decode" /\ start >= latents
  /\ voiced' = Append(voiced, Head(prompts))
  /\ prompts' = Tail(prompts)
  /\ latents' = 0 /\ start' = 0 /\ sound' = 0
  /\ phase' = IF Len(prompts) = 1 THEN "idle" ELSE "generate"
  /\ UNCHANGED << text, phrases, words, letters, current, refused, failed >>

(* The phrase the worker took last. *)
PhraseTaken == LET all == Segment(text) IN all[Len(all) - Len(phrases)]

(* An error on the way, in the tokenizer or in a network, ends synthesize_text:
   the sound made of the phrase so far goes with it, and the worker takes the
   next one. *)
PhraseFails ==
  /\ phase # "idle"
  /\ phase' = "idle" /\ failed' = failed \union {PhraseTaken}
  /\ voiced' = SelectSeq(voiced, LAMBDA said : ~ said \subseteq PhraseTaken)
  /\ words' = {} /\ letters' = {} /\ current' = {} /\ prompts' = <<>>
  /\ latents' = 0 /\ start' = 0 /\ sound' = 0
  /\ UNCHANGED << text, phrases, refused >>

SynthesisInit ==
  /\ text \in Reply /\ phrases = Segment(text)
  /\ phase = "idle"
  /\ words = {} /\ letters = {} /\ current = {} /\ prompts = <<>>
  /\ latents = 0 /\ start = 0 /\ sound = 0
  /\ voiced = <<>> /\ refused = 0 /\ failed = {}

Synthesize ==
  \/ TakePhrase \/ AddWord \/ AddLetter \/ FinishSplit
  \/ Generate \/ DecodeFrames \/ PromptVoiced \/ PhraseFails

SynthesisSpec == SynthesisInit /\ [][Synthesize]_synthVars

----------------------------------------------------------------------------
(* A cut never separates the two sides of a decimal point, the parts of a URL,
   the inside of a code fence or the rows of a table (segmentation.rs, rule 5),
   whatever the lengths ask for; and a phrase goes on past the absolute cap only as long
   as it is protected. *)
Between(c, d) == Max(c)..Min(d)
PhrasesAreWellCut ==
  LET fencesUpTo(i) == Cardinality({j \in 1..i : text[j] = "f"})
      inTable(i) == \E j \in Positions(text) :
                      text[j] = "|" /\ \A k \in Min({i, j})..Max({i, j}) : text[k] # "n"
  IN  /\ \A k \in 1..Len(phrases) - 1 :
           LET gap == Between(phrases[k], phrases[k + 1])
               left == Min(gap)
               right == Max(gap)
           IN  /\ fencesUpTo(left) % 2 = 0
               /\ right = left + 1 =>
                    /\ ~ (text[left] = "." /\ left > 1 /\ text[left - 1] = "d"
                                           /\ text[right] = "d")
                    /\ \A b \in 1..left :
                         text[b] = "u" /\ b..left \subseteq Said(text)
                           => \E j \in 1..b : text[j] = "f"
               /\ Cardinality({j \in gap : text[j] = "n"}) <= 1
                    => ~ (inTable(left) /\ inTable(right))
      /\ \A k \in 1..Len(phrases) :
           \A i \in phrases[k] :
             i - Min(phrases[k]) + 1 >= AbsoluteCap /\ i # Max(phrases[k])
               => i \in Protected(text)

(* Everything that is to be said is voiced, waits, or is being cut up, once and
   in the order of the text: cutting phrases and prompts, and decoding, lose
   nothing, however long a word is. *)
NothingUnsaid ==
  LET pieces == voiced \o prompts \o << current, letters, words >>
                  \o [k \in DOMAIN phrases |-> phrases[k] \intersect Said(text)]
  IN  /\ UNION Range(pieces) = Said(text) \ UNION failed
      /\ \A k, l \in DOMAIN pieces :
           k < l => \A i \in pieces[k], j \in pieces[l] : i < j
      /\ phase = "decode" /\ start >= latents => sound = latents

(* What the engine is given to generate is never over its budget, which
   synth_chunk would refuse, and no phrase is refused by the last measurement
   of its prompts: filling them up word by word, then letter by letter, is
   enough, though a prompt is spoken with a full stop it was not filled with. *)
PromptsFit ==
  /\ refused = 0
  /\ phase = "generate" => \A k \in DOMAIN prompts : PreparedTokens(prompts[k]) <= MaxTokens
=============================================================================
