------------------------------ MODULE MCSpeech ------------------------------
(* Small instances of the two workers' engines, which share no state, checked
   side by side: `part` says which one runs, the synthesizer or the
   recognizer. *)
EXTENDS Synthesis, Recognition, SequencesExt

VARIABLE part

all == << part, synthVars, recognitionVars >>

(* Trimmed texts of up to n symbols of an alphabet. *)
TextsOf(alphabet, n) ==
  {t \in BoundedSeq(alphabet, n) :
     t # <<>> => t[1] \notin Blank /\ t[Len(t)] \notin Blank}

(* Every short text, and longer ones where one kind of rule meets the lengths. *)
SmallTexts ==
  TextsOf({"w", "d", ".", ",", " ", "n", "|", "f", "u"}, 4)
    \union TextsOf({"w", ",", " ", "."}, 6)
    \union TextsOf({"d", ".", ",", " "}, 6)
    \union TextsOf({"w", "|", "n", " "}, 6)
    \union TextsOf({"w", "f", "u", " "}, 6)

(* A tokenizer that takes every symbol for a token, and a URL for two. *)
CountTokens(t, said, stop) ==
  Cardinality(said) + Cardinality({i \in said : t[i] = "u"}) + (IF stop THEN 1 ELSE 0)

FramesOf(tokens) == tokens + 1
TailOf(n) == IF n <= 1 THEN 2 ELSE 1

Synthesizes == part = "synthesizer" /\ SynthesisInit /\ RecognitionInit
Recognizes == part = "recognizer" /\ RecognitionInit /\ SynthesisInit /\ text = <<>>

MCSpeechInit == Synthesizes \/ Recognizes

MCSpeechNext ==
  \/ part = "synthesizer" /\ Synthesize /\ UNCHANGED << part, recognitionVars >>
  \/ part = "recognizer" /\ Recognize /\ UNCHANGED << part, synthVars >>

MCSpeechSpec == MCSpeechInit /\ [][MCSpeechNext]_all
=============================================================================
