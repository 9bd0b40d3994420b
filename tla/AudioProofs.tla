----------------------------- MODULE AudioProofs -----------------------------
(* The rings of the audio engine and the device watchdog, for every rate,     *)
(* every capacity and every frame length.                                     *)
(*                                                                            *)
(* Rings: a stream hands its samples over in order and without gaps, so that  *)
(* the k-th sample that waits has the number it would have had, or one larger *)
(* by at most what was dropped.  The echo reference keeps step with what is   *)
(* played because the two resamplers of the output callback move in opposite  *)
(* directions over the same interval: the sum of their positions says how far *)
(* the two streams are apart.                                                 *)
(*                                                                            *)
(* Watchdog: between two rebuilds the fingerprint is that of the devices that *)
(* were opened, and the silence it counts is never longer than the real one.  *)
EXTENDS AudioRings, DeviceWatch, SequenceTheorems, WellFoundedInduction, TLAPS

----------------------------------------------------------------------------
(* Arithmetic: the quotient and the remainder, and what multiples tell. *)
LEMMA DivMod ==
  ASSUME NEW a \in Nat, NEW b \in Nat \ {0}
  PROVE  /\ a \div b \in Nat /\ a % b \in 0..(b - 1)
         /\ a = b * (a \div b) + (a % b)
OBVIOUS

LEMMA FewMultiples ==
  ASSUME NEW b \in Nat \ {0}, NEW x \in Int, 0 <= b * x, b * x < 2 * b
  PROVE  x \in 0..1
<1>1. CASE x < 0
  <2>1. b * x <= b * (-1)
    BY <1>1
  <2>. QED  BY <2>1
<1>2. CASE x > 1
  <2>1. b * x >= b * 2
    BY <1>2
  <2>. QED  BY <2>1
<1>. QED  BY <1>1, <1>2

----------------------------------------------------------------------------
(* A queue of sample numbers: the k-th is k numbers after the base, or later
   by at most d. *)
Bracketed(q, base, d) ==
  \A k \in 1..Len(q) : base + k <= q[k] /\ q[k] <= base + k + d

LEMMA NumbersFrom ==
  ASSUME NEW made \in Nat, NEW n \in Nat
  PROVE  /\ [i \in 1..n |-> made + i] \in Seq(Nat)
         /\ Len([i \in 1..n |-> made + i]) = n
OBVIOUS

(* Numbers that follow on are put behind it. *)
LEMMA AppendBracketed ==
  ASSUME NEW q \in Seq(Nat), NEW base \in Nat, NEW d \in Nat, NEW d2 \in Nat, d <= d2,
         NEW made \in Nat, made = d + Len(q) + base, Bracketed(q, base, d),
         NEW new \in Seq(Nat), \A i \in 1..Len(new) : new[i] = made + i
  PROVE  /\ q \o new \in Seq(Nat) /\ Len(q \o new) = Len(q) + Len(new)
         /\ Bracketed(q \o new, base, d2)
<1>1. q \o new \in Seq(Nat) /\ Len(q \o new) = Len(q) + Len(new) /\ Len(q) \in Nat /\ Len(new) \in Nat
  OBVIOUS
<1>2. ASSUME NEW k \in 1..Len(q \o new)
      PROVE  base + k <= (q \o new)[k] /\ (q \o new)[k] <= base + k + d2
  <2>1. CASE k \in 1..Len(q)
    <3>1. (q \o new)[k] = q[k] /\ q[k] \in Nat
      BY <2>1
    <3>2. base + k <= q[k] /\ q[k] <= base + k + d
      BY <2>1 DEF Bracketed
    <3>. QED  BY <3>1, <3>2, SMTT(30)
  <2>2. CASE k \notin 1..Len(q)
    <3>1. k - Len(q) \in 1..Len(new)
      BY <2>2, <1>1
    <3>2. (q \o new)[k] = new[k - Len(q)]
      BY <3>1, <1>1
    <3>3. (q \o new)[k] = made + (k - Len(q))
      BY <3>1, <3>2
    <3>. QED  BY <3>3, <1>1
  <2>. QED  BY <2>1, <2>2
<1>. QED  BY <1>1, <1>2 DEF Bracketed

(* A frame is cut off its front. *)
LEMMA CutBracketed ==
  ASSUME NEW q \in Seq(Nat), NEW base \in Nat, NEW d \in Nat, Bracketed(q, base, d),
         NEW n \in Nat \ {0}, n <= Len(q)
  PROVE  /\ SubSeq(q, n + 1, Len(q)) \in Seq(Nat)
         /\ Len(SubSeq(q, n + 1, Len(q))) = Len(q) - n
         /\ Bracketed(SubSeq(q, n + 1, Len(q)), base + n, d)
         /\ SubSeq(q, 1, n) # <<>> /\ SubSeq(q, 1, n)[1] = q[1]
         /\ q[1] \in Nat /\ base + 1 <= q[1] /\ q[1] <= base + 1 + d
<1>. DEFINE left == SubSeq(q, n + 1, Len(q))
<1>1. left \in Seq(Nat) /\ Len(left) = Len(q) - n /\ Len(q) \in Nat
  OBVIOUS
<1>2. \A k \in 1..Len(left) : left[k] = q[k + n]
  BY <1>1
<1>3. SubSeq(q, 1, n) \in Seq(Nat) /\ Len(SubSeq(q, 1, n)) = n /\ SubSeq(q, 1, n)[1] = q[1]
  OBVIOUS
<1>. HIDE DEF left
<1>4. ASSUME NEW k \in 1..Len(left)
      PROVE  base + n + k <= left[k] /\ left[k] <= base + n + k + d
  <2>1. k + n \in 1..Len(q) /\ left[k] = q[k + n] /\ q[k + n] \in Nat
    BY <1>1, <1>2, SMTT(30)
  <2>2. base + (k + n) <= q[k + n] /\ q[k + n] <= base + (k + n) + d
    BY <2>1 DEF Bracketed
  <2>. QED  BY <2>1, <2>2, <1>1
<1>5. Bracketed(left, base + n, d)
  BY <1>4 DEF Bracketed
<1>6. q[1] \in Nat /\ base + 1 <= q[1] /\ q[1] <= base + 1 + d
  BY <1>1 DEF Bracketed
<1>. QED  BY <1>1, <1>3, <1>5, <1>6 DEF left
----------------------------------------------------------------------------
(* A stream: a ring and its reader. *)
Streams == [ring : Seq(Nat), made : Nat, dropped : Nat, partial : Seq(Nat), frames : Nat]

Waiting(s) == s.partial \o s.ring
Handed(s) == FrameSamples * s.frames

(* The k-th sample that waits has the number it would have without drops, or
   one larger by no more than there were drops. *)
InOrder(s) == Bracketed(Waiting(s), Handed(s), s.dropped)

(* The parts of a stream. *)
LEMMA StreamParts ==
  ASSUME NEW s \in Streams
  PROVE  /\ s.ring \in Seq(Nat) /\ s.partial \in Seq(Nat)
         /\ s.made \in Nat /\ s.dropped \in Nat /\ s.frames \in Nat
         /\ Waiting(s) \in Seq(Nat) /\ Len(Waiting(s)) = Len(s.partial) + Len(s.ring)
         /\ Handed(s) \in Nat
<1>1. /\ s.ring \in Seq(Nat) /\ s.partial \in Seq(Nat)
      /\ s.made \in Nat /\ s.dropped \in Nat /\ s.frames \in Nat
  BY DEF Streams
<1>2. Waiting(s) \in Seq(Nat) /\ Len(Waiting(s)) = Len(s.partial) + Len(s.ring)
  BY <1>1 DEF Waiting
<1>3. Handed(s) \in Nat
  BY <1>1, AudioAssumption DEF Handed
<1>. QED  BY <1>1, <1>2, <1>3

(* A stream, from its parts. *)
Made(t, ring, made, dropped, partial, frames, queue, handed, capacity) ==
  /\ ring \in Seq(Nat) /\ made \in Nat /\ dropped \in Nat
  /\ partial \in Seq(Nat) /\ frames \in Nat
  /\ t = [ring |-> ring, made |-> made, dropped |-> dropped,
          partial |-> partial, frames |-> frames]
  /\ handed = FrameSamples * frames /\ queue = partial \o ring
  /\ Len(ring) <= capacity /\ Len(partial) < FrameSamples
  /\ made = dropped + Len(ring) + Len(partial) + handed
  /\ Bracketed(queue, handed, dropped)

LEMMA StreamFrom ==
  ASSUME NEW t, NEW ring, NEW made, NEW dropped, NEW partial, NEW frames,
         NEW queue, NEW handed, NEW capacity,
         Made(t, ring, made, dropped, partial, frames, queue, handed, capacity)
  PROVE  /\ t \in Streams /\ Accounted(t, capacity) /\ InOrder(t)
         /\ t.made = made /\ t.dropped = dropped /\ t.frames = frames
<1>1. /\ t.ring = ring /\ t.made = made /\ t.dropped = dropped /\ t.partial = partial
      /\ t.frames = frames
  BY DEF Made
<1>2. t \in Streams
  BY DEF Made, Streams
<1>. QED  BY <1>1, <1>2, Zenon DEF Accounted, InOrder, Waiting, Handed, Made

(* What a callback does to a stream. *)
LEMMA PushKeepsOrder ==
  ASSUME NEW s \in Streams, NEW n \in Nat, NEW capacity \in Nat,
         Accounted(s, capacity), InOrder(s)
  PROVE  LET t == PushDropping(s, n, capacity)
         IN  /\ t \in Streams /\ Accounted(t, capacity) /\ InOrder(t)
             /\ t.made = s.made + n /\ t.frames = s.frames /\ s.dropped <= t.dropped
<1>. DEFINE ring == s.ring  made == s.made  dropped == s.dropped
            partial == s.partial  frames == s.frames
            queue == partial \o ring
            handed == FrameSamples * frames
            fits == IF capacity - Len(ring) < n THEN capacity - Len(ring) ELSE n
            new == [i \in 1..fits |-> made + i]
            t == PushDropping(s, n, capacity)
<1>1. /\ ring \in Seq(Nat) /\ partial \in Seq(Nat)
      /\ made \in Nat /\ dropped \in Nat /\ frames \in Nat
      /\ queue \in Seq(Nat) /\ Len(queue) = Len(partial) + Len(ring)
      /\ handed \in Nat
  BY StreamParts DEF Waiting, Handed
<1>2. /\ Len(ring) <= capacity /\ Len(partial) < FrameSamples
      /\ made = dropped + Len(ring) + Len(partial) + handed
  BY DEF Accounted
<1>3. Bracketed(queue, handed, dropped)
  BY DEF InOrder, Waiting, Handed
<1>4. t = [ring |-> ring \o new, made |-> made + n, dropped |-> dropped + n - fits,
           partial |-> partial, frames |-> frames]
  <2>1. t = [s EXCEPT !.ring = @ \o new, !.made = @ + n, !.dropped = @ + n - fits]
    BY DEF PushDropping
  <2>. HIDE DEF new, fits, t
  <2>2. s = [ring |-> ring, made |-> made, dropped |-> dropped,
             partial |-> partial, frames |-> frames]
    BY DEF Streams
  <2>. QED  BY <2>1, <2>2
<1>. HIDE DEF ring, made, dropped, partial, frames, handed, t
<1>5. Len(ring) \in Nat /\ Len(partial) \in Nat
  BY <1>1
<1>6. fits \in Nat /\ fits <= n /\ fits <= capacity - Len(ring)
  BY <1>1, <1>2, <1>5
<1>. HIDE DEF fits
<1>7. new \in Seq(Nat) /\ Len(new) = fits /\ \A i \in 1..Len(new) : new[i] = made + i
  BY <1>1, <1>6, NumbersFrom
<1>. HIDE DEF new
<1>. DEFINE longer == ring \o new
<1>8. longer \in Seq(Nat) /\ Len(longer) = Len(ring) + fits
  <2>1. ring \in Seq(Nat) /\ new \in Seq(Nat) /\ Len(new) = fits
    BY <1>1, <1>7
  <2>2. longer \in Seq(Nat) /\ Len(longer) = Len(ring) + Len(new)
    BY <2>1, SMTT(30)
  <2>. QED  BY <2>1, <2>2
<1>81. queue \o new = partial \o longer
  <2>1. ring \in Seq(Nat) /\ new \in Seq(Nat) /\ partial \in Seq(Nat)
    BY <1>1, <1>7
  <2>. QED  BY <2>1, ConcatAssociative, SMTT(30)
<1>. HIDE DEF queue, longer
<1>9. made + n \in Nat /\ dropped + n - fits \in Nat /\ dropped <= dropped + n - fits
  BY <1>1, <1>6
<1>10. Bracketed(queue \o new, handed, dropped + n - fits)
  <2>1. made = dropped + Len(queue) + handed
    BY <1>1, <1>2, <1>5
  <2>2. queue \in Seq(Nat) /\ handed \in Nat /\ dropped \in Nat /\ made \in Nat
    BY <1>1
  <2>. DEFINE d == dropped + n - fits
  <2>3. d \in Nat /\ dropped <= d /\ new \in Seq(Nat)
    BY <1>7, <1>9
  <2>. HIDE DEF d
  <2>4. Bracketed(queue \o new, handed, d)
    BY <2>1, <2>2, <2>3, <1>3, <1>7, AppendBracketed
  <2>. QED  BY <2>4 DEF d
<1>11. Len(longer) <= capacity
  BY <1>5, <1>6, <1>8
<1>12. made + n = (dropped + n - fits) + Len(longer) + Len(partial) + handed
  <2>1. made \in Nat /\ dropped \in Nat /\ handed \in Nat
    BY <1>1
  <2>. QED  BY <2>1, <1>2, <1>5, <1>6, <1>8
<1>13. t = [ring |-> longer, made |-> made + n, dropped |-> dropped + n - fits,
            partial |-> partial, frames |-> frames]
  BY <1>4 DEF longer
<1>14. /\ t \in Streams /\ Accounted(t, capacity) /\ InOrder(t)
       /\ t.made = made + n /\ t.dropped = dropped + n - fits /\ t.frames = frames
  <2>1. partial \in Seq(Nat) /\ frames \in Nat /\ handed = FrameSamples * frames
    BY <1>1 DEF handed
  <2>2. Len(partial) < FrameSamples
    BY <1>2
  <2>. DEFINE m == made + n  d == dropped + n - fits  q == queue \o new
  <2>3. /\ m \in Nat /\ d \in Nat /\ q = partial \o longer /\ Bracketed(q, handed, d)
        /\ m = d + Len(longer) + Len(partial) + handed
        /\ t = [ring |-> longer, made |-> m, dropped |-> d, partial |-> partial, frames |-> frames]
    BY <1>81, <1>9, <1>10, <1>12, <1>13
  <2>. HIDE DEF m, d, q
  <2>4. /\ t \in Streams /\ Accounted(t, capacity) /\ InOrder(t)
        /\ t.made = m /\ t.dropped = d /\ t.frames = frames
    <3>1. Made(t, longer, m, d, partial, frames, q, handed, capacity)
      BY <2>1, <2>2, <2>3, <1>8, <1>11, Zenon DEF Made
    <3>. QED  BY <3>1, StreamFrom
  <2>. QED  BY <2>4 DEF m, d
<1>. QED  BY <1>9, <1>14 DEF t, made, dropped, frames

(* What the reader does to it: a frame it hands over starts with the first
   sample that waited. *)
LEMMA RecvKeepsOrder ==
  ASSUME NEW s \in Streams, NEW capacity \in Nat,
         Accounted(s, capacity), InOrder(s)
  PROVE  LET r == TryRecv(s)
         IN  /\ r.to \in Streams /\ Accounted(r.to, capacity) /\ InOrder(r.to)
             /\ r.to.made = s.made /\ r.to.dropped = s.dropped
             /\ r.frame = <<>> => r.to.frames = s.frames
             /\ r.frame # <<>> =>
                  /\ r.to.frames = s.frames + 1
                  /\ r.frame[1] \in Nat
                  /\ Handed(s) + 1 <= r.frame[1]
                  /\ r.frame[1] <= Handed(s) + 1 + s.dropped
<1>. DEFINE ring == s.ring  made == s.made  dropped == s.dropped
            partial == s.partial  frames == s.frames
            have == partial \o ring
            handed == FrameSamples * frames
            r == TryRecv(s)
<1>1. /\ ring \in Seq(Nat) /\ partial \in Seq(Nat)
      /\ made \in Nat /\ dropped \in Nat /\ frames \in Nat
      /\ have \in Seq(Nat) /\ Len(have) = Len(partial) + Len(ring)
      /\ handed \in Nat
  BY StreamParts DEF Waiting, Handed
<1>2. /\ Len(ring) <= capacity /\ Len(partial) < FrameSamples
      /\ made = dropped + Len(ring) + Len(partial) + handed
  BY DEF Accounted
<1>3. Bracketed(have, handed, dropped)
  BY DEF InOrder, Waiting, Handed
<1>4. FrameSamples \in Nat \ {0}
  BY AudioAssumption
<1>5. CASE Len(have) < FrameSamples
  <2>1. /\ r.frame = <<>>
        /\ r.to = [ring |-> <<>>, made |-> made, dropped |-> dropped,
                   partial |-> have, frames |-> frames]
    BY <1>5 DEF TryRecv, Streams
  <2>. HIDE DEF ring, made, dropped, partial, frames, have, handed, r
  <2>2. <<>> \in Seq(Nat) /\ Len(<<>>) = 0 /\ have \o <<>> = have
    BY <1>1
  <2>3. Len(ring) \in Nat /\ Len(partial) \in Nat
    BY <1>1
  <2>4. made = dropped + Len(<<>>) + Len(have) + handed /\ Len(<<>>) <= capacity
    BY <2>2, <2>3, <1>1, <1>2
  <2>5. /\ r.to \in Streams /\ Accounted(r.to, capacity) /\ InOrder(r.to)
        /\ r.to.made = made /\ r.to.dropped = dropped /\ r.to.frames = frames
    <3>1. handed = FrameSamples * frames /\ have = have \o <<>>
      BY <2>2 DEF handed
    <3>2. Made(r.to, <<>>, made, dropped, have, frames, have, handed, capacity)
      BY <3>1, <2>1, <2>2, <2>4, <1>1, <1>3, <1>5, Zenon DEF Made
    <3>. QED  BY <3>2, StreamFrom
  <2>. QED  BY <2>1, <2>5 DEF r, made, dropped, frames
<1>6. CASE ~ (Len(have) < FrameSamples)
  <2>. DEFINE left == SubSeq(have, FrameSamples + 1, Len(have))
              frame == SubSeq(have, 1, FrameSamples)
  <2>1. /\ r.frame = frame
        /\ r.to = [ring |-> left, made |-> made, dropped |-> dropped,
                   partial |-> <<>>, frames |-> frames + 1]
    BY <1>6 DEF TryRecv, Streams
  <2>. HIDE DEF ring, made, dropped, partial, frames, have, handed, r
  <2>2. FrameSamples <= Len(have)
    BY <1>1, <1>4, <1>6
  <2>3. /\ left \in Seq(Nat) /\ Len(left) = Len(have) - FrameSamples
        /\ Bracketed(left, handed + FrameSamples, dropped)
        /\ frame # <<>> /\ frame[1] = have[1]
        /\ have[1] \in Nat /\ handed + 1 <= have[1] /\ have[1] <= handed + 1 + dropped
    BY <2>2, <1>1, <1>3, <1>4, CutBracketed
  <2>. HIDE DEF left, frame
  <2>4. <<>> \in Seq(Nat) /\ Len(<<>>) = 0 /\ <<>> \o left = left
    BY <2>3
  <2>. DEFINE more == handed + FrameSamples  count == frames + 1
  <2>5. more = FrameSamples * count /\ more \in Nat /\ count \in Nat
    BY <1>1, <1>4 DEF handed
  <2>6. Len(ring) \in Nat /\ Len(partial) \in Nat
    BY <1>1
  <2>7. /\ made = dropped + Len(left) + Len(<<>>) + more
        /\ Len(left) <= capacity /\ Len(<<>>) < FrameSamples
    <3>1. /\ Len(have) = Len(partial) + Len(ring) /\ dropped \in Nat /\ made \in Nat
          /\ handed \in Nat /\ Len(left) = Len(have) - FrameSamples
      BY <2>3, <1>1
    <3>. HIDE DEF handed
    <3>. QED  BY <3>1, <2>4, <2>6, <1>2, <1>4
  <2>8. left = <<>> \o left /\ Bracketed(left, more, dropped)
    BY <2>3, <2>4
  <2>9. r.to = [ring |-> left, made |-> made, dropped |-> dropped,
                partial |-> <<>>, frames |-> count]
    BY <2>1
  <2>. HIDE DEF more, count
  <2>10. /\ r.to \in Streams /\ Accounted(r.to, capacity) /\ InOrder(r.to)
         /\ r.to.made = made /\ r.to.dropped = dropped /\ r.to.frames = count
    <3>1. Made(r.to, left, made, dropped, <<>>, count, left, more, capacity)
      BY <2>3, <2>4, <2>5, <2>7, <2>8, <2>9, <1>1, Zenon DEF Made
    <3>. QED  BY <3>1, StreamFrom
  <2>. QED  BY <2>1, <2>3, <2>10 DEF r, count, made, dropped, frames, handed, Handed
<1>. QED  BY <1>5, <1>6

----------------------------------------------------------------------------
(* A resampler, and what a call makes of it. *)
Resamplers == [from : Nat \ {0}, to : Nat \ {0}, frac : Nat, primed : BOOLEAN]

(* push: as many outputs as lie before the end of the interval. *)
LEMMA OutputsCover ==
  ASSUME NEW from \in Nat \ {0}, NEW to \in Nat \ {0}, NEW frac \in Nat, NEW outs,
         outs = IF frac < to THEN (to - frac + from - 1) \div from ELSE 0
  PROVE  /\ outs \in Nat /\ outs * from \in Nat /\ frac + outs * from - to \in Nat
         /\ frac < from => frac + outs * from - to < from
<1>1. CASE frac < to
  <2>. DEFINE x == to - frac + from - 1
  <2>1. x \in Nat /\ outs = x \div from
    BY <1>1
  <2>. HIDE DEF x
  <2>2. outs \in Nat /\ x % from \in 0..(from - 1) /\ x = from * outs + (x % from)
    BY <2>1, DivMod
  <2>3. outs * from \in Nat /\ outs * from = from * outs
    BY <2>2
  <2>. DEFINE p == outs * from  rem == x % from
  <2>4. x = p + rem /\ rem \in 0..(from - 1) /\ p \in Nat
    BY <2>2, <2>3
  <2>. HIDE DEF p, rem
  <2>5. frac + p - to = from - 1 - rem
    BY <2>4 DEF x
  <2>. QED  BY <2>2, <2>4, <2>5 DEF p
<1>2. CASE ~ (frac < to)
  BY <1>2
<1>. QED  BY <1>1, <1>2

LEMMA PushedResampler ==
  ASSUME NEW r \in Resamplers
  PROVE  Pushed(r).to \in Resamplers /\ Pushed(r).emitted \in Nat
<1>. DEFINE from == r.from  to == r.to  frac == r.frac  outs == Outputs(r)
<1>1. from \in Nat \ {0} /\ to \in Nat \ {0} /\ frac \in Nat
  BY DEF Resamplers
<1>2. outs = IF frac < to THEN (to - frac + from - 1) \div from ELSE 0
  BY DEF Outputs
<1>3. r = [from |-> from, to |-> to, frac |-> frac, primed |-> r.primed]
  BY DEF Resamplers
<1>. DEFINE moved == frac + outs * from - to
<1>4. CASE from = to
  BY <1>4 DEF Pushed, Bypass
<1>5. CASE from # to /\ ~ r.primed
  BY <1>5 DEF Pushed, Bypass, Resamplers
<1>6. CASE from # to /\ r.primed
  <2>1. Pushed(r).emitted = outs /\ Pushed(r).to = [r EXCEPT !.frac = moved]
    BY <1>6 DEF Pushed, Bypass
  <2>. HIDE DEF from, to, frac, outs
  <2>2. outs \in Nat /\ moved \in Nat
    BY <1>1, <1>2, OutputsCover
  <2>. HIDE DEF moved
  <2>. QED  BY <2>1, <2>2 DEF Resamplers
<1>. QED  BY <1>4, <1>5, <1>6

----------------------------------------------------------------------------
(* The reference keeps step with what is played.  Once both resamplers of the
   output callback have started, the sum of their positions is a core interval
   and as many device intervals as the reference is behind, which is none or
   one. *)
Paced ==
  /\ out_side \in Resamplers /\ tap \in Resamplers
  /\ out_side.from = Native /\ tap.to = Native /\ out_side.to = tap.from
  /\ played \in Nat
  /\ tap.from = Native => played = render_ref.made
  /\ tap.from # Native /\ ~ out_side.primed =>
       ~ tap.primed /\ out_side.frac = 0 /\ tap.frac = 0 /\ played = 0 /\ render_ref.made = 0
  /\ tap.from # Native /\ out_side.primed =>
       /\ tap.primed
       /\ Native <= out_side.frac /\ out_side.frac < Native + tap.from
       /\ tap.frac < tap.from
       /\ out_side.frac + tap.frac = Native + tap.from * (1 + render_ref.made - played)

LEMMA PacedMeansClose ==
  ASSUME Paced, render_ref.made \in Nat
  PROVE  played - render_ref.made \in 0..1
<1>. DEFINE made == render_ref.made  rate == tap.from
            a == out_side.frac  f == tap.frac
<1>1. /\ played \in Nat /\ made \in Nat /\ rate \in Nat \ {0} /\ a \in Nat /\ f \in Nat
      /\ Native \in Nat \ {0}
  BY AudioAssumption DEF Paced, Resamplers
<1>2. CASE rate = Native
  <2>1. played = made
    BY <1>2 DEF Paced
  <2>. QED  BY <2>1, <1>1
<1>3. CASE rate # Native /\ ~ out_side.primed
  <2>1. played = 0 /\ made = 0
    BY <1>3 DEF Paced
  <2>. QED  BY <2>1
<1>4. CASE rate # Native /\ out_side.primed
  <2>1. /\ Native <= a /\ a < Native + rate /\ f < rate
        /\ a + f = Native + rate * (1 + made - played)
    BY <1>4 DEF Paced
  <2>. HIDE DEF made, rate, a, f
  <2>. DEFINE x == 1 + made - played
  <2>2. x \in Int
    BY <1>1
  <2>. HIDE DEF x
  <2>3. a + f = Native + rate * x /\ rate * x \in Int
    BY <2>1, <2>2, <1>1 DEF x
  <2>4. 0 <= rate * x /\ rate * x < 2 * rate
    BY <2>1, <2>3, <1>1
  <2>5. x \in 0..1
    BY <2>2, <2>4, <1>1, FewMultiples
  <2>. QED  BY <2>5, <1>1 DEF x, made
<1>. QED  BY <1>2, <1>3, <1>4

(* One device frame: what it takes for the device and what it gives back. *)
LEMMA OneDeviceFrame ==
  ASSUME Paced, render_ref.made \in Nat,
         out_side' = Pulled(out_side).to, tap' = Pushed(tap).to,
         played' = played + Pulled(out_side).taken,
         render_ref'.made = render_ref.made + Pushed(tap).emitted
  PROVE  /\ Pulled(out_side).taken \in Nat /\ Pushed(tap).emitted \in Nat
         /\ Paced'
<1>. DEFINE made == render_ref.made  rate == tap.from
            a == out_side.frac  f == tap.frac
            q == a \div rate  m == (a % rate) + Native
            outs == Outputs(tap)
            moved == f + outs * rate - Native
<1>1. /\ played \in Nat /\ made \in Nat /\ rate \in Nat \ {0} /\ a \in Nat /\ f \in Nat
      /\ Native \in Nat \ {0} /\ out_side.primed \in BOOLEAN /\ tap.primed \in BOOLEAN
      /\ out_side.from = Native /\ out_side.to = rate /\ tap.to = Native
      /\ out_side = [from |-> Native, to |-> rate, frac |-> a, primed |-> out_side.primed]
      /\ tap = [from |-> rate, to |-> Native, frac |-> f, primed |-> tap.primed]
  BY AudioAssumption DEF Paced, Resamplers
<1>2. CASE rate = Native
  <2>1. /\ Pulled(out_side) = [to |-> out_side, taken |-> 1]
        /\ Pushed(tap) = [to |-> tap, emitted |-> 1]
    BY <1>1, <1>2 DEF Pulled, Pushed, Bypass
  <2>2. /\ out_side' = out_side /\ tap' = tap /\ played' = played + 1
        /\ render_ref'.made = made + 1 /\ played = made
    BY <2>1, <1>2 DEF Paced
  <2>. QED  BY <2>1, <2>2, <1>1, <1>2 DEF Paced
<1>3. outs = IF f < Native THEN (Native - f + rate - 1) \div rate ELSE 0
  BY <1>1 DEF Outputs
<1>4. CASE rate # Native /\ ~ out_side.primed
  <2>1. a = 0 /\ f = 0 /\ played = 0 /\ made = 0 /\ ~ tap.primed
    BY <1>4 DEF Paced
  <2>2. /\ Pulled(out_side).to = [from |-> Native, to |-> rate, frac |-> m, primed |-> TRUE]
        /\ Pulled(out_side).taken = q + 1
        /\ Pushed(tap).to = [from |-> rate, to |-> Native, frac |-> f, primed |-> TRUE]
        /\ Pushed(tap).emitted = 0
    BY <1>1, <1>4, <2>1, Zenon DEF Pulled, Pushed, Bypass
  <2>3. q = 0 /\ m = Native
    <3>. HIDE DEF rate
    <3>. QED  BY <2>1, <1>1
  <2>4. /\ out_side'.from = Native /\ out_side'.to = rate /\ out_side'.frac = Native /\ out_side'.primed
        /\ tap'.from = rate /\ tap'.to = Native /\ tap'.frac = 0 /\ tap'.primed
        /\ out_side' \in Resamplers /\ tap' \in Resamplers
        /\ played' = 1 /\ render_ref'.made = 0
        /\ Pulled(out_side).taken = 1
    BY <2>1, <2>2, <2>3, <1>1 DEF Resamplers
  <2>5. Native' = Native /\ Native < Native + rate /\ 0 < rate /\ 1 \in Nat /\ 0 \in Nat
        /\ Native <= Native /\ Native + 0 = Native + rate * (1 + 0 - 1)
    <3>. HIDE DEF rate
    <3>. QED  BY <1>1
  <2>. HIDE DEF rate
  <2>6. Paced'
    BY <2>4, <2>5, <1>4, Zenon DEF Paced
  <2>. QED  BY <2>2, <2>4, <2>5, <2>6
<1>5. CASE rate # Native /\ out_side.primed
  <2>1. /\ tap.primed /\ Native <= a /\ a < Native + rate /\ f < rate
        /\ a + f = Native + rate * (1 + made - played)
    BY <1>5 DEF Paced
  <2>2. /\ Pulled(out_side).to = [from |-> Native, to |-> rate, frac |-> m, primed |-> TRUE]
        /\ Pulled(out_side).taken = q + 0
        /\ Pushed(tap).to = [from |-> rate, to |-> Native, frac |-> moved, primed |-> TRUE]
        /\ Pushed(tap).emitted = outs
    BY <1>1, <1>5, <2>1 DEF Pulled, Pushed, Bypass
  <2>3. /\ outs \in Nat /\ moved \in Nat /\ moved < rate
        /\ q \in Nat /\ m \in Nat /\ Native <= m /\ m < Native + rate
        /\ m + moved = Native + rate * (1 + (made + outs) - (played + q))
    <3>. HIDE DEF made, rate, a, f, outs
    <3>1. outs \in Nat /\ outs * rate \in Nat /\ moved \in Nat /\ moved < rate
      <4>1. /\ outs \in Nat /\ outs * rate \in Nat /\ f + outs * rate - Native \in Nat
            /\ f < rate => f + outs * rate - Native < rate
        BY <1>1, <1>3, OutputsCover
      <4>. QED  BY <4>1, <2>1
    <3>2. q \in Nat /\ a % rate \in 0..(rate - 1) /\ a = rate * q + (a % rate)
      BY <1>1, DivMod
    <3>. DEFINE rem == a % rate
    <3>3. m = rem + Native /\ rem \in 0..(rate - 1) /\ a = rate * q + rem
      BY <3>2
    <3>. HIDE DEF q, m, rem
    <3>4. rate * (1 + (made + outs) - (played + q))
            = rate * (1 + made - played) + outs * rate - rate * q
      BY <3>1, <3>2, <1>1
    <3>5. rate * (1 + made - played) \in Int /\ rate * q \in Int
      BY <3>2, <1>1
    <3>. DEFINE before == rate * (1 + made - played)  p == outs * rate  s == rate * q
    <3>6. /\ before \in Int /\ p \in Nat /\ s \in Int /\ a + f = Native + before
          /\ moved = f + p - Native /\ a = s + rem
          /\ rate * (1 + (made + outs) - (played + q)) = before + p - s
      BY <2>1, <3>1, <3>3, <3>4, <3>5
    <3>. HIDE DEF before, p, s, moved
    <3>7. m + moved = Native + (before + p - s)
      <4>1. /\ rem \in Nat /\ m = rem + Native /\ a = s + rem /\ s \in Int /\ p \in Nat
            /\ before \in Int /\ a + f = Native + before /\ moved = f + p - Native
            /\ f \in Nat /\ Native \in Nat
        BY <3>3, <3>6, <1>1
      <4>. QED  BY <4>1
    <3>. QED  BY <3>1, <3>2, <3>3, <3>6, <3>7, <1>1
  <2>. HIDE DEF q, m, outs, moved
  <2>4. q + 0 = q /\ played + q \in Nat /\ made + outs \in Nat
    BY <2>3, <1>1
  <2>5. /\ out_side'.from = Native /\ out_side'.to = rate /\ out_side'.frac = m /\ out_side'.primed
        /\ tap'.from = rate /\ tap'.to = Native /\ tap'.frac = moved /\ tap'.primed
        /\ out_side' \in Resamplers /\ tap' \in Resamplers
        /\ played' = played + q /\ render_ref'.made = made + outs
    BY <2>2, <2>3, <2>4, <1>1 DEF Resamplers
  <2>6. Native' = Native
    OBVIOUS
  <2>. HIDE DEF rate, made
  <2>7. Paced'
    BY <2>3, <2>4, <2>5, <1>5, Zenon DEF Paced
  <2>. QED  BY <2>2, <2>3, <2>4, <2>7
<1>. QED  BY <1>2, <1>4, <1>5

----------------------------------------------------------------------------
(* The rates the resamplers are made for. *)
LEMMA FirstOfNumbers ==
  ASSUME NEW S \in SUBSET Nat, S # {}
  PROVE  FirstOf(S) \in S
<1>1. \E i \in S : \A j \in S : i <= j
  <2>1. PICK n \in S : \A m \in S : ~ (<<m, n>> \in OpToRel(<, Nat))
    BY NatLessThanWellFounded, WFMin
  <2>2. \A m \in S : ~ (m < n)
    BY <2>1 DEF OpToRel
  <2>. QED  BY <2>2
<1>. QED  BY <1>1 DEF FirstOf

LEMMA RatesArePositive == \A rate \in EngineRates : rate \in Nat \ {0}
<1>1. Native \in Nat \ {0}
  BY AudioAssumption
<1>2. NegotiatedRates \subseteq Nat \ {0}
  BY <1>1, AudioAssumption DEF NegotiatedRates
<1>3. DuplexRates \subseteq Nat \ {0}
  <2>. SUFFICES ASSUME NEW offer \in Offers, CanOpen(offer)
                PROVE  ChosenRate(offer) \in Nat \ {0}
    BY DEF DuplexRates
  <2>. DEFINE usable == {i \in DOMAIN offer : Usable(offer[i])}
  <2>1. usable \in SUBSET Nat /\ usable # {}
    BY AudioAssumption DEF CanOpen
  <2>2. FirstOf(usable) \in DOMAIN offer
    BY <2>1, FirstOfNumbers
  <2>3. offer[FirstOf(usable)].min \in Nat \ {0}
    BY <2>2, AudioAssumption
  <2>. HIDE DEF usable
  <2>. QED  BY <2>3, <1>1 DEF ChosenRate, usable
<1>. QED  BY <1>2, <1>3 DEF EngineRates

----------------------------------------------------------------------------
(* The inductive invariant of the rings. *)
Frames == [engine : Nat, first : Nat]

PlaybackOK ==
  /\ playback \in [queued : Nat, given : Nat, dropped : Nat, underrun : Nat]
  /\ playback.queued <= PlaybackCapacity
  /\ playback.given + playback.underrun = played + playback.queued + playback.dropped

StreamsOK ==
  /\ capture \in Streams /\ Accounted(capture, CaptureCapacity) /\ InOrder(capture)
  /\ render_ref \in Streams /\ Accounted(render_ref, RefCapacity) /\ InOrder(render_ref)

(* The frames that wait are the last ones of this engine: the i-th of them was
   handed over after `pairs` + i - 1 others. *)
Pairs == render_ref.frames - Len(pending_ref)

Numbered(q, pairs, dropped) ==
  \A i \in 1..Len(q) :
    /\ q[i].engine = engine
    /\ FrameSamples * (pairs + i - 1) + 1 <= q[i].first
    /\ q[i].first <= FrameSamples * (pairs + i - 1) + 1 + dropped

PendingOK ==
  /\ engine \in Nat
  /\ pending_ref \in Seq(Frames) /\ pending_cap \in Seq(Frames)
  /\ Pairs \in Nat /\ Pairs = capture.frames - Len(pending_cap)
  /\ Numbered(pending_ref, Pairs, render_ref.dropped)
  /\ Numbered(pending_cap, Pairs, capture.dropped)

PairedOK ==
  \A p \in paired :
    /\ p[1] \in Frames /\ p[2] \in Frames
    /\ p[1].engine = p[2].engine /\ p[1].engine <= engine
    /\ p[1].engine = engine =>
         /\ p[1].first <= p[2].first + render_ref.dropped
         /\ p[2].first <= p[1].first + capture.dropped

AudioInv ==
  /\ in_side \in Resamplers /\ Paced
  /\ PlaybackOK /\ StreamsOK /\ PendingOK /\ PairedOK

LEMMA AudioInvImplies == AudioInv => EverySampleAccounted /\ PairsMatch
<1>. SUFFICES ASSUME AudioInv PROVE EverySampleAccounted /\ PairsMatch
  OBVIOUS
<1>1. render_ref.made \in Nat
  BY DEF AudioInv, StreamsOK, Streams
<1>2. played - render_ref.made \in 0..1
  BY <1>1, PacedMeansClose DEF AudioInv
<1>3. EverySampleAccounted
  BY <1>2, Zenon DEF EverySampleAccounted, AudioInv, StreamsOK, PlaybackOK
<1>4. PairsMatch
  BY Zenon DEF PairsMatch, AudioInv, PairedOK
<1>. QED  BY <1>3, <1>4

(* A new engine. *)
LEMMA FreshStream ==
  ASSUME NEW capacity \in Nat
  PROVE  /\ NewStream \in Streams /\ Accounted(NewStream, capacity) /\ InOrder(NewStream)
         /\ NewStream.frames = 0 /\ NewStream.made = 0 /\ NewStream.dropped = 0
<1>1. NewStream.ring = <<>> /\ NewStream.partial = <<>>
  BY DEF NewStream
<1>2. Made(NewStream, <<>>, 0, 0, <<>>, 0, <<>>, 0, capacity)
  <2>1. FrameSamples * 0 = 0 /\ 0 < FrameSamples
    BY AudioAssumption
  <2>2. <<>> \in Seq(Nat) /\ Len(<<>>) = 0 /\ <<>> = <<>> \o <<>>
    OBVIOUS
  <2>3. Bracketed(<<>>, 0, 0)
    BY DEF Bracketed
  <2>. QED  BY <2>1, <2>2, <2>3 DEF Made, NewStream
<1>. QED  BY <1>2, StreamFrom DEF NewStream

FreshEngine(in_rate, out_rate) ==
  /\ in_side = Resampler(in_rate, Native) /\ out_side = Resampler(Native, out_rate)
  /\ tap = Resampler(out_rate, Native) /\ played = 0 /\ playback = NewPlayback
  /\ capture = NewStream /\ render_ref = NewStream /\ engine \in Nat
  /\ pending_ref = <<>> /\ pending_cap = <<>>

LEMMA FreshEngineOK ==
  ASSUME NEW in_rate \in Nat \ {0}, NEW out_rate \in Nat \ {0}
  PROVE  FreshEngine(in_rate, out_rate) =>
           in_side \in Resamplers /\ Paced /\ PlaybackOK /\ StreamsOK /\ PendingOK
<1>. SUFFICES ASSUME FreshEngine(in_rate, out_rate)
              PROVE  in_side \in Resamplers /\ Paced /\ PlaybackOK /\ StreamsOK /\ PendingOK
  OBVIOUS
<1>. USE DEF FreshEngine
<1>1. Native \in Nat \ {0} /\ {CaptureCapacity, RefCapacity, PlaybackCapacity} \subseteq Nat
  BY AudioAssumption
<1>2. in_side \in Resamplers /\ out_side \in Resamplers /\ tap \in Resamplers
  BY <1>1 DEF Resamplers, Resampler
<1>3. StreamsOK /\ render_ref.frames = 0 /\ render_ref.made = 0 /\ capture.frames = 0
  BY <1>1, FreshStream DEF StreamsOK
<1>4. Paced
  BY <1>1, <1>2, <1>3 DEF Paced, Resampler
<1>5. PlaybackOK
  BY <1>1 DEF PlaybackOK, NewPlayback
<1>6. PendingOK
  BY <1>3 DEF PendingOK, Pairs, Numbered
<1>. QED  BY <1>2, <1>3, <1>4, <1>5, <1>6

LEMMA AudioInitInv == AudioInit => AudioInv
<1>. SUFFICES ASSUME AudioInit PROVE AudioInv
  OBVIOUS
<1>1. PICK in_rate, out_rate \in EngineRates :
        /\ in_side = Resampler(in_rate, Native)
        /\ out_side = Resampler(Native, out_rate)
        /\ tap = Resampler(out_rate, Native)
  BY DEF AudioInit
<1>2. in_rate \in Nat \ {0} /\ out_rate \in Nat \ {0}
  BY RatesArePositive
<1>3. /\ played = 0 /\ playback = NewPlayback /\ capture = NewStream /\ render_ref = NewStream
      /\ engine \in Nat /\ pending_ref = <<>> /\ pending_cap = <<>> /\ paired = {}
  BY DEF AudioInit
<1>4. in_side \in Resamplers /\ Paced /\ PlaybackOK /\ StreamsOK /\ PendingOK
  <2>1. FreshEngine(in_rate, out_rate)
    BY <1>1, <1>3 DEF FreshEngine
  <2>. QED  BY <2>1, <1>2, FreshEngineOK
<1>. QED  BY <1>3, <1>4 DEF AudioInv, PairedOK

(* The same of the state that follows. *)
LEMMA FreshEngineNext ==
  ASSUME NEW in_rate \in Nat \ {0}, NEW out_rate \in Nat \ {0}
  PROVE  FreshEngine(in_rate, out_rate)' =>
           (in_side \in Resamplers /\ Paced /\ PlaybackOK /\ StreamsOK /\ PendingOK)'
<1>1. FreshEngine(in_rate, out_rate) =>
        in_side \in Resamplers /\ Paced /\ PlaybackOK /\ StreamsOK /\ PendingOK
  BY FreshEngineOK
<1>. QED  BY <1>1, PTL

----------------------------------------------------------------------------
(* The steps.  What a sample dropped later changes: it leaves more room. *)
LEMMA DropsLeaveRoom ==
  ASSUME PendingOK, PairedOK, StreamsOK, StreamsOK',
         render_ref.dropped <= render_ref'.dropped, render_ref'.frames = render_ref.frames,
         capture.dropped <= capture'.dropped, capture'.frames = capture.frames,
         UNCHANGED << engine, pending_ref, pending_cap, paired >>
  PROVE  PendingOK' /\ PairedOK'
<1>. DEFINE rd == render_ref.dropped  rd2 == render_ref'.dropped
            cd == capture.dropped  cd2 == capture'.dropped
<1>1. rd \in Nat /\ rd2 \in Nat /\ cd \in Nat /\ cd2 \in Nat /\ rd <= rd2 /\ cd <= cd2
  BY DEF StreamsOK, Streams
<1>2. Pairs' = Pairs /\ Pairs \in Nat
  BY DEF Pairs, PendingOK
<1>. DEFINE n == Pairs
<1>3. ASSUME NEW q \in Seq(Frames), NEW d \in Nat, NEW e \in Nat, d <= e, Numbered(q, n, d)
      PROVE  Numbered(q, n, e)
  <2>. HIDE DEF n
  <2>. SUFFICES ASSUME NEW i \in 1..Len(q)
                PROVE  /\ q[i].engine = engine
                       /\ FrameSamples * (n + i - 1) + 1 <= q[i].first
                       /\ q[i].first <= FrameSamples * (n + i - 1) + 1 + e
    BY DEF Numbered
  <2>. DEFINE from == FrameSamples * (n + i - 1)  first == q[i].first
  <2>1. q[i].engine = engine /\ from + 1 <= first /\ first <= from + 1 + d
    BY <1>3 DEF Numbered
  <2>2. q[i] \in Frames
    BY <1>3
  <2>3. first \in Nat
    BY <2>2 DEF Frames
  <2>4. from \in Int
    <3>1. n + i - 1 \in Int
      BY <1>2, <1>3 DEF n
    <3>. QED  BY <3>1, AudioAssumption
  <2>. HIDE DEF from, first
  <2>5. from + 1 <= first /\ first <= from + 1 + e
    BY <2>1, <2>3, <2>4, <1>3
  <2>. QED  BY <2>1, <2>5 DEF from, first
<1>4. Numbered(pending_ref, n, rd2) /\ Numbered(pending_cap, n, cd2)
  BY <1>1, <1>3 DEF PendingOK
<1>5. PendingOK'
  <2>1. Pairs' = n /\ n \in Nat /\ n = capture'.frames - Len(pending_cap)
    BY <1>2 DEF PendingOK
  <2>2. /\ engine \in Nat /\ pending_ref \in Seq(Frames) /\ pending_cap \in Seq(Frames)
        /\ engine' = engine /\ pending_ref' = pending_ref /\ pending_cap' = pending_cap
    BY DEF PendingOK
  <2>. HIDE DEF n
  <2>. QED  BY <2>1, <2>2, <1>4, Zenon DEF PendingOK, Numbered
<1>6. PairedOK'
  <2>. SUFFICES ASSUME NEW p \in paired
                PROVE  /\ p[1] \in Frames /\ p[2] \in Frames
                       /\ p[1].engine = p[2].engine /\ p[1].engine <= engine
                       /\ p[1].engine = engine =>
                            p[1].first <= p[2].first + rd2 /\ p[2].first <= p[1].first + cd2
    BY Zenon DEF PairedOK
  <2>. DEFINE a == p[1].first  b == p[2].first
  <2>1. /\ p[1] \in Frames /\ p[2] \in Frames
        /\ p[1].engine = p[2].engine /\ p[1].engine <= engine
        /\ p[1].engine = engine => a <= b + rd /\ b <= a + cd
    BY Zenon DEF PairedOK
  <2>2. a \in Nat /\ b \in Nat
    BY <2>1 DEF Frames
  <2>. HIDE DEF a, b, rd, rd2, cd, cd2
  <2>3. (a <= b + rd => a <= b + rd2) /\ (b <= a + cd => b <= a + cd2)
    BY <2>2, <1>1
  <2>. QED  BY <2>1, <2>3 DEF a, b
<1>. QED  BY <1>5, <1>6

LEMMA InputFrameKeeps ==
  ASSUME AudioInv, InputFrame
  PROVE  AudioInv'
<1>1. in_side' \in Resamplers /\ Pushed(in_side).emitted \in Nat
  BY PushedResampler DEF AudioInv, InputFrame
<1>2. /\ StreamsOK' /\ capture.dropped <= capture'.dropped /\ capture'.frames = capture.frames
  <2>1. CaptureCapacity \in Nat
    BY AudioAssumption
  <2>2. /\ capture' = PushDropping(capture, Pushed(in_side).emitted, CaptureCapacity)
        /\ render_ref' = render_ref
    BY DEF InputFrame
  <2>3. /\ capture' \in Streams /\ Accounted(capture', CaptureCapacity) /\ InOrder(capture')
        /\ capture.dropped <= capture'.dropped /\ capture'.frames = capture.frames
    BY <2>1, <2>2, <1>1, PushKeepsOrder DEF AudioInv, StreamsOK
  <2>. QED  BY <2>2, <2>3 DEF AudioInv, StreamsOK
<1>3. /\ UNCHANGED << out_side, tap, played, playback, render_ref, engine >>
      /\ UNCHANGED << pending_ref, pending_cap, paired >>
  BY DEF InputFrame, pumpVars
<1>4. Paced' /\ PlaybackOK'
  BY <1>3 DEF AudioInv, Paced, PlaybackOK
<1>5. render_ref.dropped \in Nat
  BY DEF AudioInv, StreamsOK, Streams
<1>6. PendingOK' /\ PairedOK'
  BY <1>2, <1>3, <1>5, DropsLeaveRoom DEF AudioInv
<1>. QED  BY <1>1, <1>2, <1>4, <1>6 DEF AudioInv

LEMMA OutputFrameKeeps ==
  ASSUME AudioInv, OutputFrame
  PROVE  AudioInv'
<1>. DEFINE taken == Pulled(out_side).taken
            emitted == Pushed(tap).emitted
            got == IF playback.queued < taken THEN playback.queued ELSE taken
<1>1. /\ out_side' = Pulled(out_side).to /\ tap' = Pushed(tap).to /\ played' = played + taken
      /\ playback' = [playback EXCEPT !.queued = @ - got, !.underrun = @ + taken - got]
      /\ render_ref' = PushDropping(render_ref, emitted, RefCapacity)
      /\ UNCHANGED << in_side, capture, engine, pending_ref, pending_cap, paired >>
  BY DEF OutputFrame, pumpVars
<1>2. emitted \in Nat /\ render_ref.made \in Nat
  BY PushedResampler DEF AudioInv, Paced, StreamsOK, Streams
<1>3. /\ render_ref' \in Streams /\ Accounted(render_ref', RefCapacity) /\ InOrder(render_ref')
      /\ render_ref'.made = render_ref.made + emitted
      /\ render_ref.dropped <= render_ref'.dropped /\ render_ref'.frames = render_ref.frames
  <2>1. RefCapacity \in Nat
    BY AudioAssumption
  <2>. QED  BY <2>1, <1>1, <1>2, PushKeepsOrder DEF AudioInv, StreamsOK
<1>4. taken \in Nat /\ Paced'
  BY <1>1, <1>2, <1>3, OneDeviceFrame DEF AudioInv
<1>5. StreamsOK'
  BY <1>1, <1>3 DEF AudioInv, StreamsOK
<1>6. PlaybackOK'
  <2>. DEFINE queued == playback.queued  given == playback.given
              dropped == playback.dropped  underrun == playback.underrun
  <2>1. /\ queued \in Nat /\ given \in Nat /\ dropped \in Nat /\ underrun \in Nat
        /\ queued <= PlaybackCapacity /\ given + underrun = played + queued + dropped
        /\ played \in Nat /\ PlaybackCapacity \in Nat
    BY AudioAssumption DEF AudioInv, PlaybackOK, Paced
  <2>2. /\ playback = [queued |-> queued, given |-> given, dropped |-> dropped, underrun |-> underrun]
    BY DEF AudioInv, PlaybackOK
  <2>3. got \in Nat /\ got <= queued /\ got <= taken
    BY <2>1, <1>4
  <2>. HIDE DEF got, taken
  <2>4. playback' = [queued |-> queued - got, given |-> given, dropped |-> dropped,
                     underrun |-> underrun + taken - got]
    BY <2>2, <1>1
  <2>. HIDE DEF queued, given, dropped, underrun
  <2>5. /\ queued - got \in Nat /\ underrun + taken - got \in Nat
        /\ queued - got <= PlaybackCapacity
        /\ given + (underrun + taken - got) = (played + taken) + (queued - got) + dropped
    BY <2>1, <2>3, <1>4
  <2>. QED  BY <2>1, <2>4, <2>5, <1>1 DEF PlaybackOK
<1>7. capture.dropped \in Nat /\ in_side' \in Resamplers
  BY <1>1 DEF AudioInv, StreamsOK, Streams
<1>8. PendingOK' /\ PairedOK'
  BY <1>1, <1>3, <1>5, <1>7, DropsLeaveRoom DEF AudioInv
<1>. QED  BY <1>4, <1>5, <1>6, <1>7, <1>8 DEF AudioInv

LEMMA PushPlaybackKeeps ==
  ASSUME AudioInv, NEW n \in Nat, PushPlayback(n)
  PROVE  AudioInv'
<1>. DEFINE queued == playback.queued  given == playback.given
            dropped == playback.dropped  underrun == playback.underrun
            fits == IF PlaybackCapacity - queued < n THEN PlaybackCapacity - queued ELSE n
<1>1. /\ queued \in Nat /\ given \in Nat /\ dropped \in Nat /\ underrun \in Nat
      /\ queued <= PlaybackCapacity /\ given + underrun = played + queued + dropped
      /\ played \in Nat /\ PlaybackCapacity \in Nat
  BY AudioAssumption DEF AudioInv, PlaybackOK, Paced
<1>2. /\ playback = [queued |-> queued, given |-> given, dropped |-> dropped, underrun |-> underrun]
  BY DEF AudioInv, PlaybackOK
<1>3. fits \in Nat /\ fits <= n /\ fits <= PlaybackCapacity - queued
  BY <1>1
<1>4. /\ playback' = [playback EXCEPT !.queued = @ + fits, !.given = @ + n, !.dropped = @ + n - fits]
      /\ UNCHANGED << engine, in_side, out_side, tap, played, capture, render_ref >>
      /\ UNCHANGED << pending_ref, pending_cap, paired >>
  BY DEF PushPlayback, callbackVars, pumpVars
<1>. HIDE DEF fits
<1>5. playback' = [queued |-> queued + fits, given |-> given + n, dropped |-> dropped + n - fits,
                   underrun |-> underrun]
  BY <1>2, <1>4
<1>. HIDE DEF queued, given, dropped, underrun
<1>6. /\ queued + fits \in Nat /\ given + n \in Nat /\ dropped + n - fits \in Nat
      /\ queued + fits <= PlaybackCapacity
      /\ (given + n) + underrun = played + (queued + fits) + (dropped + n - fits)
  BY <1>1, <1>3
<1>7. PlaybackOK'
  <2>1. played' = played
    BY <1>4
  <2>. QED  BY <2>1, <1>1, <1>5, <1>6 DEF PlaybackOK
<1>. QED  BY <1>4, <1>7 DEF AudioInv, Paced, StreamsOK, PendingOK, PairedOK, Pairs, Numbered

----------------------------------------------------------------------------
(* Frames that wait for a partner. *)
LEMMA AppendNumbered ==
  ASSUME NEW q \in Seq(Frames), NEW n \in Nat, NEW d \in Nat, Numbered(q, n, d),
         NEW f \in Frames, f.engine = engine, NEW count \in Nat, count = n + Len(q),
         FrameSamples * count + 1 <= f.first, f.first <= FrameSamples * count + 1 + d
  PROVE  Append(q, f) \in Seq(Frames) /\ Numbered(Append(q, f), n, d)
<1>1. /\ Append(q, f) \in Seq(Frames) /\ Len(Append(q, f)) = Len(q) + 1 /\ Len(q) \in Nat
      /\ Append(q, f)[Len(q) + 1] = f /\ \A i \in 1..Len(q) : Append(q, f)[i] = q[i]
  OBVIOUS
<1>2. n + (Len(q) + 1) - 1 = count
  BY <1>1
<1>. SUFFICES ASSUME NEW i \in 1..Len(Append(q, f))
              PROVE  /\ Append(q, f)[i].engine = engine
                     /\ FrameSamples * (n + i - 1) + 1 <= Append(q, f)[i].first
                     /\ Append(q, f)[i].first <= FrameSamples * (n + i - 1) + 1 + d
  BY <1>1 DEF Numbered
<1>3. CASE i \in 1..Len(q)
  BY <1>1, <1>3 DEF Numbered
<1>4. CASE i = Len(q) + 1
  BY <1>1, <1>2, <1>4
<1>. QED  BY <1>1, <1>3, <1>4

LEMMA CutNumbered ==
  ASSUME NEW q \in Seq(Frames), NEW n \in Nat, NEW d \in Nat, Numbered(q, n, d),
         NEW k \in Nat, k <= Len(q)
  PROVE  /\ SubSeq(q, k + 1, Len(q)) \in Seq(Frames)
         /\ Len(SubSeq(q, k + 1, Len(q))) = Len(q) - k
         /\ Numbered(SubSeq(q, k + 1, Len(q)), n + k, d)
<1>. DEFINE left == SubSeq(q, k + 1, Len(q))
<1>1. left \in Seq(Frames) /\ Len(left) = Len(q) - k /\ Len(q) \in Nat
  OBVIOUS
<1>2. \A i \in 1..Len(left) : left[i] = q[i + k] /\ i + k \in 1..Len(q)
  BY <1>1
<1>. HIDE DEF left
<1>. SUFFICES ASSUME NEW i \in 1..Len(left)
              PROVE  /\ left[i].engine = engine
                     /\ FrameSamples * ((n + k) + i - 1) + 1 <= left[i].first
                     /\ left[i].first <= FrameSamples * ((n + k) + i - 1) + 1 + d
  BY <1>1 DEF Numbered, left
<1>3. (n + k) + i - 1 = n + (i + k) - 1
  BY <1>1
<1>4. /\ q[i + k].engine = engine
      /\ FrameSamples * (n + (i + k) - 1) + 1 <= q[i + k].first
      /\ q[i + k].first <= FrameSamples * (n + (i + k) - 1) + 1 + d
  BY <1>2 DEF Numbered
<1>5. left[i] = q[i + k]
  BY <1>2
<1>. QED  BY <1>3, <1>4, <1>5, Zenon

LEMMA PumpRefKeeps ==
  ASSUME AudioInv, PumpRef
  PROVE  AudioInv'
<1>. DEFINE r == TryRecv(render_ref)
<1>1. /\ render_ref' = r.to /\ UNCHANGED << engine, in_side, out_side, tap, played, playback >>
      /\ UNCHANGED << capture, pending_cap, paired >>
      /\ IF r.frame = <<>> THEN pending_ref' = pending_ref
         ELSE pending_ref' = Append(pending_ref, Frame(r.frame))
  BY DEF PumpRef, callbackVars
<1>2. RefCapacity \in Nat /\ FrameSamples \in Nat
  BY AudioAssumption
<1>3. /\ r.to \in Streams /\ Accounted(r.to, RefCapacity) /\ InOrder(r.to)
      /\ r.to.made = render_ref.made /\ r.to.dropped = render_ref.dropped
      /\ r.frame = <<>> => r.to.frames = render_ref.frames
      /\ r.frame # <<>> =>
           /\ r.to.frames = render_ref.frames + 1 /\ r.frame[1] \in Nat
           /\ Handed(render_ref) + 1 <= r.frame[1]
           /\ r.frame[1] <= Handed(render_ref) + 1 + render_ref.dropped
  BY <1>2, RecvKeepsOrder DEF AudioInv, StreamsOK
<1>. HIDE DEF r
<1>4. StreamsOK' /\ Paced' /\ PlaybackOK' /\ PairedOK' /\ in_side' \in Resamplers
  BY <1>1, <1>3 DEF AudioInv, StreamsOK, Paced, PlaybackOK, PairedOK
<1>. DEFINE count == render_ref.frames  d == render_ref.dropped  n == Pairs
<1>5. /\ count \in Nat /\ d \in Nat /\ n \in Nat /\ count = n + Len(pending_ref)
      /\ engine \in Nat /\ pending_ref \in Seq(Frames) /\ pending_cap \in Seq(Frames)
      /\ n = capture.frames - Len(pending_cap)
      /\ Numbered(pending_ref, n, d) /\ Numbered(pending_cap, n, capture.dropped)
  <2>1. count \in Nat /\ d \in Nat /\ pending_ref \in Seq(Frames) /\ n \in Nat
    BY DEF AudioInv, StreamsOK, Streams, PendingOK
  <2>2. count = n + Len(pending_ref)
    <3>1. Len(pending_ref) \in Nat
      BY <2>1
    <3>. QED  BY <2>1, <3>1 DEF Pairs
  <2>. QED  BY <2>1, <2>2 DEF AudioInv, PendingOK
<1>6. PendingOK'
  <2>1. CASE r.frame = <<>>
    <3>1. pending_ref' = pending_ref /\ render_ref'.frames = count /\ render_ref'.dropped = d
      BY <2>1, <1>1, <1>3
    <3>2. Pairs' = n
      BY <3>1 DEF Pairs
    <3>. HIDE DEF n, d, count
    <3>. QED  BY <3>1, <3>2, <1>1, <1>5, Zenon DEF PendingOK, Numbered
  <2>2. CASE r.frame # <<>>
    <3>. DEFINE f == Frame(r.frame)  longer == Append(pending_ref, f)
    <3>1. f \in Frames /\ f.engine = engine /\ f.first = r.frame[1]
      BY <2>2, <1>3, <1>5 DEF Frame, Frames
    <3>. HIDE DEF f
    <3>2. /\ pending_ref' = longer /\ render_ref'.frames = count + 1 /\ render_ref'.dropped = d
          /\ FrameSamples * count + 1 <= f.first /\ f.first <= FrameSamples * count + 1 + d
      BY <2>2, <3>1, <1>1, <1>3 DEF Handed, f
    <3>. HIDE DEF n, d, count
    <3>3. longer \in Seq(Frames) /\ Numbered(longer, n, d)
      BY <3>1, <3>2, <1>5, AppendNumbered
    <3>4. Pairs' = n
      <4>1. Len(longer) = Len(pending_ref) + 1 /\ Len(pending_ref) \in Nat
        BY <1>5
      <4>2. Pairs' = (count + 1) - Len(longer)
        BY <3>2 DEF Pairs
      <4>. QED  BY <4>1, <4>2, <1>5, SMTT(30)
    <3>. HIDE DEF longer
    <3>. QED  BY <3>2, <3>3, <3>4, <1>1, <1>5, Zenon DEF PendingOK, Numbered
  <2>. QED  BY <2>1, <2>2
<1>. QED  BY <1>4, <1>6 DEF AudioInv

LEMMA PumpCaptureKeeps ==
  ASSUME AudioInv, PumpCapture
  PROVE  AudioInv'
<1>. DEFINE r == TryRecv(capture)
<1>1. /\ capture' = r.to /\ UNCHANGED << engine, in_side, out_side, tap, played, playback >>
      /\ UNCHANGED << render_ref, pending_ref, paired >>
      /\ IF r.frame = <<>> THEN pending_cap' = pending_cap
         ELSE pending_cap' = Append(pending_cap, Frame(r.frame))
  BY DEF PumpCapture, callbackVars
<1>2. CaptureCapacity \in Nat /\ FrameSamples \in Nat
  BY AudioAssumption
<1>3. /\ r.to \in Streams /\ Accounted(r.to, CaptureCapacity) /\ InOrder(r.to)
      /\ r.to.made = capture.made /\ r.to.dropped = capture.dropped
      /\ r.frame = <<>> => r.to.frames = capture.frames
      /\ r.frame # <<>> =>
           /\ r.to.frames = capture.frames + 1 /\ r.frame[1] \in Nat
           /\ Handed(capture) + 1 <= r.frame[1]
           /\ r.frame[1] <= Handed(capture) + 1 + capture.dropped
  BY <1>2, RecvKeepsOrder DEF AudioInv, StreamsOK
<1>. HIDE DEF r
<1>4. StreamsOK' /\ Paced' /\ PlaybackOK' /\ PairedOK' /\ in_side' \in Resamplers
  BY <1>1, <1>3 DEF AudioInv, StreamsOK, Paced, PlaybackOK, PairedOK
<1>. DEFINE count == capture.frames  d == capture.dropped  n == Pairs
<1>5. /\ count \in Nat /\ d \in Nat /\ n \in Nat /\ count = n + Len(pending_cap)
      /\ engine \in Nat /\ pending_ref \in Seq(Frames) /\ pending_cap \in Seq(Frames)
      /\ Numbered(pending_ref, n, render_ref.dropped) /\ Numbered(pending_cap, n, d)
  <2>1. /\ count \in Nat /\ d \in Nat /\ pending_cap \in Seq(Frames) /\ n \in Nat
        /\ n = count - Len(pending_cap)
    BY DEF AudioInv, StreamsOK, Streams, PendingOK
  <2>2. count = n + Len(pending_cap)
    <3>1. Len(pending_cap) \in Nat
      BY <2>1
    <3>. HIDE DEF n, count
    <3>. QED  BY <2>1, <3>1
  <2>. QED  BY <2>1, <2>2 DEF AudioInv, PendingOK
<1>6. Pairs' = n
  BY <1>1 DEF Pairs
<1>7. PendingOK'
  <2>1. CASE r.frame = <<>>
    <3>1. pending_cap' = pending_cap /\ capture'.frames = count /\ capture'.dropped = d
      BY <2>1, <1>1, <1>3
    <3>2. n = count - Len(pending_cap)
      BY DEF AudioInv, PendingOK
    <3>. HIDE DEF n, d, count
    <3>. QED  BY <3>1, <3>2, <1>1, <1>5, <1>6, Zenon DEF PendingOK, Numbered
  <2>2. CASE r.frame # <<>>
    <3>. DEFINE f == Frame(r.frame)  longer == Append(pending_cap, f)
    <3>1. f \in Frames /\ f.engine = engine /\ f.first = r.frame[1]
      BY <2>2, <1>3, <1>5 DEF Frame, Frames
    <3>. HIDE DEF f
    <3>2. /\ pending_cap' = longer /\ capture'.frames = count + 1 /\ capture'.dropped = d
          /\ FrameSamples * count + 1 <= f.first /\ f.first <= FrameSamples * count + 1 + d
      BY <2>2, <3>1, <1>1, <1>3 DEF Handed, f
    <3>. HIDE DEF n, d, count
    <3>3. longer \in Seq(Frames) /\ Numbered(longer, n, d)
      BY <3>1, <3>2, <1>5, AppendNumbered
    <3>4. n = capture'.frames - Len(longer)
      <4>1. Len(longer) = Len(pending_cap) + 1 /\ Len(pending_cap) \in Nat
        BY <1>5
      <4>. QED  BY <4>1, <3>2, <1>5
    <3>. HIDE DEF longer
    <3>. QED  BY <3>2, <3>3, <3>4, <1>1, <1>5, <1>6, Zenon DEF PendingOK, Numbered
  <2>. QED  BY <2>1, <2>2
<1>. QED  BY <1>4, <1>7 DEF AudioInv

(* Frames with the same number are paired: how far their samples are apart is
   what was dropped of either stream. *)
LEMMA PairKeeps ==
  ASSUME AudioInv, Pair
  PROVE  AudioInv'
<1>. DEFINE k == IF Len(pending_ref) < Len(pending_cap) THEN Len(pending_ref) ELSE Len(pending_cap)
            n == Pairs  rd == render_ref.dropped  cd == capture.dropped
<1>1. /\ UNCHANGED << engine, in_side, out_side, tap, played, playback, capture, render_ref >>
      /\ paired' = {<<pending_ref[i], pending_cap[i]>> : i \in 1..k}
      /\ pending_ref' = SubSeq(pending_ref, k + 1, Len(pending_ref))
      /\ pending_cap' = SubSeq(pending_cap, k + 1, Len(pending_cap))
  BY DEF Pair, callbackVars
<1>2. StreamsOK' /\ Paced' /\ PlaybackOK' /\ in_side' \in Resamplers
  BY <1>1 DEF AudioInv, StreamsOK, Paced, PlaybackOK
<1>3. /\ pending_ref \in Seq(Frames) /\ pending_cap \in Seq(Frames) /\ engine \in Nat
      /\ n \in Nat /\ n = capture.frames - Len(pending_cap)
      /\ Numbered(pending_ref, n, rd) /\ Numbered(pending_cap, n, cd)
  BY DEF AudioInv, PendingOK
<1>4. n = render_ref.frames - Len(pending_ref)
  BY DEF Pairs
<1>5. rd \in Nat /\ cd \in Nat /\ render_ref.frames \in Nat /\ capture.frames \in Nat
  BY DEF AudioInv, StreamsOK, Streams
<1>6. Len(pending_ref) \in Nat /\ Len(pending_cap) \in Nat
  BY <1>3
<1>7. k \in Nat /\ k <= Len(pending_ref) /\ k <= Len(pending_cap)
  BY <1>6
<1>. HIDE DEF k, n, rd, cd
<1>8. /\ pending_ref' \in Seq(Frames) /\ Len(pending_ref') = Len(pending_ref) - k
      /\ Numbered(pending_ref', n + k, rd)
  BY <1>1, <1>3, <1>5, <1>7, CutNumbered
<1>9. /\ pending_cap' \in Seq(Frames) /\ Len(pending_cap') = Len(pending_cap) - k
      /\ Numbered(pending_cap', n + k, cd)
  BY <1>1, <1>3, <1>5, <1>7, CutNumbered
<1>10. PendingOK'
  <2>1. Pairs' = render_ref.frames - Len(pending_ref')
    BY <1>1 DEF Pairs
  <2>. DEFINE r == render_ref.frames  lr == Len(pending_ref)  lr2 == Len(pending_ref')
  <2>11. /\ Pairs' = r - lr2 /\ n = r - lr /\ lr2 = lr - k
         /\ r \in Nat /\ lr \in Nat /\ k \in Nat /\ n \in Nat
    BY <2>1, <1>3, <1>4, <1>5, <1>6, <1>7, <1>8
  <2>. HIDE DEF r, lr, lr2
  <2>2. Pairs' = n + k /\ n + k \in Nat
    BY <2>11
  <2>3. n + k = capture'.frames - Len(pending_cap')
    BY <1>1, <1>3, <1>5, <1>6, <1>7, <1>9
  <2>. DEFINE m == n + k
  <2>. HIDE DEF m
  <2>. QED  BY <2>2, <2>3, <1>1, <1>3, <1>8, <1>9, Zenon DEF PendingOK, Numbered, rd, cd
<1>11. PairedOK'
  <2>1. ASSUME NEW i \in 1..k
        PROVE  /\ pending_ref[i] \in Frames /\ pending_cap[i] \in Frames
               /\ pending_ref[i].engine = engine /\ pending_cap[i].engine = engine
               /\ pending_ref[i].first <= pending_cap[i].first + rd
               /\ pending_cap[i].first <= pending_ref[i].first + cd
    <3>1. i \in 1..Len(pending_ref) /\ i \in 1..Len(pending_cap) /\ i \in Nat
      BY <1>6, <1>7
    <3>2. pending_ref[i] \in Frames /\ pending_cap[i] \in Frames
      BY <3>1, <1>3
    <3>. DEFINE b == FrameSamples * (n + i - 1)  x == pending_ref[i].first  y == pending_cap[i].first
    <3>3. /\ pending_ref[i].engine = engine /\ b + 1 <= x /\ x <= b + 1 + rd
          /\ pending_cap[i].engine = engine /\ b + 1 <= y /\ y <= b + 1 + cd
      BY <3>1, <1>3 DEF Numbered
    <3>4. b \in Int
      <4>1. n + i - 1 \in Int
        BY <3>1, <1>3
      <4>. QED  BY <4>1, AudioAssumption
    <3>5. x \in Nat /\ y \in Nat
      BY <3>2 DEF Frames
    <3>. HIDE DEF b, x, y
    <3>6. x <= y + rd /\ y <= x + cd
      BY <3>3, <3>4, <3>5, <1>5
    <3>. QED  BY <3>2, <3>3, <3>6 DEF x, y
  <2>. SUFFICES ASSUME NEW p \in paired'
                PROVE  /\ p[1] \in Frames /\ p[2] \in Frames
                       /\ p[1].engine = p[2].engine /\ p[1].engine <= engine
                       /\ p[1].engine = engine => p[1].first <= p[2].first + rd /\ p[2].first <= p[1].first + cd
    BY <1>1, Zenon DEF PairedOK, rd, cd
  <2>2. PICK i \in 1..k : p = <<pending_ref[i], pending_cap[i]>>
    BY <1>1
  <2>3. p[1] = pending_ref[i] /\ p[2] = pending_cap[i] /\ engine <= engine
    BY <2>2, <1>3
  <2>. QED  BY <2>1, <2>3, Zenon
<1>. QED  BY <1>2, <1>10, <1>11 DEF AudioInv

LEMMA RebuildKeeps ==
  ASSUME AudioInv, Rebuild
  PROVE  AudioInv'
<1>1. /\ engine \in Nat /\ engine' = engine + 1 /\ pending_ref' = <<>> /\ pending_cap' = <<>>
      /\ paired' = paired
  BY DEF Rebuild, AudioInv, PendingOK
<1>2. PICK in_rate, out_rate \in EngineRates : Opened(in_rate, out_rate)
  BY DEF Rebuild
<1>3. in_rate \in Nat \ {0} /\ out_rate \in Nat \ {0}
  BY RatesArePositive
<1>4. FreshEngine(in_rate, out_rate)'
  <2>1. engine + 1 \in Nat
    BY <1>1
  <2>. QED  BY <2>1, <1>1, <1>2 DEF Opened, FreshEngine
<1>6. (in_side \in Resamplers /\ Paced /\ PlaybackOK /\ StreamsOK /\ PendingOK)'
  BY <1>3, <1>4, FreshEngineNext
<1>7. PairedOK'
  <2>. SUFFICES ASSUME NEW p \in paired
                PROVE  /\ p[1] \in Frames /\ p[2] \in Frames
                       /\ p[1].engine = p[2].engine /\ p[1].engine <= engine + 1
                       /\ p[1].engine # engine + 1
    BY <1>1, Zenon DEF PairedOK
  <2>1. /\ p[1] \in Frames /\ p[2] \in Frames
        /\ p[1].engine = p[2].engine /\ p[1].engine <= engine
    BY DEF AudioInv, PairedOK
  <2>. DEFINE e == p[1].engine
  <2>2. e \in Nat /\ e <= engine
    BY <2>1 DEF Frames
  <2>. HIDE DEF e
  <2>3. e <= engine + 1 /\ e # engine + 1
    BY <2>2, <1>1
  <2>. QED  BY <2>1, <2>3 DEF e
<1>. QED  BY <1>6, <1>7 DEF AudioInv

LEMMA AudioInvStep == AudioInv /\ [AudioNext]_audioRingVars => AudioInv'
<1>. SUFFICES ASSUME AudioInv, [AudioNext]_audioRingVars PROVE AudioInv'
  OBVIOUS
<1>1. CASE UNCHANGED << engine, in_side, out_side, tap, played, playback, capture, render_ref,
                        pending_ref, pending_cap >> /\ (paired' = paired \/ paired' = {})
  <2>1. in_side' \in Resamplers /\ Paced' /\ PlaybackOK' /\ StreamsOK' /\ PendingOK'
    BY <1>1 DEF AudioInv, Paced, PlaybackOK, StreamsOK, PendingOK, Pairs, Numbered
  <2>2. PairedOK'
    BY <1>1 DEF AudioInv, PairedOK
  <2>. QED  BY <2>1, <2>2 DEF AudioInv
<1>2. CASE InputCallback
  BY <1>2, InputFrameKeeps DEF InputCallback
<1>3. CASE OutputCallback
  BY <1>3, OutputFrameKeeps DEF OutputCallback
<1>4. CASE VpioInput
  <2>1. CASE OtherFormat
    BY <2>1, <1>1 DEF OtherFormat, callbackVars, pumpVars
  <2>2. CASE InputFrame
    BY <2>2, InputFrameKeeps
  <2>. QED  BY <2>1, <2>2, <1>4 DEF VpioInput
<1>5. CASE VpioRender
  <2>1. CASE OtherFormat
    BY <2>1, <1>1 DEF OtherFormat, callbackVars, pumpVars
  <2>2. CASE OutputFrame
    BY <2>2, OutputFrameKeeps
  <2>. QED  BY <2>1, <2>2, <1>5 DEF VpioRender
<1>6. CASE \E n \in 1..MaxPush : PushPlayback(n)
  BY <1>6, PushPlaybackKeeps
<1>7. CASE StartPump
  BY <1>7, <1>1 DEF StartPump, callbackVars
<1>8. CASE UNCHANGED audioRingVars
  BY <1>8, <1>1 DEF audioRingVars, callbackVars, pumpVars
<1>. QED
  BY <1>2, <1>3, <1>4, <1>5, <1>6, <1>7, <1>8, PumpRefKeeps, PumpCaptureKeeps, PairKeeps,
     RebuildKeeps DEF AudioNext

(* Every sample a callback made is in a ring, in a reader, in a frame that was
   handed over, or counted as dropped, and the echo reference never drifts from
   what is played, whatever the rates of the devices. *)
THEOREM SamplesAccounted == AudioSpec => []EverySampleAccounted
<1>1. AudioInit => AudioInv
  BY AudioInitInv
<1>2. AudioInv /\ [AudioNext]_audioRingVars => AudioInv'
  BY AudioInvStep
<1>3. AudioInv => EverySampleAccounted
  BY AudioInvImplies
<1>. QED  BY <1>1, <1>2, <1>3, PTL DEF AudioSpec

(* The frames the echo canceller gets together are of one engine, and no
   further apart than samples were dropped. *)
THEOREM FramesArePaired == AudioSpec => []PairsMatch
<1>1. AudioInit => AudioInv
  BY AudioInitInv
<1>2. AudioInv /\ [AudioNext]_audioRingVars => AudioInv'
  BY AudioInvStep
<1>3. AudioInv => PairsMatch
  BY AudioInvImplies
<1>. QED  BY <1>1, <1>2, <1>3, PTL DEF AudioSpec

----------------------------------------------------------------------------
(* The watchdog.  The silence it counts, and the fingerprint it compares with,
   are those of the world. *)
SilenceOK ==
  /\ silence \in Nat /\ mic_silence_elapsed \in Nat /\ mic_silence_elapsed <= silence
  /\ mic_stall_reported => silence >= MicStallTimeout

FingerprintOK ==
  /\ step \in {"loop", "open", "sign"}
  /\ step \in {"loop", "open"} => device_signature = Apply(opened)
  /\ step = "sign" => opened = devices
  /\ step \in {"open", "sign"} => new_signature \in {NoSignature, Apply(devices)}

WatchInv == SilenceOK /\ FingerprintOK

LEMMA WatchInitInv == WatchInit => WatchInv
<1>. SUFFICES ASSUME WatchInit PROVE WatchInv
  OBVIOUS
<1>1. SilenceOK
  BY DEF WatchInit, SilenceOK
<1>2. FingerprintOK
  BY DEF WatchInit, FingerprintOK
<1>. QED  BY <1>1, <1>2 DEF WatchInv

LEMMA SilenceStep == SilenceOK /\ [WatchNext]_watchVars => SilenceOK'
<1>. SUFFICES ASSUME SilenceOK, [WatchNext]_watchVars PROVE SilenceOK'
  OBVIOUS
<1>1. MicStallTimeout \in Nat /\ TickTimes \subseteq Nat
  BY WatchAssumption
<1>2. CASE UNCHANGED << silence, mic_silence_elapsed, mic_stall_reported >>
  BY <1>2 DEF SilenceOK
<1>3. ASSUME NEW dt \in TickTimes, WatchTick(dt)
      PROVE  SilenceOK'
  <2>1. /\ silence \in Nat /\ mic_silence_elapsed \in Nat /\ mic_silence_elapsed <= silence
        /\ mic_stall_reported => silence >= MicStallTimeout
        /\ dt \in Nat /\ MicStallTimeout \in Nat
    BY <1>1 DEF SilenceOK
  <2>2. CASE flowing
    <3>1. silence' = 0 /\ mic_silence_elapsed' = 0 /\ ~ mic_stall_reported'
      BY <1>3, <2>2 DEF WatchTick, CheckMic
    <3>. QED  BY <3>1 DEF SilenceOK
  <2>3. CASE ~ flowing
    <3>1. /\ mic_silence_elapsed' = CappedAt(MicStallTimeout, mic_silence_elapsed + dt)
          /\ silence' = CappedAt(MicStallTimeout, silence + dt)
          /\ mic_stall_reported' => mic_stall_reported \/ mic_silence_elapsed + dt >= MicStallTimeout
      BY <1>3, <2>3 DEF WatchTick, CheckMic
    <3>2. /\ silence' \in Nat /\ mic_silence_elapsed' \in Nat /\ mic_silence_elapsed' <= silence'
          /\ silence >= MicStallTimeout => silence' >= MicStallTimeout
          /\ mic_silence_elapsed + dt >= MicStallTimeout => silence' >= MicStallTimeout
      BY <2>1, <3>1 DEF CappedAt
    <3>. QED  BY <2>1, <3>1, <3>2 DEF SilenceOK
  <2>. QED  BY <2>2, <2>3
<1>4. CASE SignEngine
  BY <1>4 DEF SignEngine, SilenceOK
<1>. QED
  BY <1>2, <1>3, <1>4 DEF WatchNext, Orchestrate, DeadCapture, OpenEngine, FactoryFails,
     DefaultChanges, MicChanges, StreamFails, watchVars, micVars

LEMMA FingerprintStep ==
  ASSUME "change while opening" \notin WatchHazards
  PROVE  FingerprintOK /\ [WatchNext]_watchVars => FingerprintOK'
<1>. SUFFICES ASSUME FingerprintOK, [WatchNext]_watchVars PROVE FingerprintOK'
  OBVIOUS
<1>1. CASE UNCHANGED << step, device_signature, opened, devices, new_signature >>
  BY <1>1 DEF FingerprintOK, Apply
<1>2. ASSUME NEW dt \in TickTimes, WatchTick(dt)
      PROVE  FingerprintOK'
  BY <1>2 DEF FingerprintOK, WatchTick, CheckDevices, worldVars, rebuildVars, Apply
<1>3. CASE DeadCapture
  BY <1>3 DEF DeadCapture, FingerprintOK, worldVars, Apply
<1>4. CASE OpenEngine
  BY <1>4 DEF OpenEngine, FingerprintOK, Apply
<1>5. CASE SignEngine
  BY <1>5 DEF SignEngine, FingerprintOK, worldVars, Apply
<1>6. CASE FactoryFails
  BY <1>6 DEF FactoryFails, FingerprintOK, worldVars, Apply
<1>7. CASE DefaultChanges
  BY <1>7 DEF DefaultChanges, WorldMayMove, FingerprintOK, rebuildVars, Apply
<1>8. CASE MicChanges \/ StreamFails
  BY <1>8, <1>1 DEF MicChanges, StreamFails, rebuildVars
<1>. QED
  BY <1>1, <1>2, <1>3, <1>4, <1>5, <1>6, <1>7, <1>8 DEF WatchNext, Orchestrate, watchVars,
     worldVars, rebuildVars

(* Unless the default devices change while they are being opened, a healthy
   engine is left alone: a rebuild has a failed stream, a changed default or a
   silence of MicStallTimeout behind it. *)
THEOREM RebuildHasAReason ==
  ASSUME "change while opening" \notin WatchHazards
  PROVE  WatchSpec => HealthyEngineIsLeftAlone
<1>1. WatchInit => WatchInv
  BY WatchInitInv
<1>2. WatchInv /\ [WatchNext]_watchVars => WatchInv'
  BY SilenceStep, FingerprintStep DEF WatchInv
<1>3. WatchInv /\ WatchInv' /\ [WatchNext]_watchVars =>
        [step = "loop" /\ step' = "open" /\ new_signature' # NoSignature
           => failed \/ Apply(opened) # Apply(devices) \/ silence' >= MicStallTimeout]_watchVars
  <2>. SUFFICES ASSUME WatchInv, WatchInv', WatchNext, step = "loop", step' = "open",
                       new_signature' # NoSignature, ~ failed, Apply(opened) = Apply(devices)
                PROVE  silence' >= MicStallTimeout
    OBVIOUS
  <2>1. PICK dt \in TickTimes : WatchTick(dt)
    BY DEF WatchNext, Orchestrate, DeadCapture, OpenEngine, SignEngine, FactoryFails,
       DefaultChanges, MicChanges, StreamFails, rebuildVars
  <2>2. Verdict
    BY <2>1 DEF WatchTick, CheckDevices, rebuildVars
  <2>3. ~ Changed
    BY DEF Changed, WatchInv, FingerprintOK
  <2>4. mic_stall_reported'
    BY <2>2, <2>3 DEF Verdict, Stalled
  <2>. QED  BY <2>4 DEF WatchInv, SilenceOK
<1>. QED  BY <1>1, <1>2, <1>3, PTL DEF WatchSpec, HealthyEngineIsLeftAlone
=============================================================================
