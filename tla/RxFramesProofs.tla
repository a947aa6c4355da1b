--------------------------- MODULE RxFramesProofs ---------------------------
(***************************************************************************)
(* Proofs about frame_equalizer and decode_mac, for any number of frames,  *)
(* any lengths of the fields and of the frames, any size of the stream     *)
(* buffer between the two threads and any contents of uninitialised        *)
(* members.                                                                *)
(***************************************************************************)
EXTENDS RxFrames, SequenceTheorems, TLAPS

USE ChannelAssumption, FieldAssumption, DecodeMacAssumption

-----------------------------------------------------------------------------
(* The inductive invariant: what frame_equalizer keeps.                    *)

\* Symbols in front of a frame's data field.
Preamble == LTF1 + SIG

Ok(f) == header[f].outcome = "ok"

\* The counters follow the symbols of the frame until its end, where they stop.
Counters ==
    rx.place > 0 =>
        /\ d_current_symbol <= rx.place
        /\ d_current_symbol < rx.place =>
              d_current_symbol > d_frame_symbols + LTF1 + SIG
        /\ rx.place <= Preamble => d_current_symbol = rx.place
        /\ rx.place >= Preamble => d_current_symbol >= Preamble
        /\ rx.place < Preamble => d_frame_symbols = 0
        /\ d_sig = IF rx.place <= LTF1 THEN 0
                   ELSE IF rx.place < Preamble THEN rx.place - LTF1 ELSE SIG

\* The header of the present frame is known once all of it was received.
HeaderKnown ==
    /\ \A f \in Frames :
          f > rx.frame \/ (f = rx.frame /\ rx.place < Preamble) =>
             header[f].outcome = "none"
    /\ rx.place >= Preamble =>
          /\ header[rx.frame].outcome # "none"
          /\ header[rx.frame].n = rx.n
          /\ Ok(rx.frame) => d_frame_symbols = rx.n

\* Whether the present frame was received to its end; later ones were not.
WholeKnown ==
    /\ \A f \in Frames : f > rx.frame => f \notin whole
    /\ rx.frame \in whole => rx.place >= Preamble + rx.n

\* The training symbols so far make up the estimate.
Estimate ==
    (rx.place > 0 /\ rx.frame \notin reset) =>
        d_H = {rx.frame} \X
                 (0 .. (IF rx.place < LTF1 THEN rx.place ELSE LTF1) - 1)

\* Tags wait for the first data symbol of their frame, or for nothing.
Waiting ==
    /\ rx.place = Preamble =>
          /\ Ok(rx.frame) => pending = [frame |-> rx.frame, n_sym |-> rx.n]
          /\ header[rx.frame].outcome = "wrong" => pending.frame = rx.frame
    /\ (rx.place > Preamble /\ pending # NoTag) =>
          d_current_symbol > d_frame_symbols + LTF1 + SIG

EqInv ==
    /\ EqTypeOK
    /\ Counters
    /\ HeaderKnown
    /\ WholeKnown
    /\ Estimate
    /\ Waiting

-----------------------------------------------------------------------------
(* The inductive invariant: the stream between the two blocks.             *)

SymbolRight(s) ==
    /\ s.k >= 1
    /\ s.frame <= rx.frame
    /\ header[s.frame].outcome # "none"
    /\ s.n = header[s.frame].n
    /\ (s.k = 1 /\ Ok(s.frame)) => s.tag = [frame |-> s.frame, n_sym |-> s.n]
    /\ s.tag # NoTag =>
          /\ s.k = 1
          /\ \/ s.tag.frame = s.frame
             \/ header[s.frame].outcome \in {"badcrc", "unsupported"}
    /\ s.clean \/ s.frame \in reset
    /\ Ok(s.frame) => s.k <= s.n + 1

SymbolsRight == \A j \in 1 .. Len(chan) : SymbolRight(chan[j])

\* No symbol of the frame is missing behind s.
Ended(s) == (s.frame \in whole /\ Ok(s.frame)) => s.k >= s.n

\* Symbol t comes next after s in the stream.
Successor(s, t) ==
    \/ t.frame = s.frame /\ t.k = s.k + 1
    \/ t.frame > s.frame /\ t.k = 1 /\ Ended(s)

\* A symbol of the present frame was sent.
Sending == rx.place > Preamble /\ d_current_symbol > Preamble

\* The stream has no gap, up to what frame_equalizer sends next.
Contiguous ==
    /\ \A j \in 1 .. Len(chan) - 1 : Successor(chan[j], chan[j + 1])
    /\ chan # <<>> =>
          LET s == chan[Len(chan)]
          IN  IF Sending THEN /\ s.frame = rx.frame
                              /\ s.k = d_current_symbol - Preamble
              ELSE s.frame < rx.frame /\ Ended(s)

-----------------------------------------------------------------------------
(* The inductive invariant: what decode_mac keeps.                         *)

\* decode_mac when it has taken the symbols of frame f before the k-th.
Follows(f, k) ==
    /\ d_meta.frame = f
    /\ header[f].n <= MAX_SYM =>
          /\ n_sym = header[f].n
          /\ copied = IF k <= n_sym THEN k - 1 ELSE n_sym
          /\ \A j \in 1 .. copied :
                /\ d_encoded_bits[j].frame = f
                /\ d_encoded_bits[j].k = j
                /\ d_encoded_bits[j].n = n_sym
                /\ d_encoded_bits[j].clean \/ f \in reset

\* Unless a frame begins, decode_mac is where the next symbol needs it.
Following ==
    IF chan # <<>>
    THEN (chan[1].k > 1 /\ Ok(chan[1].frame)) =>
            Follows(chan[1].frame, chan[1].k)
    ELSE (Sending /\ Ok(rx.frame)) =>
            Follows(rx.frame, d_current_symbol - Preamble + 1)

Published ==
    /\ Len(d_encoded_bits) = copied
    /\ \A i \in 1 .. Len(out) : header[out[i].frame].outcome # "none"
    /\ OwnMetadata
    /\ WholeFramePublished

IInv ==
    /\ EqInv
    /\ MacTypeOK
    /\ SymbolsRight
    /\ Contiguous
    /\ Following
    /\ Published
-----------------------------------------------------------------------------
(* What the actions of frame_equalizer have in common.                     *)

\* The types of what the input symbol is made of.
LEMMA InputTypes ==
    ASSUME EqTypeOK
    PROVE  /\ rx.frame \in Nat /\ rx.frame \in 1 .. FRAMES
           /\ rx.place \in Nat
           /\ rx.n \in NSYMS /\ rx.n \in Nat /\ rx.n > 0
           /\ LTF1 \in Nat /\ SIG \in Nat /\ Preamble \in Nat
           /\ 0 < LTF1 /\ LTF1 < Preamble
           /\ d_current_symbol \in Nat /\ d_frame_symbols \in Int /\ d_sig \in Nat
           /\ Current \in Nat /\ FrameSymbols \in Int /\ SigCount \in 0 .. SIG
<1>1. rx \in [frame : Frames, place : Nat, n : NSYMS]
  BY DEF EqTypeOK
<1>2. d_current_symbol \in Nat /\ d_frame_symbols \in Int /\ d_sig \in 0 .. SIG
  BY DEF EqTypeOK
<1>3. /\ rx.frame \in Nat /\ rx.frame \in 1 .. FRAMES
      /\ rx.place \in Nat
      /\ rx.n \in NSYMS /\ rx.n \in Nat /\ rx.n > 0
  <2>1. rx.frame \in Frames /\ rx.place \in Nat /\ rx.n \in NSYMS
    BY <1>1
  <2>2. rx.frame \in 1 .. FRAMES /\ rx.frame \in Nat
    BY <2>1 DEF Frames
  <2>3. rx.n \in Nat /\ rx.n > 0
    <3>1. rx.n \in Nat \ {0}
      BY <2>1, Zenon
    <3>. QED  BY <3>1
  <2>. QED  BY <2>1, <2>2, <2>3
<1>4. /\ LTF1 \in Nat /\ SIG \in Nat /\ Preamble \in Nat
      /\ 0 < LTF1 /\ LTF1 < Preamble
  BY DEF Preamble
<1>5. Current \in Nat /\ FrameSymbols \in Int /\ SigCount \in 0 .. SIG
  BY <1>2, <1>4 DEF Current, FrameSymbols, SigCount
<1>6. d_sig \in Nat
  BY <1>2, <1>4
<1>. QED  BY <1>2, <1>3, <1>4, <1>5, <1>6

\* A frame's first symbol resets the counters; from then on they are the block's
\* own, and Counters holds of what an action works with.
LEMMA CurrentCounters ==
    ASSUME EqTypeOK, Counters
    PROVE  /\ Current <= rx.place
           /\ Current < rx.place => AtEnd
           /\ rx.place <= Preamble => Current = rx.place
           /\ rx.place >= Preamble => Current >= Preamble
           /\ rx.place < Preamble => FrameSymbols = 0
           /\ rx.place > 0 => Current = d_current_symbol /\ FrameSymbols = d_frame_symbols
           /\ SigCount = IF rx.place <= LTF1 THEN 0
                         ELSE IF rx.place < Preamble THEN rx.place - LTF1 ELSE SIG
BY InputTypes DEF Counters, Current, FrameSymbols, SigCount, Tagged, AtEnd

\* What comes next is the frame's next symbol or the first one of the next frame.
LEMMA Consumed ==
    ASSUME EqTypeOK, Consume
    PROVE  /\ rx' \in [frame : Frames, place : Nat, n : NSYMS]
           /\ \/ rx'.frame = rx.frame /\ rx'.place = rx.place + 1 /\ rx'.n = rx.n
              \/ rx'.frame = rx.frame + 1 /\ rx'.place = 0
           /\ rx'.frame \in 1 .. FRAMES
           /\ whole' \subseteq Frames
           /\ \A f : f \in whole' <=>
                 (f \in whole \/ (f = rx.frame /\ rx.place = Preamble + rx.n - 1))
<1>1. /\ rx' \in [frame : Frames, place : Nat, n : NSYMS]
      /\ \/ rx'.frame = rx.frame /\ rx'.place = rx.place + 1 /\ rx'.n = rx.n
         \/ rx'.frame = rx.frame + 1 /\ rx'.place = 0
  <2>1. CASE rx' = [rx EXCEPT !.place = @ + 1]
    <3>1. rx \in [frame : Frames, place : Nat, n : NSYMS]
      BY DEF EqTypeOK
    <3>. QED  BY <2>1, <3>1
  <2>2. CASE rx.frame < FRAMES /\ rx' \in [frame : {rx.frame + 1}, place : {0}, n : NSYMS]
    <3>1. rx.frame + 1 \in Frames
      BY <2>2, InputTypes DEF Frames
    <3>. QED  BY <2>2, <3>1
  <2>. QED  BY <2>1, <2>2 DEF Consume
<1>2. /\ whole' \subseteq Frames
      /\ \A f : f \in whole' <=>
            (f \in whole \/ (f = rx.frame /\ rx.place = Preamble + rx.n - 1))
  BY DEF Consume, EqTypeOK, Preamble
<1>. QED  BY <1>1, <1>2 DEF Frames

\* parse_signal enters one header; a right one announces its own frame.
LEMMA SignalParsed ==
    ASSUME EqTypeOK, parse_signal
    PROVE  /\ header' \in [Frames -> [outcome : Outcomes, n : NSYMS \cup {0}]]
           /\ \A f \in Frames \ {rx.frame} : header'[f] = header[f]
           /\ header'[rx.frame].outcome # "none"
           /\ header'[rx.frame].n = rx.n
           /\ d_frame_symbols' \in Int
           /\ pending' \in Tags
           /\ header'[rx.frame].outcome = "ok" =>
                /\ d_frame_symbols' = rx.n
                /\ pending' = [frame |-> rx.frame, n_sym |-> rx.n]
           /\ header'[rx.frame].outcome = "wrong" => pending'.frame = rx.frame
<1>1. PICK outcome \in Outcomes \ {"none"} :
        /\ header' = [header EXCEPT ![rx.frame] = [outcome |-> outcome, n |-> rx.n]]
        /\ CASE outcome = "ok" ->
                  /\ d_frame_symbols' = rx.n
                  /\ pending' = [frame |-> rx.frame, n_sym |-> rx.n]
             [] outcome = "wrong" ->
                  \E m \in NSYMS \ {rx.n} :
                     /\ d_frame_symbols' = m
                     /\ pending' = [frame |-> rx.frame, n_sym |-> m]
             [] outcome = "badcrc" ->
                  /\ d_frame_symbols' = FrameSymbols
                  /\ UNCHANGED pending
             [] outcome = "unsupported" ->
                  /\ d_frame_symbols' \in GARBAGE
                  /\ UNCHANGED pending
  BY DEF parse_signal
<1>2. /\ header' \in [Frames -> [outcome : Outcomes, n : NSYMS \cup {0}]]
      /\ \A f \in Frames \ {rx.frame} : header'[f] = header[f]
      /\ header'[rx.frame] = [outcome |-> outcome, n |-> rx.n]
  BY <1>1, InputTypes DEF EqTypeOK
<1>3. CASE outcome = "ok"
  BY SMTT(40), <1>1, <1>2, <1>3, InputTypes DEF Tags, Frames
<1>4. CASE outcome = "wrong"
  <2>1. PICK m \in NSYMS : d_frame_symbols' = m
                            /\ pending' = [frame |-> rx.frame, n_sym |-> m]
    BY <1>1, <1>4
  <2>2. pending' \in Tags /\ pending'.frame = rx.frame
    BY <2>1, InputTypes DEF Tags, Frames
  <2>3. d_frame_symbols' \in Int
    BY <2>1
  <2>4. /\ header'[rx.frame].outcome = "wrong"
        /\ header'[rx.frame].n = rx.n
    BY <1>2, <1>4
  <2>. QED  BY <1>2, <2>2, <2>3, <2>4
<1>5. CASE outcome = "badcrc"
  BY SMTT(40), <1>1, <1>2, <1>5, InputTypes DEF EqTypeOK
<1>6. CASE outcome = "unsupported"
  BY <1>1, <1>2, <1>6 DEF EqTypeOK
<1>. QED  BY <1>3, <1>4, <1>5, <1>6 DEF Outcomes
-----------------------------------------------------------------------------
(* frame_equalizer keeps its part of the invariant.                        *)

\* What became known stays known when a symbol is consumed that enters no header.
LEMMA NoHeaderStep ==
    ASSUME EqInv, Consume, header' = header, rx.place # Preamble - 1,
           d_frame_symbols' = FrameSymbols
    PROVE  HeaderKnown' /\ WholeKnown'
<1>. USE DEF EqInv
<1>1. /\ \/ rx'.frame = rx.frame /\ rx'.place = rx.place + 1 /\ rx'.n = rx.n
         \/ rx'.frame = rx.frame + 1 /\ rx'.place = 0
      /\ rx'.frame \in Nat
      /\ \A f : f \in whole' <=>
            (f \in whole \/ (f = rx.frame /\ rx.place = Preamble + rx.n - 1))
  BY Consumed
<1>2. \A f \in Frames : f \in Nat
  BY DEF Frames
<1>3. HeaderKnown'
  BY <1>1, <1>2, InputTypes, CurrentCounters DEF HeaderKnown, Preamble, Ok
<1>4. WholeKnown'
  <2>1. ASSUME NEW f \in Frames, f > rx'.frame
        PROVE  f \notin whole'
    BY <1>1, <1>2, <2>1, InputTypes DEF WholeKnown
  <2>2. ASSUME rx'.frame \in whole'
        PROVE  rx'.place >= Preamble + rx'.n
    <3>1. CASE rx'.frame = rx.frame /\ rx'.place = rx.place + 1 /\ rx'.n = rx.n
      BY <1>1, <2>2, <3>1, InputTypes DEF WholeKnown
    <3>2. CASE rx'.frame = rx.frame + 1
      <4>1. rx'.frame \in Frames
        BY Consumed DEF Frames
      <4>. QED  BY <1>1, <2>2, <3>2, <4>1, InputTypes DEF WholeKnown
    <3>. QED  BY <1>1, <3>1, <3>2
  <2>. QED  BY <2>1, <2>2 DEF WholeKnown, Preamble
<1>. QED  BY <1>3, <1>4

\* frame_equalizer drops a symbol behind the end of a frame.
LEMMA DropEq ==
    ASSUME EqInv, Drop
    PROVE  EqInv'
<1>. USE DEF EqInv
<1>1. /\ rx' \in [frame : Frames, place : Nat, n : NSYMS]
      /\ \/ rx'.frame = rx.frame /\ rx'.place = rx.place + 1 /\ rx'.n = rx.n
         \/ rx'.frame = rx.frame + 1 /\ rx'.place = 0
      /\ whole' \subseteq Frames
  BY Consumed DEF Drop
<1>2. rx.place >= Preamble
  BY InputTypes, CurrentCounters DEF Drop, AtEnd, Preamble
<1>3. EqTypeOK'
  BY <1>1, InputTypes DEF EqTypeOK, Drop
<1>4. Counters'
  BY <1>1, <1>2, InputTypes, CurrentCounters DEF Counters, Drop, AtEnd, Preamble
<1>5. HeaderKnown' /\ WholeKnown'
  BY <1>2, InputTypes, NoHeaderStep DEF Drop
<1>6. Estimate'
  BY <1>1, <1>2, InputTypes DEF Estimate, Drop
<1>7. Waiting'
  BY <1>1, <1>2, InputTypes, CurrentCounters DEF Waiting, Drop, AtEnd, Ok, Preamble
<1>. QED  BY <1>3, <1>4, <1>5, <1>6, <1>7

\* It takes a training symbol into its estimate.
LEMMA TrainEq ==
    ASSUME EqInv, Train
    PROVE  EqInv'
<1>. USE DEF EqInv
<1>1. /\ rx' \in [frame : Frames, place : Nat, n : NSYMS]
      /\ \/ rx'.frame = rx.frame /\ rx'.place = rx.place + 1 /\ rx'.n = rx.n
         \/ rx'.frame = rx.frame + 1 /\ rx'.place = 0
      /\ whole' \subseteq Frames
  BY Consumed DEF Train
<1>2. rx.place < LTF1 /\ Current = rx.place
  BY InputTypes, CurrentCounters DEF Train
<1>3. EqTypeOK'
  <2>1. d_H' \subseteq Frames \X (0 .. LTF1 - 1)
    <3>1. <<rx.frame, Current>> \in Frames \X (0 .. LTF1 - 1)
      BY <1>2, InputTypes DEF Frames
    <3>2. d_H \subseteq Frames \X (0 .. LTF1 - 1)
      BY DEF EqTypeOK
    <3>. QED  BY <3>1, <3>2 DEF Train, EstimateChannel
  <2>2. /\ d_current_symbol' \in Nat /\ d_frame_symbols' \in Int /\ d_sig' \in 0 .. SIG
        /\ UNCHANGED <<chan, pending, header, reset>>
    BY InputTypes DEF Train
  <2>. QED  BY <1>1, <2>1, <2>2 DEF EqTypeOK
<1>4. Counters'
  BY <1>1, <1>2, InputTypes, CurrentCounters DEF Counters, Train, Preamble
<1>5. HeaderKnown' /\ WholeKnown'
  BY <1>2, InputTypes, NoHeaderStep DEF Train, Preamble
<1>6. Estimate'
  <2>. SUFFICES ASSUME rx'.place > 0, rx'.frame \notin reset
                PROVE  d_H' = {rx'.frame} \X
                         (0 .. (IF rx'.place < LTF1 THEN rx'.place ELSE LTF1) - 1)
    BY DEF Estimate, Train
  <2>1. /\ rx'.frame = rx.frame /\ rx'.place = rx.place + 1
        /\ (IF rx'.place < LTF1 THEN rx'.place ELSE LTF1) - 1 = rx.place
    BY <1>1, <1>2, InputTypes
  <2>2. CASE rx.place = 0
    <3>1. d_H' = {<<rx.frame, 0>>}
      BY <1>2, <2>2 DEF Train, EstimateChannel
    <3>. QED  BY <2>1, <2>2, <3>1
  <2>3. CASE rx.place # 0
    <3>1. d_H = {rx.frame} \X (0 .. rx.place - 1)
      BY <1>2, <2>1, <2>3, InputTypes DEF Estimate
    <3>2. d_H' = d_H \cup {<<rx.frame, rx.place>>}
      BY <1>2, <2>3 DEF Train, EstimateChannel
    <3>3. 0 .. rx.place = (0 .. rx.place - 1) \cup {rx.place}
      BY InputTypes
    <3>4. d_H' = {rx.frame} \X (0 .. rx.place)
      BY <3>1, <3>2, <3>3
    <3>. QED  BY <2>1, <3>4
  <2>. QED  BY <2>2, <2>3
<1>7. Waiting'
  BY <1>1, <1>2, InputTypes DEF Waiting, Preamble
<1>. QED  BY <1>3, <1>4, <1>5, <1>6, <1>7

\* It takes a symbol of the SIG field; the last one settles the header.
LEMMA SignalEq ==
    ASSUME EqInv, Signal
    PROVE  EqInv'
<1>. USE DEF EqInv
<1>1. /\ rx' \in [frame : Frames, place : Nat, n : NSYMS]
      /\ \/ rx'.frame = rx.frame /\ rx'.place = rx.place + 1 /\ rx'.n = rx.n
         \/ rx'.frame = rx.frame + 1 /\ rx'.place = 0
      /\ rx'.frame \in Nat
      /\ whole' \subseteq Frames
      /\ \A f : f \in whole' <=>
            (f \in whole \/ (f = rx.frame /\ rx.place = Preamble + rx.n - 1))
  BY Consumed DEF Signal
<1>2. /\ LTF1 <= rx.place /\ rx.place < Preamble /\ Current = rx.place
      /\ SigCount = rx.place - LTF1
  BY InputTypes, CurrentCounters DEF Signal, Preamble
<1>3. CASE rx.place # Preamble - 1
  <2>1. UNCHANGED <<pending, header, chan, d_H, reset>> /\ d_frame_symbols' = FrameSymbols
    BY <1>2, <1>3, InputTypes DEF Signal, Preamble
  <2>2. d_current_symbol' = rx.place + 1 /\ d_sig' = rx.place - LTF1 + 1
    BY <1>2 DEF Signal
  <2>3. EqTypeOK'
    <3>1. d_current_symbol' \in Nat /\ d_frame_symbols' \in Int /\ d_sig' \in 0 .. SIG
      BY <1>2, <2>1, <2>2, InputTypes DEF Preamble
    <3>. QED  BY <1>1, <2>1, <3>1 DEF EqTypeOK
  <2>4. Counters'
    BY <1>1, <1>2, <1>3, <2>1, <2>2, InputTypes, CurrentCounters DEF Counters, Preamble
  <2>5. HeaderKnown' /\ WholeKnown'
    BY <1>3, <2>1, NoHeaderStep DEF Signal
  <2>6. Estimate'
    BY <1>1, <1>2, <2>1, InputTypes DEF Estimate
  <2>7. Waiting'
    BY <1>1, <1>2, <1>3, InputTypes DEF Waiting, Preamble
  <2>. QED  BY <2>3, <2>4, <2>5, <2>6, <2>7
<1>4. CASE rx.place = Preamble - 1
  <2>1. parse_signal /\ UNCHANGED <<chan, d_H, reset>>
    BY <1>2, <1>4, InputTypes DEF Signal, Preamble
  <2>2. d_current_symbol' = Preamble /\ d_sig' = SIG
    BY <1>2, <1>4, InputTypes DEF Signal, Preamble
  <2>3. EqTypeOK'
    <3>1. d_current_symbol' \in Nat /\ d_sig' \in 0 .. SIG
      BY <2>2, InputTypes
    <3>2. /\ header' \in [Frames -> [outcome : Outcomes, n : NSYMS \cup {0}]]
          /\ d_frame_symbols' \in Int
          /\ pending' \in Tags
      BY <2>1, SignalParsed
    <3>. QED  BY <1>1, <2>1, <3>1, <3>2 DEF EqTypeOK
  <2>4. Counters'
    BY <1>1, <1>4, <2>2, InputTypes DEF Counters, Preamble
  <2>5. HeaderKnown'
    <3>1. \A f \in Frames : f > rx.frame => header'[f].outcome = "none"
      BY <2>1, SignalParsed, InputTypes DEF HeaderKnown
    <3>2. \A f \in Frames : f \in Nat
      BY DEF Frames
    <3>3. /\ header'[rx.frame].outcome # "none"
          /\ header'[rx.frame].n = rx.n
          /\ header'[rx.frame].outcome = "ok" => d_frame_symbols' = rx.n
      BY <2>1, SignalParsed
    <3>. QED  BY <1>1, <1>4, <3>1, <3>2, <3>3, InputTypes DEF HeaderKnown, Ok, Preamble
  <2>6. WholeKnown'
    <3>1. \A f \in Frames : f \in Nat
      BY DEF Frames
    <3>. QED  BY <1>1, <1>2, <3>1, InputTypes DEF WholeKnown, Preamble
  <2>7. Estimate'
    BY <1>1, <1>2, <2>1, InputTypes DEF Estimate
  <2>8. Waiting'
    BY <1>1, <1>4, <2>1, SignalParsed, InputTypes DEF Waiting, Ok, Preamble
  <2>. QED  BY <2>3, <2>4, <2>5, <2>6, <2>7, <2>8
<1>. QED  BY <1>3, <1>4

\* The symbol that Data sends.
Sent == [frame |-> rx.frame, k |-> rx.place - LTF1 - SIG + 1, n |-> rx.n,
         clean |-> d_H = OwnEstimate, tag |-> pending]

\* A data symbol is sent at its place in the frame.
LEMMA DataPlace ==
    ASSUME EqInv, Data
    PROVE  /\ rx.place >= Preamble
           /\ Current = rx.place /\ d_current_symbol = rx.place
           /\ rx.place <= d_frame_symbols + Preamble
           /\ FrameSymbols = d_frame_symbols
           /\ Sent \in Symbols
           /\ Sent.k = rx.place - Preamble + 1
           /\ chan' = Append(chan, Sent)
<1>. USE DEF EqInv
<1>1. /\ rx.place >= Preamble
      /\ Current = rx.place /\ d_current_symbol = rx.place
      /\ rx.place <= d_frame_symbols + Preamble
      /\ FrameSymbols = d_frame_symbols
  <2>1. ~AtEnd /\ Preamble <= Current
    BY DEF Data, Preamble
  <2>2. Current = rx.place
    BY <2>1, InputTypes, CurrentCounters
  <2>3. rx.place > 0
    BY <2>1, <2>2, InputTypes
  <2>4. d_current_symbol = Current /\ FrameSymbols = d_frame_symbols
    BY <2>3, CurrentCounters
  <2>5. Current <= FrameSymbols + Preamble
    BY <2>1, InputTypes DEF AtEnd, Preamble
  <2>. QED  BY <2>1, <2>2, <2>4, <2>5
<1>2. pending \in Tags
  BY DEF EqTypeOK
<1>3. Sent.k = rx.place - Preamble + 1 /\ Sent.k \in Nat
  BY <1>1, InputTypes DEF Sent, Preamble
<1>4. Sent \in Symbols
  BY <1>2, <1>3, InputTypes DEF Sent, Symbols, Frames
<1>. QED  BY <1>1, <1>3, <1>4 DEF Data, Sent

\* It equalises a data symbol, with the tags that wait for one.
LEMMA DataEq ==
    ASSUME EqInv, Data
    PROVE  EqInv'
<1>. USE DEF EqInv
<1>1. /\ rx' \in [frame : Frames, place : Nat, n : NSYMS]
      /\ \/ rx'.frame = rx.frame /\ rx'.place = rx.place + 1 /\ rx'.n = rx.n
         \/ rx'.frame = rx.frame + 1 /\ rx'.place = 0
      /\ whole' \subseteq Frames
  BY Consumed DEF Data
<1>2. /\ d_current_symbol' = rx.place + 1
      /\ d_frame_symbols' = FrameSymbols /\ d_sig' = SigCount
      /\ pending' = NoTag
      /\ UNCHANGED <<d_H, header, reset>>
  BY DataPlace DEF Data
<1>3. EqTypeOK'
  <2>1. chan' \in Seq(Symbols) /\ Len(chan') <= CAPACITY
    <3>1. chan \in Seq(Symbols) /\ Len(chan) \in Nat /\ Len(chan) < CAPACITY
      BY LenProperties DEF EqTypeOK, Data, Room
    <3>. QED  BY <3>1, DataPlace, AppendProperties
  <2>2. d_current_symbol' \in Nat /\ d_frame_symbols' \in Int /\ d_sig' \in 0 .. SIG
    BY <1>2, InputTypes
  <2>3. pending' \in Tags
    BY <1>2 DEF Tags
  <2>. QED  BY <1>1, <1>2, <2>1, <2>2, <2>3 DEF EqTypeOK
<1>4. Counters'
  <2>1. CASE rx'.place = rx.place + 1
    <3>1. rx.place > LTF1 /\ rx.place >= Preamble
      BY DataPlace, InputTypes
    <3>2. SigCount = IF rx.place < Preamble THEN rx.place - LTF1 ELSE SIG
      BY <3>1, InputTypes, CurrentCounters
    <3>. QED  BY <1>2, <2>1, <3>1, <3>2, InputTypes DEF Counters
  <2>2. CASE rx'.place = 0
    BY <2>2 DEF Counters
  <2>. QED  BY <1>1, <2>1, <2>2
<1>5. HeaderKnown' /\ WholeKnown'
  BY <1>2, DataPlace, InputTypes, NoHeaderStep DEF Data
<1>6. Estimate'
  <2>1. CASE rx'.frame = rx.frame /\ rx'.place = rx.place + 1
    BY SMTT(40), <1>2, <2>1, DataPlace, InputTypes DEF Estimate
  <2>2. CASE rx'.place = 0
    BY <2>2 DEF Estimate
  <2>. QED  BY <1>1, <2>1, <2>2
<1>7. Waiting'
  BY SMTT(40), <1>1, <1>2, DataPlace, InputTypes DEF Waiting
<1>. QED  BY <1>3, <1>4, <1>5, <1>6, <1>7

\* set_algorithm gives it an empty estimate in the middle of a frame.
LEMMA ResetEq ==
    ASSUME EqInv, set_algorithm
    PROVE  EqInv'
<1>. USE DEF EqInv, set_algorithm
<1>1. EqTypeOK'
  <2>1. reset' \subseteq Frames
    BY InputTypes DEF EqTypeOK, Frames
  <2>. QED  BY <2>1 DEF EqTypeOK
<1>2. Counters' /\ HeaderKnown' /\ WholeKnown' /\ Waiting'
  BY DEF Counters, HeaderKnown, WholeKnown, Waiting, Ok
<1>3. Estimate'
  BY InputTypes DEF Estimate, Tagged
<1>. QED  BY <1>1, <1>2, <1>3

-----------------------------------------------------------------------------
(* The stream between the blocks.                                          *)

\* A symbol in the stream stays right as long as headers are not entered twice.
LEMMA SymbolStaysRight ==
    ASSUME EqTypeOK, EqTypeOK', NEW s \in Symbols, SymbolRight(s),
           rx'.frame >= rx.frame, reset \subseteq reset',
           \A f \in Frames : header[f].outcome # "none" => header'[f] = header[f]
    PROVE  SymbolRight(s)'
<1>1. s.frame \in Frames /\ s.frame \in Nat /\ rx.frame \in Nat /\ rx'.frame \in Nat
  <2>1. s.frame \in Frames
    BY DEF Symbols
  <2>2. rx'.frame \in Frames
    BY DEF EqTypeOK
  <2>. QED  BY <2>1, <2>2, InputTypes DEF Frames
<1>2. header'[s.frame] = header[s.frame]
  BY <1>1 DEF SymbolRight
<1>. QED  BY <1>1, <1>2 DEF SymbolRight, Ok

\* What the stream is made of.
LEMMA StreamTypes ==
    ASSUME EqTypeOK
    PROVE  /\ chan \in Seq(Symbols) /\ Len(chan) \in Nat
           /\ \A j \in 1 .. Len(chan) : chan[j] \in Symbols /\ chan[j].frame \in Frames
<1>1. chan \in Seq(Symbols)
  BY DEF EqTypeOK
<1>2. Len(chan) \in Nat
  BY <1>1, LenProperties
<1>3. \A j \in 1 .. Len(chan) : chan[j] \in Symbols
  BY <1>1, ElementOfSeq
<1>4. \A s \in Symbols : s.frame \in Frames
  BY DEF Symbols
<1>. QED  BY <1>1, <1>2, <1>3, <1>4

\* frame_equalizer sends nothing: what is in the stream, and where decode_mac is,
\* stay right if no frame is left before its last symbol was sent.
LEMMA QuietStep ==
    ASSUME IInv, EqInv', UNCHANGED <<chan, macVars>>,
           rx'.frame >= rx.frame, reset \subseteq reset',
           \A f \in Frames : header[f].outcome # "none" => header'[f] = header[f],
           \A f \in Frames : (f \in whole' /\ Ok(f)') => (f \in whole /\ Ok(f)),
           Sending' => /\ Sending
                       /\ rx'.frame = rx.frame
                       /\ d_current_symbol' = d_current_symbol,
           (Sending /\ ~Sending') =>
                       /\ rx'.frame > rx.frame
                       /\ Ok(rx.frame) => d_current_symbol - Preamble >= rx.n
    PROVE  IInv'
<1>. USE DEF IInv, EqInv
<1>1. chan \in Seq(Symbols) /\ Len(chan) \in Nat
      /\ \A j \in 1 .. Len(chan) : chan[j] \in Symbols /\ chan[j].frame \in Frames
  BY StreamTypes
<1>2. SymbolsRight'
  BY <1>1, SymbolStaysRight DEF SymbolsRight
<1>3. \A j \in 1 .. Len(chan) : header'[chan[j].frame] = header[chan[j].frame]
  BY <1>1 DEF SymbolsRight, SymbolRight
<1>4. \A j \in 1 .. Len(chan) : Ended(chan[j]) => Ended(chan[j])'
  BY <1>1, <1>3 DEF Ended, Ok
<1>5. Contiguous'
  <2>1. \A j \in 1 .. Len(chan) - 1 : Successor(chan[j], chan[j + 1])'
    <3>. SUFFICES ASSUME NEW j \in 1 .. Len(chan) - 1
                  PROVE  Successor(chan[j], chan[j + 1])'
      OBVIOUS
    <3>1. j \in 1 .. Len(chan) /\ Successor(chan[j], chan[j + 1])
      BY <1>1 DEF Contiguous
    <3>. QED  BY <1>4, <3>1 DEF Successor
  <2>2. ASSUME chan # <<>>
        PROVE  LET s == chan[Len(chan)]
               IN  IF Sending' THEN /\ s.frame = rx'.frame
                                    /\ s.k = d_current_symbol' - Preamble
                   ELSE s.frame < rx'.frame /\ Ended(s)'
    <3>. DEFINE s == chan[Len(chan)]
    <3>1. Len(chan) \in 1 .. Len(chan) /\ SymbolRight(s) /\ s.frame \in Nat
      BY <1>1, <2>2, EmptySeq DEF SymbolsRight, Frames
    <3>2. rx.frame \in Nat /\ rx'.frame \in Nat
      BY InputTypes DEF EqTypeOK, Frames
    <3>3. CASE Sending /\ Sending'
      BY <2>2, <3>3 DEF Contiguous
    <3>4. CASE Sending /\ ~Sending'
      <4>1. s.frame = rx.frame /\ s.k = d_current_symbol - Preamble
        BY <2>2, <3>4 DEF Contiguous
      <4>2. Ok(s.frame) => s.n = rx.n
        BY <3>1, <3>4, <4>1, InputTypes DEF SymbolRight, HeaderKnown, Sending
      <4>3. Ended(s)
        BY <3>4, <4>1, <4>2 DEF Ended
      <4>. QED  BY <1>4, <3>1, <3>2, <3>4, <4>1, <4>3
    <3>5. CASE ~Sending
      <4>1. s.frame < rx.frame /\ Ended(s)
        BY <2>2, <3>5 DEF Contiguous
      <4>. QED  BY <1>4, <3>1, <3>2, <3>5, <4>1
    <3>. QED  BY <3>3, <3>4, <3>5
  <2>. QED  BY <2>1, <2>2 DEF Contiguous, Preamble
<1>6. ASSUME NEW f \in Frames, header'[f] = header[f], NEW k, Follows(f, k)
      PROVE  Follows(f, k)'
  BY <1>6 DEF Follows, macVars
<1>7. Following'
  <2>1. CASE chan = <<>>
    <3>1. rx.frame \in Frames
      BY DEF EqTypeOK
    <3>2. Sending => header'[rx.frame] = header[rx.frame]
      BY <3>1, InputTypes DEF Sending, HeaderKnown
    <3>. QED  BY <1>6, <2>1, <3>1, <3>2 DEF Following, Ok, Preamble
  <2>2. CASE chan # <<>>
    <3>1. 1 \in 1 .. Len(chan)
      BY <1>1, <2>2, EmptySeq
    <3>. QED  BY <1>1, <1>3, <1>6, <2>2, <3>1 DEF Following, Ok
  <2>. QED  BY <2>1, <2>2
<1>8. Published'
  <2>1. Len(d_encoded_bits') = copied'
    BY DEF Published, macVars
  <2>2. \A i \in 1 .. Len(out) : /\ out[i].frame \in Frames
                                 /\ header[out[i].frame].outcome # "none"
                                 /\ header'[out[i].frame] = header[out[i].frame]
    <3>. SUFFICES ASSUME NEW i \in 1 .. Len(out)
                  PROVE  /\ out[i].frame \in Frames
                         /\ header[out[i].frame].outcome # "none"
                         /\ header'[out[i].frame] = header[out[i].frame]
      OBVIOUS
    <3>1. out[i].frame \in Frames
      <4>1. out \in Seq([meta : Frames \cup {0}, frame : Frames])
        BY DEF MacTypeOK
      <4>2. out[i] \in [meta : Frames \cup {0}, frame : Frames]
        BY <4>1, ElementOfSeq
      <4>. QED  BY <4>2
    <3>2. header[out[i].frame].outcome # "none"
      BY DEF Published
    <3>. QED  BY <3>1, <3>2
  <2>3. OwnMetadata'
    BY <2>2 DEF Published, OwnMetadata, macVars
  <2>4. WholeFramePublished'
    <3>. SUFFICES ASSUME NEW f \in whole' \ reset', Ok(f)', header'[f].n <= MAX_SYM,
                         ~Behind(left, header'[f].n),
                         \A j \in 1 .. Len(chan) :
                            ~(chan[j].frame = f /\ chan[j].k <= header'[f].n)
                  PROVE  \E i \in 1 .. Len(out) : out[i].frame = f
      BY DEF WholeFramePublished, Ok, Behind, macVars
    <3>1. f \in Frames
      BY DEF EqTypeOK
    <3>2. f \in whole \ reset /\ Ok(f) /\ header'[f] = header[f]
      BY <3>1 DEF Ok
    <3>. QED  BY <3>2 DEF Published, WholeFramePublished, Ok
  <2>. QED  BY <2>1, <2>2, <2>3, <2>4 DEF Published, macVars
<1>9. MacTypeOK'
  BY DEF MacTypeOK, macVars
<1>. QED  BY <1>2, <1>5, <1>7, <1>8, <1>9

\* A dropped symbol changes nothing in the stream.
LEMMA DropStep ==
    ASSUME IInv, Drop, UNCHANGED macVars
    PROVE  IInv'
<1>. USE DEF IInv, EqInv
<1>1. EqInv'
  BY DropEq
<1>2. /\ \/ rx'.frame = rx.frame /\ rx'.place = rx.place + 1 /\ rx'.n = rx.n
         \/ rx'.frame = rx.frame + 1 /\ rx'.place = 0
      /\ \A f : f \in whole' <=>
            (f \in whole \/ (f = rx.frame /\ rx.place = Preamble + rx.n - 1))
  BY Consumed DEF Drop
<1>3. /\ rx.place >= Preamble
      /\ d_current_symbol' = d_current_symbol
      /\ d_current_symbol <= rx.place
      /\ d_current_symbol > d_frame_symbols + Preamble
      /\ UNCHANGED <<chan, header, reset>>
  <2>1. AtEnd /\ UNCHANGED <<chan, header, reset>> /\ d_current_symbol' = Current
    BY DEF Drop
  <2>2. Current > FrameSymbols + Preamble
    BY <2>1, InputTypes DEF AtEnd, Preamble
  <2>3. rx.place >= Preamble /\ rx.place > 0
    BY <2>2, InputTypes, CurrentCounters
  <2>. QED  BY <2>1, <2>2, <2>3, CurrentCounters
<1>4. Ok(rx.frame) => d_current_symbol > rx.n + Preamble
  BY <1>3 DEF HeaderKnown
<1>5. \A f \in Frames : (f \in whole' /\ Ok(f)') => (f \in whole /\ Ok(f))
  BY <1>2, <1>3, <1>4, InputTypes DEF Ok
<1>6. Sending' => /\ Sending
                  /\ rx'.frame = rx.frame
                  /\ d_current_symbol' = d_current_symbol
  BY <1>2, <1>3, InputTypes DEF Sending, Counters, Preamble
<1>7. (Sending /\ ~Sending') => /\ rx'.frame > rx.frame
                                /\ Ok(rx.frame) => d_current_symbol - Preamble >= rx.n
  BY <1>2, <1>3, <1>4, InputTypes DEF Sending, Preamble
<1>8. rx'.frame >= rx.frame
  BY <1>2, InputTypes
<1>. QED  BY <1>1, <1>3, <1>5, <1>6, <1>7, <1>8, QuietStep

\* A training symbol changes nothing in the stream.
LEMMA TrainStep ==
    ASSUME IInv, Train, UNCHANGED macVars
    PROVE  IInv'
<1>. USE DEF IInv, EqInv
<1>1. EqInv'
  BY TrainEq
<1>2. /\ \/ rx'.frame = rx.frame /\ rx'.place = rx.place + 1 /\ rx'.n = rx.n
         \/ rx'.frame = rx.frame + 1 /\ rx'.place = 0
      /\ \A f : f \in whole' <=>
            (f \in whole \/ (f = rx.frame /\ rx.place = Preamble + rx.n - 1))
  BY Consumed DEF Train
<1>3. rx.place < LTF1 /\ UNCHANGED <<chan, header, reset>>
  BY InputTypes, CurrentCounters DEF Train
<1>4. \A f \in Frames : (f \in whole' /\ Ok(f)') => (f \in whole /\ Ok(f))
  BY <1>2, <1>3, InputTypes DEF Ok
<1>5. ~Sending /\ ~Sending'
  BY <1>2, <1>3, InputTypes DEF Sending, Preamble
<1>6. rx'.frame >= rx.frame
  BY <1>2, InputTypes
<1>. QED  BY <1>1, <1>3, <1>4, <1>5, <1>6, QuietStep

\* Nor does a header: no symbol of its frame is in the stream yet.
LEMMA SignalStep ==
    ASSUME IInv, Signal, UNCHANGED macVars
    PROVE  IInv'
<1>. USE DEF IInv, EqInv
<1>1. EqInv'
  BY SignalEq
<1>2. /\ \/ rx'.frame = rx.frame /\ rx'.place = rx.place + 1 /\ rx'.n = rx.n
         \/ rx'.frame = rx.frame + 1 /\ rx'.place = 0
      /\ \A f : f \in whole' <=>
            (f \in whole \/ (f = rx.frame /\ rx.place = Preamble + rx.n - 1))
  BY Consumed DEF Signal
<1>3. rx.place < Preamble /\ UNCHANGED <<chan, reset>>
  BY InputTypes, CurrentCounters DEF Signal, Preamble
<1>4. \A f \in Frames \ {rx.frame} : header'[f] = header[f]
  BY SignalParsed DEF Signal
<1>5. header[rx.frame].outcome = "none" /\ rx.frame \notin whole
  BY <1>3, InputTypes DEF HeaderKnown, WholeKnown, Frames
<1>6. \A f \in Frames : header[f].outcome # "none" => header'[f] = header[f]
  BY <1>4, <1>5
<1>7. \A f \in Frames : (f \in whole' /\ Ok(f)') => (f \in whole /\ Ok(f))
  BY <1>2, <1>3, <1>4, <1>5, InputTypes DEF Ok
<1>8. ~Sending /\ ~Sending'
  BY <1>2, <1>3, InputTypes DEF Sending, Preamble
<1>9. rx'.frame >= rx.frame
  BY <1>2, InputTypes
<1>. QED  BY <1>1, <1>3, <1>6, <1>7, <1>8, <1>9, QuietStep

\* The symbols in the stream keep the estimate they were equalised with.
LEMMA ResetStep ==
    ASSUME IInv, set_algorithm, UNCHANGED macVars
    PROVE  IInv'
<1>. USE DEF IInv, EqInv
<1>1. EqInv'
  BY ResetEq
<1>2. UNCHANGED <<chan, rx, d_current_symbol, header, whole>> /\ reset \subseteq reset'
  BY DEF set_algorithm
<1>3. rx'.frame >= rx.frame
  BY <1>2, InputTypes
<1>4. Sending' <=> Sending
  BY <1>2 DEF Sending, Preamble
<1>. QED  BY <1>1, <1>2, <1>3, <1>4, QuietStep DEF Ok

\* A data symbol is what it should be.
LEMMA SentRight ==
    ASSUME EqInv, Data, NEW s, s = Sent
    PROVE  SymbolRight(s)'
<1>. USE DEF EqInv
<1>1. /\ \/ rx'.frame = rx.frame /\ rx'.place = rx.place + 1 /\ rx'.n = rx.n
         \/ rx'.frame = rx.frame + 1 /\ rx'.place = 0
  BY Consumed DEF Data
<1>2. UNCHANGED <<header, reset>>
  BY DEF Data
<1>3. /\ s.frame = rx.frame /\ s.n = rx.n /\ s.tag = pending
      /\ s.clean = (d_H = OwnEstimate)
      /\ s.k = rx.place - Preamble + 1
  BY DataPlace DEF Sent
<1>4. /\ header[rx.frame].outcome \in Outcomes \ {"none"}
      /\ header[rx.frame].n = rx.n
      /\ Ok(rx.frame) => d_frame_symbols = rx.n
  <2>1. header[rx.frame].outcome \in Outcomes
    BY InputTypes DEF EqTypeOK, Frames
  <2>. QED  BY <2>1, DataPlace DEF HeaderKnown
<1>5. s.clean \/ s.frame \in reset
  <2>. SUFFICES ASSUME rx.frame \notin reset
                PROVE  d_H = OwnEstimate
    BY <1>3
  <2>1. rx.place > 0 /\ ~(rx.place < LTF1)
    BY SMTT(40), DataPlace, InputTypes
  <2>. QED  BY <2>1 DEF Estimate, OwnEstimate
<1>6. pending # NoTag => rx.place = Preamble
  <2>1. /\ rx.place >= Preamble /\ d_current_symbol = rx.place
        /\ ~(d_current_symbol > d_frame_symbols + LTF1 + SIG)
    BY DataPlace, InputTypes DEF Preamble
  <2>2. ~(rx.place > Preamble /\ pending # NoTag)
    BY <2>1 DEF Waiting
  <2>. QED  BY <2>1, <2>2, InputTypes
<1>7. (s.k = 1 /\ Ok(s.frame)) => s.tag = [frame |-> s.frame, n_sym |-> s.n]
  BY SMTT(40), <1>3, DataPlace, InputTypes DEF Waiting
<1>8. s.tag # NoTag => /\ s.k = 1
                       /\ \/ s.tag.frame = s.frame
                          \/ header[s.frame].outcome \in {"badcrc", "unsupported"}
  <2>. SUFFICES ASSUME s.tag # NoTag
                PROVE  /\ s.k = 1
                       /\ \/ s.tag.frame = s.frame
                          \/ header[s.frame].outcome \in {"badcrc", "unsupported"}
    OBVIOUS
  <2>1. rx.place = Preamble
    BY <1>3, <1>6
  <2>2. s.k = 1
    BY <1>3, <2>1, InputTypes
  <2>3. Ok(rx.frame) => pending.frame = rx.frame
    BY <2>1 DEF Waiting
  <2>4. header[rx.frame].outcome = "wrong" => pending.frame = rx.frame
    BY <2>1 DEF Waiting
  <2>. QED  BY <1>3, <1>4, <2>2, <2>3, <2>4 DEF Outcomes, Ok
<1>9. Ok(s.frame) => s.k <= s.n + 1
  BY <1>3, <1>4, DataPlace, InputTypes
<1>10. s.k >= 1 /\ s.frame <= rx'.frame
  BY SMTT(40), <1>1, <1>3, DataPlace, InputTypes
<1>. QED  BY <1>2, <1>3, <1>4, <1>5, <1>7, <1>8, <1>9, <1>10 DEF SymbolRight, Ok

\* A data symbol follows its predecessor at the end of the stream.
LEMMA DataStep ==
    ASSUME IInv, Data, UNCHANGED macVars
    PROVE  IInv'
<1>. USE DEF IInv, EqInv
<1>1. EqInv'
  BY DataEq
<1>2. /\ \/ rx'.frame = rx.frame /\ rx'.place = rx.place + 1 /\ rx'.n = rx.n
         \/ rx'.frame = rx.frame + 1 /\ rx'.place = 0
      /\ \A f : f \in whole' <=>
            (f \in whole \/ (f = rx.frame /\ rx.place = Preamble + rx.n - 1))
  BY Consumed DEF Data
<1>3. UNCHANGED <<header, reset>> /\ d_current_symbol' = rx.place + 1
  BY DataPlace DEF Data
<1>. DEFINE L == Len(chan)
<1>4. PICK s : s = Sent
  OBVIOUS
<1>5. /\ s \in Symbols /\ s.frame = rx.frame /\ s.n = rx.n
      /\ s.k = rx.place - Preamble + 1
      /\ rx.place >= Preamble /\ d_current_symbol = rx.place
  BY <1>4, DataPlace DEF Sent
<1>6. /\ L \in Nat
      /\ Len(chan') = L + 1
      /\ chan' # <<>>
      /\ \A j \in 1 .. L : chan'[j] = chan[j] /\ chan[j] \in Symbols
                          /\ chan[j].frame \in Frames
      /\ chan'[L + 1] = s
  BY <1>4, <1>5, DataPlace, AppendProperties, StreamTypes
<1>7. rx'.frame >= rx.frame /\ rx.frame \in Nat /\ rx.frame \in Frames
  BY <1>2, InputTypes DEF Frames
<1>8. SymbolsRight'
  <2>1. SymbolRight(s)'
    BY <1>4, SentRight
  <2>2. \A j \in 1 .. L : SymbolRight(chan[j])
    BY DEF SymbolsRight
  <2>3. ASSUME NEW t \in Symbols, SymbolRight(t)
        PROVE  SymbolRight(t)'
    BY <1>1, <1>3, <1>7, <2>3, SymbolStaysRight
  <2>4. ASSUME NEW j \in 1 .. L, NEW t, t = chan[j]
        PROVE  SymbolRight(t)'
    BY <1>6, <2>2, <2>3, <2>4
  <2>5. \A j \in 1 .. L + 1 : SymbolRight(chan[j])'
    <3>. SUFFICES ASSUME NEW j \in 1 .. L + 1, NEW t, t = chan'[j]
                  PROVE  SymbolRight(t)'
      BY DEF SymbolRight, Ok
    <3>. QED  BY <1>6, <2>1, <2>4
  <2>. QED  BY <1>6, <2>5 DEF SymbolsRight
<1>9. ASSUME NEW t, Ended(t), t.frame # rx.frame
      PROVE  Ended(t)'
  BY <1>2, <1>3, <1>9 DEF Ended, Ok
<1>10. \A j \in 1 .. L : Successor(chan'[j], chan'[j + 1]) 
  <2>. SUFFICES ASSUME NEW j \in 1 .. L
                PROVE  Successor(chan'[j], chan'[j + 1])
    OBVIOUS
  <2>1. CASE j < L
    <3>1. j \in 1 .. L - 1 /\ j + 1 \in 1 .. L
      BY <1>6, <2>1
    <3>. QED  BY <1>6, <3>1 DEF Contiguous
  <2>2. CASE j = L
    <3>1. chan # <<>> /\ chan'[j] = chan[L] /\ chan'[j + 1] = s
      BY <1>6, <2>2
    <3>2. CASE rx.place > Preamble
      <4>1. Sending
        BY <1>5, <3>2 DEF Sending
      <4>2. chan[L].frame = rx.frame /\ chan[L].k = rx.place - Preamble
        BY <1>5, <3>1, <4>1 DEF Contiguous
      <4>. QED  BY <1>5, <3>1, <4>2, InputTypes DEF Successor
    <3>3. CASE rx.place = Preamble
      <4>1. ~Sending
        BY <3>3, InputTypes DEF Sending
      <4>2. chan[L].frame < rx.frame /\ Ended(chan[L])
        BY <3>1, <4>1 DEF Contiguous
      <4>. QED  BY <1>5, <3>1, <3>3, <4>2, InputTypes DEF Successor
    <3>. QED  BY <1>5, <3>2, <3>3, InputTypes
  <2>. QED  BY <1>6, <2>1, <2>2
<1>11. \A j \in 1 .. L : chan'[j].frame \in Nat /\ chan'[j + 1].frame <= rx.frame
  <2>1. \A j \in 1 .. L : chan[j].frame \in Nat /\ chan[j].frame <= rx.frame
    <3>. SUFFICES ASSUME NEW j \in 1 .. L
                  PROVE  chan[j].frame \in Nat /\ chan[j].frame <= rx.frame
      OBVIOUS
    <3>1. chan[j].frame \in Nat
      BY <1>6 DEF Frames
    <3>2. SymbolRight(chan[j])
      BY DEF SymbolsRight
    <3>. QED  BY <3>1, <3>2 DEF SymbolRight
  <2>2. \A j \in 1 .. L : chan'[j + 1].frame <= rx.frame
    <3>. SUFFICES ASSUME NEW j \in 1 .. L
                  PROVE  chan'[j + 1].frame <= rx.frame
      OBVIOUS
    <3>1. CASE j = L
      BY <1>5, <1>6, <1>7, <3>1
    <3>2. CASE j # L
      <4>1. j + 1 \in 1 .. L
        BY <1>6, <3>2
      <4>. QED  BY <1>6, <2>1, <4>1
    <3>. QED  BY <3>1, <3>2
  <2>. QED  BY <1>6, <2>1, <2>2
<1>12. Contiguous'
  <2>1. ASSUME NEW j \in 1 .. L, NEW t, t = chan'[j], NEW u, u = chan'[j + 1]
        PROVE  Successor(t, u)'
    <3>1. Successor(t, u) /\ t.frame \in Nat /\ u.frame <= rx.frame
      BY <1>10, <1>11, <2>1
    <3>2. t.frame < u.frame => t.frame # rx.frame
      <4>1. u.frame = rx.frame \/ u.frame \in Nat
        <5>1. CASE j = L
          BY <1>5, <1>6, <2>1, <5>1
        <5>2. CASE j # L
          <6>1. j + 1 \in 1 .. L
            BY <1>6, <5>2
          <6>. QED  BY <1>6, <2>1, <6>1 DEF Frames
        <5>. QED  BY <5>1, <5>2
      <4>. QED  BY <1>7, <3>1, <4>1
    <3>3. CASE u.frame = t.frame /\ u.k = t.k + 1
      BY <3>3 DEF Successor
    <3>4. CASE u.frame > t.frame /\ u.k = 1 /\ Ended(t)
      <4>1. Ended(t)'
        BY <1>9, <3>2, <3>4
      <4>. QED  BY <3>4, <4>1 DEF Successor
    <3>. QED  BY <3>1, <3>3, <3>4 DEF Successor
  <2>2. \A j \in 1 .. L : Successor(chan[j], chan[j + 1])'
    <3>. SUFFICES ASSUME NEW j \in 1 .. L, NEW t, t = chan'[j], NEW u, u = chan'[j + 1]
                  PROVE  Successor(t, u)'
      BY DEF Successor, Ended, Ok
    <3>. QED  BY <2>1
  <2>3. CASE rx'.frame = rx.frame /\ rx'.place = rx.place + 1
    <3>1. Sending'
      BY <1>3, <1>5, <2>3, InputTypes DEF Sending, Preamble
    <3>2. s.k = d_current_symbol' - Preamble
      BY <1>3, <1>5, InputTypes
    <3>. QED  BY <1>5, <1>6, <2>2, <2>3, <3>1, <3>2 DEF Contiguous, Preamble
  <2>4. CASE rx'.frame = rx.frame + 1 /\ rx'.place = 0
    <3>1. ~Sending'
      BY <2>4, InputTypes DEF Sending, Preamble
    <3>2. s.frame < rx'.frame
      BY <1>5, <1>7, <2>4
    <3>3. Ended(s)'
      <4>1. rx.frame \in whole' => s.k >= s.n
        BY <1>2, <1>5, InputTypes DEF WholeKnown
      <4>. QED  BY <1>5, <4>1 DEF Ended
    <3>. QED  BY <1>6, <2>2, <3>1, <3>2, <3>3 DEF Contiguous, Ended, Ok
  <2>. QED  BY <1>2, <2>3, <2>4
<1>13. ASSUME NEW f, NEW k, Follows(f, k)
       PROVE  Follows(f, k)'
  BY <1>3, <1>13 DEF Follows, macVars
<1>14. Following'
  <2>. DEFINE t == chan'[1]
  <2>. SUFFICES ASSUME t.k > 1, header[t.frame].outcome = "ok"
                PROVE  Follows(t.frame, t.k)
    BY <1>3, <1>6 DEF Following, Ok, Follows, macVars
  <2>1. CASE chan = <<>>
    <3>1. L = 0 /\ t = s
      BY <1>6, <2>1, EmptySeq
    <3>2. Sending /\ Ok(rx.frame)
      BY SMTT(40), <1>5, <3>1, InputTypes DEF Sending, Ok
    <3>3. Follows(rx.frame, d_current_symbol - Preamble + 1)
      BY <2>1, <3>2 DEF Following
    <3>. QED  BY <1>5, <3>1, <3>3
  <2>2. CASE chan # <<>>
    <3>1. 1 \in 1 .. L
      BY <2>2, <1>6, EmptySeq DEF EqTypeOK
    <3>. QED  BY <1>6, <2>2, <3>1 DEF Following, Ok
  <2>. QED  BY <2>1, <2>2
<1>15. Published'
  <2>1. WholeFramePublished'
    <3>. SUFFICES ASSUME NEW f \in whole' \ reset, Ok(f), header[f].n <= MAX_SYM,
                         ~Behind(left, header[f].n),
                         \A j \in 1 .. L + 1 :
                            ~(chan'[j].frame = f /\ chan'[j].k <= header[f].n)
                  PROVE  \E i \in 1 .. Len(out) : out[i].frame = f
      BY <1>3, <1>6 DEF WholeFramePublished, Ok, Behind, macVars
    <3>1. CASE f \in whole
      <4>1. \A j \in 1 .. L : ~(chan[j].frame = f /\ chan[j].k <= header[f].n)
        <5>. SUFFICES ASSUME NEW j \in 1 .. L
                      PROVE  ~(chan[j].frame = f /\ chan[j].k <= header[f].n)
          OBVIOUS
        <5>1. j \in 1 .. L + 1 /\ chan'[j] = chan[j]
          BY <1>6
        <5>. QED  BY <5>1
      <4>. QED  BY <3>1, <4>1 DEF Published, WholeFramePublished, Ok
    <3>2. CASE f = rx.frame /\ rx.place = Preamble + rx.n - 1
      <4>1. s.frame = f /\ s.k = rx.n /\ header[f].n = rx.n
        BY <1>5, <3>2, InputTypes DEF HeaderKnown
      <4>2. L + 1 \in 1 .. L + 1 /\ chan'[L + 1] = s
        BY <1>6
      <4>. QED  BY SMTT(40), <4>1, <4>2, InputTypes
    <3>. QED  BY <1>2, <3>1, <3>2
  <2>. QED  BY <1>3, <2>1 DEF Published, OwnMetadata, macVars
<1>16. MacTypeOK'
  BY DEF MacTypeOK, macVars
<1>. QED  BY <1>1, <1>8, <1>12, <1>14, <1>15, <1>16

-----------------------------------------------------------------------------
(* decode_mac keeps its part of the invariant.                             *)

\* What an iteration of decode_mac does with the symbol at the head.
LEMMA HeadTaken ==
    ASSUME IInv, MacNext, UNCHANGED eqVars
    PROVE  /\ Symbol = chan[1] /\ 1 \in 1 .. Len(chan) /\ Symbol \in Symbols
           /\ Symbol.frame \in Frames /\ Symbol.tag \in Tags
           /\ SymbolRight(Symbol)
           /\ chan' \in Seq(Symbols) /\ Len(chan) \in Nat
           /\ Len(chan') = Len(chan) - 1
           /\ \A j \in 1 .. Len(chan') : chan'[j] = chan[j + 1]
<1>1. chan # <<>> /\ chan' = Tail(chan) /\ chan \in Seq(Symbols)
  BY DEF MacNext, SkipSymbol, CopySymbol, DecodeFrame, IInv, EqInv, EqTypeOK
<1>2. /\ Head(chan) = chan[1] /\ Head(chan) \in Symbols
      /\ chan' \in Seq(Symbols) /\ Len(chan') = Len(chan) - 1
      /\ \A j \in 1 .. Len(chan') : chan'[j] = chan[j + 1]
      /\ Len(chan) \in Nat /\ Len(chan) # 0
  BY <1>1, HeadTailProperties, EmptySeq
<1>3. 1 \in 1 .. Len(chan)
  BY <1>2
<1>4. Symbol.frame \in Frames /\ Symbol.tag \in Tags
  BY <1>2 DEF Symbol, Symbols
<1>. QED  BY <1>2, <1>3, <1>4 DEF Symbol, IInv, SymbolsRight

\* decode_mac takes symbols away from the stream, which stays right.
LEMMA StreamTaken ==
    ASSUME IInv, MacNext, UNCHANGED eqVars
    PROVE  EqInv' /\ SymbolsRight' /\ Contiguous'
<1>. USE DEF IInv, EqInv, eqVars
<1>1. EqTypeOK'
  <2>1. Len(chan) <= CAPACITY
    BY DEF EqTypeOK
  <2>2. Len(chan') <= CAPACITY
    BY <2>1, HeadTaken
  <2>. QED  BY <2>2, HeadTaken DEF EqTypeOK
<1>2. Counters' /\ HeaderKnown' /\ WholeKnown' /\ Estimate' /\ Waiting'
  BY DEF Counters, HeaderKnown, WholeKnown, Estimate, Waiting, Ok
<1>3. ASSUME NEW j \in 1 .. Len(chan')
      PROVE  j + 1 \in 1 .. Len(chan) /\ chan'[j] = chan[j + 1]
  BY HeadTaken
<1>4. SymbolsRight'
  <2>. SUFFICES ASSUME NEW j \in 1 .. Len(chan')
                PROVE  SymbolRight(chan[j])'
    BY DEF SymbolsRight
  <2>1. SymbolRight(chan[j + 1])
    BY <1>3 DEF SymbolsRight
  <2>. QED  BY <1>3, <2>1 DEF SymbolRight, Ok
<1>5. \A j \in 1 .. Len(chan') - 1 : Successor(chan[j], chan[j + 1])'
  <2>. SUFFICES ASSUME NEW j \in 1 .. Len(chan') - 1
                PROVE  Successor(chan[j], chan[j + 1])'
    OBVIOUS
  <2>1. /\ chan'[j] = chan[j + 1] /\ chan'[j + 1] = chan[j + 1 + 1]
        /\ j + 1 \in 1 .. Len(chan) - 1
    <3>1. Len(chan) \in Nat /\ Len(chan') = Len(chan) - 1
      BY HeadTaken
    <3>2. /\ j \in 1 .. Len(chan') /\ j + 1 \in 1 .. Len(chan')
          /\ j + 1 \in 1 .. Len(chan) - 1
      BY <3>1
    <3>. QED  BY <1>3, <3>2
  <2>2. Successor(chan[j + 1], chan[j + 1 + 1])
    BY <2>1 DEF Contiguous
  <2>. QED  BY <2>1, <2>2 DEF Successor, Ended, Ok
<1>6. chan' # <<>> => chan'[Len(chan')] = chan[Len(chan)] /\ chan # <<>>
  <2>. SUFFICES ASSUME chan' # <<>>
                PROVE  chan'[Len(chan')] = chan[Len(chan)] /\ chan # <<>>
    OBVIOUS
  <2>1. Len(chan') \in 1 .. Len(chan')
    BY HeadTaken, EmptySeq
  <2>2. chan'[Len(chan')] = chan[Len(chan') + 1] /\ Len(chan') + 1 = Len(chan)
    BY <2>1, HeadTaken
  <2>3. chan # <<>>
    BY DEF MacNext, SkipSymbol, CopySymbol, DecodeFrame
  <2>. QED  BY <2>2, <2>3
<1>7. Contiguous'
  BY <1>5, <1>6 DEF Contiguous, Ended, Ok, Sending, Preamble
<1>. QED  BY <1>1, <1>2, <1>4, <1>7

BufferSymbols == [frame : Frames \cup {0}, k : Nat, n : NSYMS \cup {0}, clean : BOOLEAN]

\* The buffer with the symbol at the head appended.
LEMMA BufferFilled ==
    ASSUME IInv, MacNext, UNCHANGED eqVars
    PROVE  /\ Copied \in Nat /\ Needed \in Nat /\ Copied <= copied
           /\ Copied >= Needed => Copied = copied
           /\ Buffer \in Seq(BufferSymbols)
           /\ Len(Buffer) = Copied + 1
           /\ \A j \in 1 .. Copied : Buffer[j] = d_encoded_bits[j]
           /\ Buffer[Copied + 1].frame = Symbol.frame
           /\ Buffer[Copied + 1].k = Symbol.k
           /\ Buffer[Copied + 1].n = Symbol.n
           /\ Buffer[Copied + 1].clean = Symbol.clean
<1>. USE DEF IInv
<1>1. /\ copied \in Nat /\ n_sym \in Nat
      /\ d_encoded_bits \in Seq(BufferSymbols) /\ Len(d_encoded_bits) = copied
  BY DEF MacTypeOK, BufferSymbols, Published
<1>2. Symbol.tag # NoTag => Symbol.tag.n_sym \in Nat /\ Symbol.tag.n_sym > 0
  <2>1. Symbol.tag # NoTag => Symbol.tag.n_sym \in NSYMS
    BY HeadTaken DEF Tags
  <2>2. \A m \in NSYMS : m \in Nat /\ m > 0
    <3>1. \A m \in NSYMS : m \in Nat \ {0}
      BY Zenon
    <3>. QED  BY <3>1
  <2>. QED  BY <2>1, <2>2
<1>3. /\ Copied \in Nat /\ Needed \in Nat /\ Copied <= copied
      /\ Copied >= Needed => Copied = copied
  BY <1>1, <1>2 DEF Copied, Needed, Accepted
<1>. DEFINE q == SubSeq(d_encoded_bits, 1, Copied)
            e == [frame |-> Symbol.frame, k |-> Symbol.k, n |-> Symbol.n,
                  clean |-> Symbol.clean]
<1>4. /\ q \in Seq(BufferSymbols)
      /\ Len(q) = Copied
      /\ \A j \in 1 .. Copied : q[j] = d_encoded_bits[j]
  <2>1. \A j \in 1 .. Copied : d_encoded_bits[j] \in BufferSymbols
    <3>. SUFFICES ASSUME NEW j \in 1 .. Copied
                  PROVE  d_encoded_bits[j] \in BufferSymbols
      OBVIOUS
    <3>1. j \in 1 .. Len(d_encoded_bits)
      BY <1>1, <1>3
    <3>. QED  BY <1>1, <3>1, ElementOfSeq
  <2>2. /\ q \in Seq(BufferSymbols)
        /\ Len(q) = IF 1 <= Copied THEN Copied - 1 + 1 ELSE 0
        /\ \A j \in 1 .. Copied - 1 + 1 : q[j] = d_encoded_bits[1 + j - 1]
    BY <1>3, <2>1, SubSeqProperties
  <2>. QED  BY <1>3, <2>2
<1>5. e \in BufferSymbols
  BY HeadTaken DEF BufferSymbols, Symbols
<1>. HIDE DEF q, e
<1>6. Buffer = Append(q, e)
  BY DEF Buffer, q, e
<1>7. /\ Buffer \in Seq(BufferSymbols)
      /\ Len(Buffer) = Len(q) + 1
      /\ \A j \in 1 .. Len(q) : Buffer[j] = q[j]
      /\ Buffer[Len(q) + 1] = e
  BY <1>4, <1>5, <1>6, AppendProperties
<1>8. /\ Buffer[Copied + 1].frame = Symbol.frame
      /\ Buffer[Copied + 1].k = Symbol.k
      /\ Buffer[Copied + 1].n = Symbol.n
      /\ Buffer[Copied + 1].clean = Symbol.clean
  BY <1>4, <1>7 DEF e
<1>. QED  BY <1>3, <1>4, <1>7, <1>8

\* The counters and the buffer of decode_mac agree after every iteration.
LEMMA MacTypes ==
    ASSUME IInv, MacNext, UNCHANGED eqVars
    PROVE  MacTypeOK' /\ Len(d_encoded_bits') = copied'
<1>. USE DEF IInv
<1>1. d_meta' \in Tags /\ n_sym' = Needed /\ n_sym' \in Nat
  BY HeadTaken, BufferFilled DEF MacNext, SkipSymbol, CopySymbol, DecodeFrame, EnterTags, MacTypeOK
<1>2. d_frame_complete' \in BOOLEAN
  BY DEF MacNext, SkipSymbol, CopySymbol, DecodeFrame, MacTypeOK
<1>3. /\ copied' \in Nat
      /\ d_encoded_bits' \in Seq(BufferSymbols) /\ Len(d_encoded_bits') = copied'
  <2>1. CASE SkipSymbol
    BY <2>1, BufferFilled DEF SkipSymbol, MacTypeOK, BufferSymbols, Published
  <2>2. CASE CopySymbol \/ DecodeFrame
    BY <2>2, BufferFilled DEF CopySymbol, DecodeFrame
  <2>. QED  BY <2>1, <2>2 DEF MacNext
<1>4. left' \subseteq Nat
  <2>1. left' \subseteq left \cup {Needed}
    BY DEF MacNext, SkipSymbol, CopySymbol, DecodeFrame
  <2>. QED  BY <1>1, <2>1 DEF MacTypeOK
<1>5. out' \in Seq([meta : Frames \cup {0}, frame : Frames])
  <2>1. out \in Seq([meta : Frames \cup {0}, frame : Frames])
    BY DEF MacTypeOK
  <2>. DEFINE e == [meta |-> d_meta'.frame, frame |-> Symbol.frame]
  <2>2. e \in [meta : Frames \cup {0}, frame : Frames]
    <3>1. d_meta'.frame \in Frames \cup {0}
      BY <1>1 DEF Tags, NoTag
    <3>. QED  BY <3>1, HeadTaken
  <2>3. out' = out \/ out' = Append(out, e)
    BY DEF MacNext, SkipSymbol, CopySymbol, DecodeFrame
  <2>. HIDE DEF e
  <2>4. Append(out, e) \in Seq([meta : Frames \cup {0}, frame : Frames])
    BY <2>1, <2>2, AppendProperties
  <2>. QED  BY <2>1, <2>3, <2>4
<1>. QED  BY <1>1, <1>2, <1>3, <1>4, <1>5 DEF MacTypeOK, BufferSymbols

\* Follows, in the next state.
LEMMA FollowsWhen ==
    ASSUME NEW f, NEW k,
           d_meta'.frame = f,
           header'[f].n <= MAX_SYM =>
              /\ n_sym' = header'[f].n
              /\ copied' = IF k <= n_sym' THEN k - 1 ELSE n_sym'
              /\ \A j \in 1 .. copied' :
                    /\ d_encoded_bits'[j].frame = f
                    /\ d_encoded_bits'[j].k = j
                    /\ d_encoded_bits'[j].n = n_sym'
                    /\ d_encoded_bits'[j].clean \/ f \in reset'
    PROVE  Follows(f, k)'
BY DEF Follows

\* When decode_mac has taken the k-th symbol of a frame whose header was decoded,
\* it is where the next one needs it.
LEMMA HeadFollowed ==
    ASSUME IInv, MacNext, UNCHANGED eqVars,
           NEW f, f = Symbol.frame, NEW k, k = Symbol.k, Ok(f)
    PROVE  /\ Follows(f, k + 1)'
           /\ header[f].n <= MAX_SYM =>
                /\ Needed = header[f].n
                /\ Copied = IF k <= header[f].n THEN k - 1 ELSE header[f].n
                /\ \A j \in 1 .. Copied :
                      /\ d_encoded_bits[j].frame = f
                      /\ d_encoded_bits[j].k = j
                      /\ d_encoded_bits[j].n = header[f].n
                      /\ d_encoded_bits[j].clean \/ f \in reset
<1>. USE DEF IInv
<1>. DEFINE N == header[f].n
<1>1. /\ f \in Frames /\ f # 0 /\ k \in Nat /\ k >= 1
      /\ Symbol.n = N /\ N \in Nat /\ N >= 1
      /\ k = 1 => Symbol.tag = [frame |-> f, n_sym |-> N]
      /\ k # 1 => Symbol.tag = NoTag
      /\ Symbol.clean \/ f \in reset
  <2>1. f \in Frames /\ k \in Nat /\ Symbol.n \in NSYMS
    BY HeadTaken DEF Symbols
  <2>2. Symbol.n \in Nat \ {0}
    BY <2>1, Zenon
  <2>. QED  BY <2>1, <2>2, HeadTaken DEF SymbolRight, Frames
<1>2. k > 1 => Follows(f, k)
  <2>1. chan # <<>>
    BY DEF MacNext, SkipSymbol, CopySymbol, DecodeFrame
  <2>. QED  BY <2>1, HeadTaken DEF Following
<1>3. d_meta' = IF k = 1 THEN Symbol.tag ELSE d_meta
  BY <1>1 DEF MacNext, SkipSymbol, CopySymbol, DecodeFrame, EnterTags, NoTag
<1>4. d_meta'.frame = f
  <2>1. CASE k = 1
    BY <1>1, <1>3, <2>1
  <2>2. CASE k # 1
    BY <1>1, <1>2, <1>3, <2>2 DEF Follows
  <2>. QED  BY <2>1, <2>2
<1>5. UNCHANGED <<header, reset>>
  BY DEF eqVars
<1>6. ASSUME N <= MAX_SYM
      PROVE  /\ Needed = N
             /\ Copied = IF k <= N THEN k - 1 ELSE N
             /\ \A j \in 1 .. Copied :
                   /\ d_encoded_bits[j].frame = f
                   /\ d_encoded_bits[j].k = j
                   /\ d_encoded_bits[j].n = N
                   /\ d_encoded_bits[j].clean \/ f \in reset
  <2>1. CASE k = 1
    <3>1. Accepted /\ Symbol.tag.n_sym = N
      BY <1>1, <1>6, <2>1 DEF Accepted, NoTag
    <3>2. Copied = 0 /\ Needed = N
      BY <3>1 DEF Copied, Needed
    <3>. QED  BY <1>1, <2>1, <3>2
  <2>2. CASE k # 1
    <3>1. ~Accepted
      BY <1>1, <2>2 DEF Accepted
    <3>2. Copied = copied /\ Needed = n_sym
      BY <3>1 DEF Copied, Needed
    <3>3. Follows(f, k)
      BY <1>1, <1>2, <2>2
    <3>. QED  BY <1>6, <3>2, <3>3 DEF Follows
  <2>. QED  BY <2>1, <2>2
<1>7. ASSUME N <= MAX_SYM
      PROVE  /\ n_sym' = N
             /\ copied' = IF k + 1 <= n_sym' THEN k + 1 - 1 ELSE n_sym'
             /\ \A j \in 1 .. copied' :
                   /\ d_encoded_bits'[j].frame = f
                   /\ d_encoded_bits'[j].k = j
                   /\ d_encoded_bits'[j].n = n_sym'
                   /\ d_encoded_bits'[j].clean \/ f \in reset
  <2>1. n_sym' = N
    BY <1>6, <1>7 DEF MacNext, SkipSymbol, CopySymbol, DecodeFrame, EnterTags
  <2>2. CASE k <= N
    <3>1. Copied = k - 1 /\ Needed = N
      BY <1>6, <1>7, <2>2
    <3>2. ~SkipSymbol
      BY <1>1, <2>2, <3>1 DEF SkipSymbol
    <3>3. copied' = k /\ d_encoded_bits' = Buffer
      <4>1. copied' = Copied + 1 /\ d_encoded_bits' = Buffer
        BY <3>2 DEF MacNext, CopySymbol, DecodeFrame
      <4>. QED  BY <1>1, <3>1, <4>1
    <3>4. ASSUME NEW j \in 1 .. k
          PROVE  /\ Buffer[j].frame = f
                 /\ Buffer[j].k = j
                 /\ Buffer[j].n = N
                 /\ Buffer[j].clean \/ f \in reset
      <4>1. CASE j = k
        <5>1. j = Copied + 1
          BY <1>1, <3>1, <4>1
        <5>. QED  BY <1>1, <4>1, <5>1, BufferFilled
      <4>2. CASE j # k
        <5>1. j \in 1 .. Copied
          BY <1>1, <3>1, <4>2
        <5>2. Buffer[j] = d_encoded_bits[j]
          BY <5>1, BufferFilled
        <5>. QED  BY <1>6, <1>7, <5>1, <5>2
      <4>. QED  BY <4>1, <4>2
    <3>. QED  BY <1>1, <2>1, <2>2, <3>3, <3>4
  <2>3. CASE ~(k <= N)
    <3>1. Copied = N /\ Needed = N
      BY <1>6, <1>7, <2>3
    <3>2. SkipSymbol
      BY <1>1, <3>1 DEF MacNext, CopySymbol, DecodeFrame
    <3>3. copied' = N /\ d_encoded_bits' = d_encoded_bits
      BY <3>1, <3>2 DEF SkipSymbol
    <3>. QED  BY <1>1, <1>6, <1>7, <2>1, <2>3, <3>1, <3>3
  <2>. QED  BY <2>2, <2>3
<1>8. PICK m \in Nat : m = k + 1
  BY <1>1
<1>9. header'[f].n <= MAX_SYM =>
         /\ n_sym' = header'[f].n
         /\ copied' = IF m <= n_sym' THEN m - 1 ELSE n_sym'
         /\ \A j \in 1 .. copied' :
               /\ d_encoded_bits'[j].frame = f
               /\ d_encoded_bits'[j].k = j
               /\ d_encoded_bits'[j].n = n_sym'
               /\ d_encoded_bits'[j].clean \/ f \in reset'
  <2>1. header' = header /\ reset' = reset
    BY <1>5
  <2>2. SUFFICES ASSUME N <= MAX_SYM
                 PROVE  /\ n_sym' = N
                        /\ copied' = IF m <= n_sym' THEN m - 1 ELSE n_sym'
                        /\ \A j \in 1 .. copied' :
                              /\ d_encoded_bits'[j].frame = f
                              /\ d_encoded_bits'[j].k = j
                              /\ d_encoded_bits'[j].n = n_sym'
                              /\ d_encoded_bits'[j].clean \/ f \in reset
    BY <2>1
  <2>3. copied' = IF m <= n_sym' THEN m - 1 ELSE n_sym'
    BY <1>1, <1>7, <1>8, <2>2
  <2>. QED  BY <1>7, <2>2, <2>3
<1>10. Follows(f, m)'
  <2>. HIDE DEF IInv, N
  <2>. QED  BY <1>4, <1>9, FollowsWhen, Zenon
<1>11. Follows(f, k + 1)'
  BY <1>8, <1>10
<1>. QED  BY <1>6, <1>11

\* What is behind the end of a frame was left there by one that was copied, and
\* stays there.
LEMMA StaysBehind ==
    ASSUME MacNext, NEW n, Behind(left, n)
    PROVE  Behind(left', n)
BY DEF MacNext, SkipSymbol, CopySymbol, DecodeFrame, Behind

\* The last symbol of a frame that was received with one channel estimate
\* completes it, and it is published unless a frame with more bits was copied.
LEMMA LastPublishes ==
    ASSUME IInv, MacNext, UNCHANGED eqVars,
           NEW f, f = Symbol.frame, Ok(f), header[f].n <= MAX_SYM,
           Symbol.k = header[f].n, f \notin reset, ~Behind(left', header[f].n)
    PROVE  \E i \in 1 .. Len(out') : out'[i].frame = f
<1>. USE DEF IInv
<1>. DEFINE N == header[f].n
<1>1. /\ Symbol.k \in Nat /\ Symbol.n = N
      /\ Symbol.clean
      /\ Needed = N /\ Copied = N - 1 /\ N \in Nat
  <2>1. Symbol.k \in Nat
    BY HeadTaken DEF Symbols
  <2>2. Symbol.n = N /\ Symbol.clean
    BY HeadTaken DEF SymbolRight
  <2>. QED  BY <2>1, <2>2, HeadFollowed
<1>2. DecodeFrame
  BY <1>1 DEF MacNext, SkipSymbol, CopySymbol
<1>3. ASSUME NEW j \in 1 .. N
      PROVE  /\ Buffer[j].frame = f
             /\ Buffer[j].k = j
             /\ Buffer[j].n = N
             /\ Buffer[j].clean
  <2>1. CASE j = N
    <3>1. j = Copied + 1
      BY <1>1, <2>1
    <3>. QED  BY <1>1, <2>1, <3>1, BufferFilled
  <2>2. CASE j # N
    <3>1. j \in 1 .. Copied
      BY <1>1, <2>2
    <3>2. Buffer[j] = d_encoded_bits[j]
      BY <3>1, BufferFilled
    <3>3. /\ d_encoded_bits[j].frame = f
          /\ d_encoded_bits[j].k = j
          /\ d_encoded_bits[j].n = N
          /\ d_encoded_bits[j].clean \/ f \in reset
      BY <3>1, HeadFollowed
    <3>. QED  BY <3>2, <3>3
  <2>. QED  BY <2>1, <2>2
<1>4. Len(Buffer) = N
  BY <1>1, BufferFilled
<1>5. Whole(Buffer)
  <2>1. \A j \in 1 .. N : 1 \in 1 .. N
    BY <1>1
  <2>. QED  BY <1>3, <1>4, <2>1 DEF Whole
<1>. DEFINE e == [meta |-> d_meta'.frame, frame |-> Symbol.frame]
<1>6. out' = Append(out, e)
  <2>1. ~Behind(left, Needed)
    BY <1>1, StaysBehind
  <2>. QED  BY <1>2, <1>5, <2>1 DEF DecodeFrame
<1>7. out \in Seq([meta : Frames \cup {0}, frame : Frames])
      /\ e \in [meta : Frames \cup {0}, frame : Frames]
  <2>1. d_meta'.frame \in Frames \cup {0}
    BY MacTypes DEF MacTypeOK, Tags, NoTag
  <2>. QED  BY <2>1, HeadTaken DEF MacTypeOK
<1>. HIDE DEF e
<1>8. Len(out') = Len(out) + 1 /\ out'[Len(out) + 1] = e /\ Len(out) \in Nat
  BY <1>6, <1>7, AppendProperties, LenProperties
<1>9. Len(out) + 1 \in 1 .. Len(out') /\ out'[Len(out) + 1].frame = f
  BY <1>8 DEF e
<1>. QED  BY <1>9

\* decode_mac takes a symbol: the next in the stream follows that one.
LEMMA FollowingTaken ==
    ASSUME IInv, MacNext, UNCHANGED eqVars
    PROVE  Following'
<1>. USE DEF IInv
<1>1. UNCHANGED <<header, reset, rx, d_current_symbol>>
  BY DEF eqVars
<1>2. PICK f, k : f = Symbol.frame /\ k = Symbol.k
  OBVIOUS
<1>3. f = chan[1].frame /\ k = chan[1].k /\ chan # <<>>
  BY <1>2, HeadTaken DEF MacNext, SkipSymbol, CopySymbol, DecodeFrame
<1>4. Ok(f) => Follows(f, k + 1)'
  BY <1>2, HeadFollowed
<1>5. CASE chan' = <<>>
  <2>1. Len(chan) = 1
    BY <1>5, HeadTaken, EmptySeq
  <2>2. Sending => f = rx.frame /\ k = d_current_symbol - Preamble
    BY <1>3, <2>1 DEF Contiguous
  <2>. QED  BY <1>1, <1>4, <1>5, <2>2 DEF Following, Ok, Sending, Preamble
<1>6. CASE chan' # <<>>
  <2>1. Len(chan') \in Nat /\ Len(chan') # 0
    BY <1>6, HeadTaken, EmptySeq
  <2>2. 1 \in 1 .. Len(chan') /\ 1 \in 1 .. Len(chan) - 1
    BY <2>1, HeadTaken
  <2>3. chan'[1] = chan[1 + 1] /\ Successor(chan[1], chan[1 + 1])
    BY <2>2, HeadTaken DEF Contiguous
  <2>4. chan'[1].k > 1 => chan'[1].frame = f /\ chan'[1].k = k + 1
    BY <1>3, <2>3 DEF Successor
  <2>. QED  BY <1>1, <1>4, <1>6, <2>4 DEF Following, Ok
<1>. QED  BY <1>5, <1>6

\* When no symbol of a whole frame is left in the stream, the last one was taken.
LEMMA LastTaken ==
    ASSUME IInv, MacNext, UNCHANGED eqVars,
           NEW f \in whole, Ok(f), Symbol.frame = f, Symbol.k <= header[f].n,
           \A j \in 1 .. Len(chan') :
              ~(chan'[j].frame = f /\ chan'[j].k <= header[f].n)
    PROVE  Symbol.k = header[f].n
<1>. USE DEF IInv, EqInv
<1>. DEFINE N == header[f].n
<1>1. /\ Symbol.k \in Nat /\ Symbol.n = N /\ N \in Nat
      /\ Symbol = chan[1]
  <2>1. Symbol.k \in Nat /\ Symbol.n \in NSYMS
    BY HeadTaken DEF Symbols
  <2>2. Symbol.n \in Nat \ {0}
    BY <2>1, Zenon
  <2>. QED  BY <2>1, <2>2, HeadTaken DEF SymbolRight
<1>2. SUFFICES ASSUME Symbol.k < N
               PROVE  FALSE
  BY <1>1
<1>3. ~Ended(Symbol)
  BY <1>1, <1>2 DEF Ended
<1>4. CASE Len(chan) = 1
  <2>1. chan # <<>> /\ chan[Len(chan)] = Symbol
    BY <1>1, <1>4 DEF MacNext, SkipSymbol, CopySymbol, DecodeFrame
  <2>2. Sending /\ f = rx.frame /\ Symbol.k = d_current_symbol - Preamble
    BY <1>3, <2>1 DEF Contiguous
  <2>3. rx.place >= Preamble + N /\ N = rx.n /\ d_frame_symbols = N
    <3>1. rx.place >= Preamble
      BY <2>2, InputTypes DEF Sending
    <3>2. N = rx.n /\ d_frame_symbols = rx.n
      BY <2>2, <3>1 DEF HeaderKnown
    <3>3. rx.place >= Preamble + rx.n
      BY <2>2 DEF WholeKnown
    <3>. QED  BY <3>2, <3>3
  <2>4. d_current_symbol >= Preamble + N
    BY SMTT(40), <2>3, InputTypes DEF Counters, Preamble
  <2>. QED  BY SMTT(40), <1>1, <1>2, <2>2, <2>4, InputTypes
<1>5. CASE Len(chan) # 1
  <2>1. 1 \in 1 .. Len(chan') /\ 1 \in 1 .. Len(chan) - 1
    <3>1. Len(chan) \in Nat /\ Len(chan) >= 1 /\ Len(chan') = Len(chan) - 1
      BY HeadTaken
    <3>. QED  BY <1>5, <3>1
  <2>2. chan'[1] = chan[1 + 1] /\ Successor(chan[1], chan[1 + 1])
    BY <2>1, HeadTaken DEF Contiguous
  <2>3. chan'[1].frame = f /\ chan'[1].k = Symbol.k + 1
    BY <1>1, <1>3, <2>2 DEF Successor
  <2>. QED  BY SMTT(40), <1>1, <1>2, <2>1, <2>3
<1>. QED  BY <1>4, <1>5

\* What it publishes is the frame whose last symbol it took.
LEMMA PublishedTaken ==
    ASSUME IInv, MacNext, UNCHANGED eqVars
    PROVE  Published'
<1>. USE DEF IInv
<1>1. UNCHANGED <<header, reset, whole>>
  BY DEF eqVars
<1>. DEFINE e == [meta |-> d_meta'.frame, frame |-> Symbol.frame]
<1>2. out' = out \/ out' = Append(out, e)
  BY DEF MacNext, SkipSymbol, CopySymbol, DecodeFrame
<1>3. /\ header[Symbol.frame].outcome # "none"
      /\ Ok(Symbol.frame) => e.meta = e.frame
  <2>1. PICK f, k : f = Symbol.frame /\ k = Symbol.k
    OBVIOUS
  <2>2. Ok(f) => d_meta'.frame = f
    BY <2>1, HeadFollowed DEF Follows
  <2>. QED  BY <2>1, <2>2, HeadTaken DEF SymbolRight
<1>4. /\ out \in Seq([meta : Frames \cup {0}, frame : Frames])
      /\ e \in [meta : Frames \cup {0}, frame : Frames]
  <2>1. d_meta'.frame \in Frames \cup {0}
    BY MacTypes DEF MacTypeOK, Tags, NoTag
  <2>. QED  BY <2>1, HeadTaken DEF MacTypeOK
<1>5. e.frame = Symbol.frame
  OBVIOUS
<1>. HIDE DEF e
<1>6. /\ Len(out) \in Nat /\ Len(out') \in Nat /\ Len(out) <= Len(out')
      /\ \A i \in 1 .. Len(out) : out'[i] = out[i]
      /\ \A i \in 1 .. Len(out') : i \in 1 .. Len(out) \/ out'[i] = e
  <2>1. CASE out' = out
    BY <1>4, <2>1, LenProperties
  <2>2. CASE out' = Append(out, e)
    <3>1. /\ Len(out) \in Nat /\ Len(out') = Len(out) + 1
          /\ \A i \in 1 .. Len(out) : out'[i] = out[i]
          /\ out'[Len(out) + 1] = e
      BY <1>4, <2>2, AppendProperties, LenProperties
    <3>2. \A i \in 1 .. Len(out') : i \in 1 .. Len(out) \/ i = Len(out) + 1
      BY <3>1
    <3>. QED  BY <3>1, <3>2
  <2>. QED  BY <1>2, <2>1, <2>2
<1>7. \A i \in 1 .. Len(out') : header[out'[i].frame].outcome # "none"
  BY <1>3, <1>5, <1>6 DEF Published
<1>8. \A i \in 1 .. Len(out') : Ok(out'[i].frame) => out'[i].meta = out'[i].frame
  BY <1>3, <1>5, <1>6 DEF Published, OwnMetadata, Ok
<1>9. WholeFramePublished'
  <2>. SUFFICES ASSUME NEW f \in whole \ reset, Ok(f), header[f].n <= MAX_SYM,
                       ~Behind(left', header[f].n),
                       \A j \in 1 .. Len(chan') :
                          ~(chan'[j].frame = f /\ chan'[j].k <= header[f].n)
                PROVE  \E i \in 1 .. Len(out') : out'[i].frame = f
    BY <1>1 DEF WholeFramePublished, Ok
  <2>1. CASE Symbol.frame = f /\ Symbol.k <= header[f].n
    <3>1. Symbol.k = header[f].n
      BY <2>1, LastTaken
    <3>. QED  BY <2>1, <3>1, LastPublishes
  <2>2. CASE ~(Symbol.frame = f /\ Symbol.k <= header[f].n)
    <3>1. \A j \in 1 .. Len(chan) : ~(chan[j].frame = f /\ chan[j].k <= header[f].n)
      <4>. SUFFICES ASSUME NEW j \in 1 .. Len(chan)
                    PROVE  ~(chan[j].frame = f /\ chan[j].k <= header[f].n)
        OBVIOUS
      <4>1. CASE j = 1
        BY <2>2, <4>1, HeadTaken
      <4>2. CASE j # 1
        <5>1. j - 1 \in 1 .. Len(chan') /\ chan'[j - 1] = chan[j - 1 + 1]
          BY <4>2, HeadTaken
        <5>2. chan'[j - 1] = chan[j]
          BY <5>1
        <5>. QED  BY <5>1, <5>2
      <4>. QED  BY <4>1, <4>2
    <3>2. PICK i \in 1 .. Len(out) : out[i].frame = f
      BY <3>1, StaysBehind DEF Published, WholeFramePublished, Ok
    <3>3. i \in 1 .. Len(out') /\ out'[i].frame = f
      BY <1>6, <3>2
    <3>. QED  BY <3>3
  <2>. QED  BY <2>1, <2>2
<1>. QED  BY <1>1, <1>7, <1>8, <1>9, MacTypes DEF Published, OwnMetadata, Ok

\* Every step of decode_mac preserves the invariant.
LEMMA MacStep ==
    ASSUME IInv, MacNext, UNCHANGED eqVars
    PROVE  IInv'
<1>1. EqInv' /\ SymbolsRight' /\ Contiguous'
  BY StreamTaken
<1>2. MacTypeOK'
  BY MacTypes
<1>3. Following'
  BY FollowingTaken
<1>4. Published'
  BY PublishedTaken
<1>. QED  BY <1>1, <1>2, <1>3, <1>4 DEF IInv

-----------------------------------------------------------------------------
(* The invariant holds of every state, and with it what it is made of.      *)

\* The invariant holds before the first symbol, whatever the buffer's counters
\* hold then.
LEMMA InitIInv ==
    ASSUME Init
    PROVE  IInv
<1>. USE DEF Init, EqInit, MacInit
<1>1. EqInv
  <2>1. 1 \in Frames
    BY DEF Frames
  <2>2. rx \in [frame : Frames, place : Nat, n : NSYMS] /\ rx.place = 0 /\ rx.frame = 1
    BY <2>1
  <2>3. EqTypeOK
    BY <2>2 DEF EqTypeOK, Tags, NoTag, Outcomes
  <2>4. Preamble # 0
    BY DEF Preamble
  <2>. QED
    BY <2>2, <2>3, <2>4 DEF EqInv, Counters, HeaderKnown, WholeKnown, Estimate,
                            Waiting, Preamble, Frames
<1>2. copied \in Nat /\ n_sym \in Nat
  OBVIOUS
<1>3. d_encoded_bits \in Seq(BufferSymbols) /\ Len(d_encoded_bits) = copied
  <2>1. Zeros \in BufferSymbols
    BY DEF Zeros, BufferSymbols
  <2>2. d_encoded_bits \in [1 .. copied -> BufferSymbols]
    BY <2>1
  <2>. QED  BY <1>2, <2>2
<1>4. MacTypeOK
  BY <1>2, <1>3 DEF MacTypeOK, BufferSymbols, Tags
<1>5. ~Sending
  BY DEF Sending, Preamble
<1>6. SymbolsRight /\ Contiguous /\ Following
  BY <1>5 DEF SymbolsRight, Contiguous, Following
<1>7. Published
  BY <1>3 DEF Published, OwnMetadata, WholeFramePublished
<1>. QED  BY <1>1, <1>4, <1>6, <1>7 DEF IInv

\* Steps that change nothing preserve it.
LEMMA StutterStep ==
    ASSUME IInv, UNCHANGED vars
    PROVE  IInv'
<1>. USE DEF vars, eqVars, macVars
<1>1. EqInv'
  BY DEF IInv, EqInv, EqTypeOK, Counters, HeaderKnown, WholeKnown, Estimate, Waiting, Ok
<1>2. MacTypeOK'
  BY DEF IInv, MacTypeOK
<1>3. SymbolsRight'
  BY DEF IInv, SymbolsRight, SymbolRight, Ok
<1>4. Contiguous'
  BY DEF IInv, Contiguous, Successor, Ended, Sending, Ok
<1>5. Following'
  BY DEF IInv, Following, Follows, Sending, Ok
<1>6. Published'
  BY DEF IInv, Published, OwnMetadata, WholeFramePublished
<1>. QED  BY <1>1, <1>2, <1>3, <1>4, <1>5, <1>6 DEF IInv

\* The invariant is inductive.
LEMMA NextIInv ==
    ASSUME IInv, [Next]_vars
    PROVE  IInv'
<1>1. CASE EqNext /\ UNCHANGED macVars
  BY <1>1, DropStep, TrainStep, SignalStep, DataStep, ResetStep DEF EqNext
<1>2. CASE MacNext /\ UNCHANGED eqVars
  BY <1>2, MacStep
<1>3. CASE UNCHANGED vars
  BY <1>3, StutterStep
<1>. QED  BY <1>1, <1>2, <1>3 DEF Next

\* The invariant holds of every state the two blocks reach.
THEOREM Invariance == Spec => []IInv
<1>1. Init => IInv
  BY InitIInv
<1>2. IInv /\ [Next]_vars => IInv'
  BY NextIInv
<1>. QED  BY <1>1, <1>2, PTL DEF Spec

\* Each variable has its type, the counters read from uninitialised memory and
\* the number of symbols of a rejected header included.
THEOREM TypeCorrect == Spec => []TypeOK
<1>1. IInv => TypeOK
  BY DEF IInv, EqInv, TypeOK
<1>. QED  BY <1>1, Invariance, PTL

\* frame_equalizer's tags reach decode_mac on the first data symbol of a frame,
\* and they are that frame's unless its own header was not received.
THEOREM TagsOnFirst == Spec => []TagsOnFirstSymbol
<1>1. IInv => TagsOnFirstSymbol
  BY DEF IInv, SymbolsRight, SymbolRight, TagsOnFirstSymbol
<1>. QED  BY <1>1, Invariance, PTL

\* A data symbol is divided by the channel estimated on its own frame's training
\* symbols, unless set_algorithm came in between.
THEOREM OwnChannelUsed == Spec => []OwnChannel
<1>1. IInv => OwnChannel
  BY DEF IInv, SymbolsRight, SymbolRight, OwnChannel
<1>. QED  BY <1>1, Invariance, PTL

\* At most one symbol of what follows a frame passes frame_equalizer's test.
THEOREM OneStray == Spec => []AtMostOneStray
<1>1. IInv => AtMostOneStray
  BY DEF IInv, SymbolsRight, SymbolRight, AtMostOneStray, Ok
<1>. QED  BY <1>1, Invariance, PTL

\* decode_mac publishes a frame whose header was received with the metadata of
\* its own header.
THEOREM MetadataOwn == Spec => []OwnMetadata
<1>1. IInv => OwnMetadata
  BY DEF IInv, Published
<1>. QED  BY <1>1, Invariance, PTL

\* A frame received from its first to its last symbol is published, whatever was
\* cut, lost or left over before it, as long as no frame with more bits was copied
\* into the buffers that decode_mac never clears.
THEOREM WholePublished == Spec => []WholeFramePublished
<1>1. IInv => WholeFramePublished
  BY DEF IInv, Published
<1>. QED  BY <1>1, Invariance, PTL

=============================================================================
