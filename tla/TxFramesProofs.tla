--------------------------- MODULE TxFramesProofs ---------------------------
(***************************************************************************)
(* Proofs about the transmit path, for any messages and rates, any limit   *)
(* on the symbols of a frame and any stream buffer: the blocks together    *)
(* implement a queue of frames, and chunks_to_symbols finds one tag in     *)
(* each packet.                                                            *)
(***************************************************************************)
EXTENDS TxFrames, SequenceTheorems, FiniteSetTheorems, TLAPS

USE TxAssumption, CapacityAssumption, BufferAssumption

-----------------------------------------------------------------------------
(* The frames the mapper has begun, in order: the message, where it is in  *)
(* the stream, and what it is coded with.  The stream and its tags are     *)
(* made of such a log, and each reader has read some frames of it.         *)

Messages == [id : 1..MSGS, size : SIZES]

Entries == [msg : Messages, at : Nat, enc : Encodings, seed : 1..MAX_SEED]

Size(e) == NSym(e.enc, e.msg.size)
FrameOf(e) == Coded(e.msg, e.enc, e.seed)
End(e) == e.at + Size(e)
TagOf(e) == [at |-> e.at, packet_len |-> Size(e), psdu_len |-> e.msg.size,
             encoding |-> e.enc]

\* Where the i-th frame begins; the last place is that of the next frame.
Place(log, i) == IF i = 1 THEN 0 ELSE End(log[i - 1])

\* The frames lie one behind the other.
Layout(log) ==
    /\ log \in Seq(Entries)
    /\ \A i \in 1..Len(log) :
          /\ log[i].at = Place(log, i)
          /\ log[i].msg.size > 0
          /\ Size(log[i]) \in 1..MAX_SYM
    /\ \A i, j \in 1..Len(log) : i < j => End(log[i]) <= log[j].at

\* The messages and the tags of the log.
Begun(log) ==
    /\ Len(taken) = Len(log)
    /\ \A i \in 1..Len(log) : taken[i] = log[i].msg
    /\ streamTags = {TagOf(log[i]) : i \in 1..Len(log)}

\* The frame in progress is the last one.
Writing(log) ==
    IF d_symbols_offset = 0
    THEN /\ d_symbols = <<>>
         /\ Len(stream) = Place(log, Len(log) + 1)
    ELSE /\ Len(log) > 0
         /\ d_symbols = FrameOf(log[Len(log)])
         /\ d_symbols_offset < Size(log[Len(log)])
         /\ Len(stream) = log[Len(log)].at + d_symbols_offset

\* What is written of each frame is that frame's symbols.
Written(log) ==
    \A i \in 1..Len(log) : \A k \in 1..Size(log[i]) :
        log[i].at + k <= Len(stream) => stream[log[i].at + k] = FrameOf(log[i])[k]

\* chunks_to_symbols has mapped the first frames.
Mapped(log) ==
    /\ Len(air) + Len(payloads) <= Len(log)
    /\ symRead = Place(log, Len(air) + Len(payloads) + 1)
    /\ \A j \in 1..Len(payloads) :
          payloads[j] = [mapped |-> log[Len(air) + j].enc,
                         data   |-> FrameOf(log[Len(air) + j])]

\* The header generator has announced the first frames.
Formatted(log) ==
    /\ Len(air) + Len(headers) <= Len(log)
    /\ hdrRead = Place(log, Len(air) + Len(headers) + 1)
    /\ \A j \in 1..Len(headers) :
          headers[j] = [size |-> log[Len(air) + j].msg.size,
                        mcs  |-> log[Len(air) + j].enc]

\* chunks_to_symbols fails only on a frame it has no constellation for.
Failing(log) ==
    failed =>
        LET i == Len(air) + Len(payloads) + 1
        IN  i <= Len(log) /\ log[i].enc \in UNMAPPED

Logged(log) ==
    /\ Layout(log)
    /\ Begun(log)
    /\ Writing(log)
    /\ Written(log)
    /\ Mapped(log)
    /\ Formatted(log)
    /\ Failing(log)

IInv == TypeOK /\ \E log : Logged(log)

-----------------------------------------------------------------------------
(* Sizes, places and packets.                                              *)

\* Division, as the prover needs it.
LEMMA DivMod ==
    ASSUME NEW d \in Nat, d > 0, NEW x \in Nat
    PROVE  /\ x \div d \in Nat
           /\ x % d \in 0..(d - 1)
           /\ x = d * (x \div d) + (x % d)
OBVIOUS

\* A message takes symbols, and one with data takes at least one.
LEMMA SymbolsTaken ==
    ASSUME NEW e \in Encodings, NEW size \in Nat
    PROVE  /\ NSym(e, size) \in Nat
           /\ size > 0 => NSym(e, size) > 0
<1>1. PICK d \in Nat \ {0} : d = NDBPS[e]
  OBVIOUS
<1>2. PICK x \in Nat : x = size + d - 1
  BY <1>1
<1>3. /\ x \div d \in Nat /\ x % d \in 0..(d - 1)
      /\ x = d * (x \div d) + (x % d)
  <2>1. d \in Nat /\ d > 0 /\ x \in Nat
    OBVIOUS
  <2>. QED  BY ONLY <2>1, DivMod
<1>4. size > 0 => x \div d # 0
  BY <1>1, <1>2, <1>3
<1>. QED  BY <1>1, <1>2, <1>3, <1>4 DEF NSym

\* The coded frame of a message has its symbols.
LEMMA FrameType ==
    ASSUME NEW e \in Entries, Size(e) \in 1..MAX_SYM
    PROVE  /\ FrameOf(e) \in Seq(Items)
           /\ Len(FrameOf(e)) = Size(e)
           /\ \A k \in 1..Size(e) :
                 FrameOf(e)[k] = [id |-> e.msg.id, enc |-> e.enc, seed |-> e.seed, k |-> k]
<1>1. Size(e) \in Nat /\ FrameOf(e) =
        [k \in 1..Size(e) |-> [id |-> e.msg.id, enc |-> e.enc, seed |-> e.seed, k |-> k]]
  BY DEF FrameOf, Coded, Size
<1>2. e.msg.id \in 1..MSGS /\ e.enc \in Encodings /\ e.seed \in 1..MAX_SEED
  BY DEF Entries, Messages
<1>3. ASSUME NEW k \in 1..Size(e)
      PROVE  [id |-> e.msg.id, enc |-> e.enc, seed |-> e.seed, k |-> k] \in Items
  <2>1. k \in 1..MAX_SYM
    BY <1>1
  <2>. QED  BY <1>2, <2>1 DEF Items
<1>4. FrameOf(e) \in [1..Size(e) -> Items]
  BY <1>1, <1>3
<1>. QED  BY <1>1, <1>4

\* Places go up by the sizes of the frames.
LEMMA Places ==
    ASSUME NEW log, Layout(log)
    PROVE  /\ Len(log) \in Nat
           /\ \A i \in 1..(Len(log) + 1) : Place(log, i) \in Nat
           /\ \A i \in 1..Len(log) :
                 /\ log[i] \in Entries
                 /\ Size(log[i]) \in 1..MAX_SYM
                 /\ log[i].at = Place(log, i)
                 /\ Place(log, i + 1) = End(log[i])
                 /\ End(log[i]) = log[i].at + Size(log[i])
           /\ \A i \in 1..Len(log), j \in 1..(Len(log) + 1) :
                 i < j => End(log[i]) <= Place(log, j)
<1>1. log \in Seq(Entries) /\ Len(log) \in Nat
  BY DEF Layout
<1>2. ASSUME NEW i \in 1..Len(log)
      PROVE  /\ log[i] \in Entries
             /\ Size(log[i]) \in 1..MAX_SYM /\ Size(log[i]) \in Nat
             /\ log[i].at = Place(log, i)
             /\ log[i].at \in Nat
             /\ End(log[i]) = log[i].at + Size(log[i])
             /\ End(log[i]) \in Nat
  <2>1. log[i] \in Entries
    BY <1>1
  <2>2. Size(log[i]) \in 1..MAX_SYM /\ log[i].at = Place(log, i)
    BY DEF Layout
  <2>3. log[i].at \in Nat
    BY <2>1 DEF Entries
  <2>. QED  BY <2>1, <2>2, <2>3 DEF End
<1>3. ASSUME NEW i \in 1..Len(log)
      PROVE  Place(log, i + 1) = End(log[i])
  BY <1>1 DEF Place
<1>4. ASSUME NEW i \in 1..(Len(log) + 1)
      PROVE  Place(log, i) \in Nat
  <2>1. CASE i = 1
    BY <2>1 DEF Place
  <2>2. CASE i # 1
    <3>1. i - 1 \in 1..Len(log)
      BY <1>1, <2>2
    <3>2. End(log[i - 1]) \in Nat
      BY <1>2, <3>1
    <3>. QED  BY <2>2, <3>2 DEF Place
  <2>. QED  BY <2>1, <2>2
<1>5. ASSUME NEW i \in 1..Len(log), NEW j \in 1..(Len(log) + 1), i < j
      PROVE  End(log[i]) <= Place(log, j)
  <2>1. CASE j \in 1..Len(log)
    <3>1. End(log[i]) <= log[j].at /\ log[j].at = Place(log, j)
      BY <1>5, <2>1 DEF Layout
    <3>. QED  BY <3>1
  <2>2. CASE j = Len(log) + 1
    <3>1. PICK m \in 1..Len(log) : m = Len(log)
      BY <1>1
    <3>2. Place(log, j) = End(log[m])
      BY <1>3, <2>2, <3>1
    <3>3. CASE i = m
      BY <1>2, <3>2, <3>3
    <3>4. CASE i # m
      <4>1. End(log[i]) <= log[m].at
        BY <3>1, <3>4 DEF Layout
      <4>2. End(log[i]) \in Nat
        BY <1>2
      <4>. QED  BY <1>2, <3>2, <4>1, <4>2
    <3>. QED  BY <3>3, <3>4
  <2>. QED  BY <1>1, <2>1, <2>2
<1>. QED  BY <1>1, <1>2, <1>3, <1>4, <1>5

\* A reader that stands where a frame begins finds that frame's tag alone, and
\* its packet is the frame.
LEMMA PacketFound ==
    ASSUME NEW log, Layout(log), Begun(log),
           NEW s \in 1..(Len(log) + 1), NEW n \in 1..MAX_SYM,
           Packet(Place(log, s), n)
    PROVE  /\ s \in 1..Len(log)
           /\ n = Size(log[s])
           /\ TagsIn(Place(log, s), n) = {TagOf(log[s])}
           /\ Place(log, s) + n = Place(log, s + 1)
<1>1. PICK i \in 1..Len(log) : TagOf(log[i]).at = Place(log, s) /\ TagOf(log[i]).packet_len = n
  BY DEF Packet, Begun
<1>2. /\ Len(log) \in Nat /\ Place(log, s) \in Nat
      /\ \A j \in 1..Len(log) :
            /\ log[j].at \in Nat /\ Size(log[j]) \in Nat /\ Size(log[j]) > 0
            /\ End(log[j]) = log[j].at + Size(log[j])
  <2>1. Len(log) \in Nat /\ Place(log, s) \in Nat
    BY Places
  <2>. SUFFICES ASSUME NEW j \in 1..Len(log)
                PROVE  /\ log[j].at \in Nat /\ Size(log[j]) \in Nat /\ Size(log[j]) > 0
                       /\ End(log[j]) = log[j].at + Size(log[j])
    BY <2>1
  <2>2. log[j] \in Entries /\ Size(log[j]) \in 1..MAX_SYM
    BY Places
  <2>3. log[j].at \in Nat
    BY <2>2 DEF Entries
  <2>. QED  BY SMTT(40), <2>2, <2>3, Places
<1>3. log[i].at = Place(log, s) /\ Size(log[i]) = n
  BY <1>1 DEF TagOf
<1>4. i = s
  <2>1. ~(i < s)
    <3>1. i < s => End(log[i]) <= Place(log, s)
      BY Places
    <3>. QED  BY <1>2, <1>3, <3>1
  <2>2. ~(s < i)
    <3>. SUFFICES ASSUME s < i PROVE FALSE
      OBVIOUS
    <3>1. s \in 1..Len(log)
      BY <1>2
    <3>2. End(log[s]) <= log[i].at /\ log[s].at = Place(log, s)
      BY <3>1 DEF Layout
    <3>. QED  BY <1>2, <1>3, <3>1, <3>2
  <2>. QED  BY <1>2, <2>1, <2>2
<1>5. \A j \in 1..Len(log) :
         (Place(log, s) <= log[j].at /\ log[j].at < Place(log, s) + n) <=> j = s
  <2>. SUFFICES ASSUME NEW j \in 1..Len(log), j # s
                PROVE  ~(Place(log, s) <= log[j].at /\ log[j].at < Place(log, s) + n)
    BY <1>2, <1>3, <1>4
  <2>1. CASE j < s
    <3>1. End(log[j]) <= log[s].at
      BY <1>4, <2>1 DEF Layout
    <3>. QED  BY <1>2, <1>3, <1>4, <3>1
  <2>2. CASE s < j
    <3>1. End(log[s]) <= log[j].at
      BY <1>4, <2>2 DEF Layout
    <3>. QED  BY <1>2, <1>3, <1>4, <3>1
  <2>. QED  BY <1>2, <2>1, <2>2
<1>6. TagsIn(Place(log, s), n) = {TagOf(log[s])}
  <2>1. \A j \in 1..Len(log) : TagOf(log[j]).at = log[j].at
    BY DEF TagOf
  <2>2. TagsIn(Place(log, s), n)
          = {t \in {TagOf(log[j]) : j \in 1..Len(log)} :
               Place(log, s) <= t.at /\ t.at < Place(log, s) + n}
    BY DEF TagsIn, Begun
  <2>. QED  BY <1>4, <1>5, <2>1, <2>2
<1>7. Place(log, s) + n = Place(log, s + 1)
  BY <1>2, <1>3, <1>4, Places
<1>. QED  BY <1>3, <1>4, <1>6, <1>7

\* The items of a packet are the symbols of the frame.
LEMMA PacketData ==
    ASSUME NEW log, Layout(log), Written(log), stream \in Seq(Items),
           NEW s \in 1..Len(log), Place(log, s + 1) <= Len(stream)
    PROVE  SubSeq(stream, Place(log, s) + 1, Place(log, s + 1)) = FrameOf(log[s])
<1>. DEFINE p == Place(log, s)
            q == Place(log, s + 1)
            n == Size(log[s])
            f == FrameOf(log[s])
<1>1. /\ p \in Nat /\ n \in Nat /\ n \in 1..MAX_SYM /\ q = p + n
      /\ log[s].at = p /\ log[s] \in Entries
  <2>1. s \in 1..(Len(log) + 1)
    BY Places
  <2>. QED  BY <2>1, Places
<1>2. f \in Seq(Items) /\ Len(f) = n
  BY <1>1, FrameType
<1>3. ASSUME NEW k \in 1..n PROVE stream[p + k] = f[k]
  BY SMTT(40), <1>1 DEF Written
<1>. HIDE DEF p, q, n, f
<1>4. \A i \in (p + 1)..q : stream[i] \in Items
  <2>. SUFFICES ASSUME NEW i \in (p + 1)..q PROVE stream[i] \in Items
    OBVIOUS
  <2>1. q <= Len(stream)
    BY DEF q
  <2>2. i \in 1..Len(stream)
    BY <1>1, <2>1
  <2>. QED  BY <2>2
<1>. DEFINE u == SubSeq(stream, p + 1, q)
<1>5. /\ u \in Seq(Items) /\ Len(u) = n
      /\ \A i \in 1..n : u[i] = stream[p + 1 + i - 1]
  <2>1. /\ u \in Seq(Items) /\ Len(u) = (IF p + 1 <= q THEN q - (p + 1) + 1 ELSE 0)
        /\ \A i \in 1..(q - (p + 1) + 1) : u[i] = stream[p + 1 + i - 1]
    <3>1. p + 1 \in Int /\ q \in Int
      BY <1>1
    <3>. QED  BY <1>4, <3>1, SubSeqProperties
  <2>2. q - (p + 1) + 1 = n /\ p + 1 <= q
    BY <1>1
  <2>. QED  BY <2>1, <2>2
<1>6. ASSUME NEW i \in 1..n PROVE u[i] = f[i]
  <2>1. p + 1 + i - 1 = p + i
    BY <1>1
  <2>. QED  BY <1>3, <1>5, <2>1
<1>. HIDE DEF u
<1>7. u = f
  BY <1>2, <1>5, <1>6, SeqEqual
<1>. QED  BY <1>7 DEF u, p, q, f

-----------------------------------------------------------------------------
(* The log goes on.                                                        *)

\* A frame begun behind the others leaves their places as they are.
LEMMA PlacesKept ==
    ASSUME NEW log \in Seq(Entries), NEW e \in Entries, NEW log2, log2 = Append(log, e),
           NEW i \in 1..(Len(log) + 1)
    PROVE  Place(log2, i) = Place(log, i)
<1>1. Len(log) \in Nat /\ \A j \in 1..Len(log) : log2[j] = log[j]
  BY AppendProperties
<1>2. CASE i = 1
  BY <1>2 DEF Place
<1>3. CASE i # 1
  <2>1. i - 1 \in 1..Len(log)
    BY <1>1, <1>3
  <2>2. log2[i - 1] = log[i - 1]
    BY <1>1, <2>1
  <2>. QED  BY <1>3, <2>2 DEF Place
<1>. QED  BY <1>2, <1>3

\* The log with it is a log.
LEMMA Extended ==
    ASSUME NEW log, Layout(log), NEW e \in Entries, e.at = Place(log, Len(log) + 1),
           e.msg.size > 0, Size(e) \in 1..MAX_SYM,
           NEW log2, log2 = Append(log, e)
    PROVE  /\ Layout(log2)
           /\ Len(log2) = Len(log) + 1
           /\ log2[Len(log2)] = e
           /\ \A i \in 1..Len(log) : log2[i] = log[i]
<1>1. /\ log2 \in Seq(Entries) /\ Len(log2) = Len(log) + 1
      /\ \A i \in 1..Len(log) : log2[i] = log[i]
      /\ log2[Len(log) + 1] = e
      /\ Len(log) \in Nat
  BY AppendProperties, Places DEF Layout
<1>2. ASSUME NEW i \in 1..(Len(log) + 1)
      PROVE  Place(log2, i) = Place(log, i)
  BY PlacesKept DEF Layout
<1>3. ASSUME NEW i \in 1..Len(log2)
      PROVE  /\ log2[i].at = Place(log2, i)
             /\ log2[i].msg.size > 0
             /\ Size(log2[i]) \in 1..MAX_SYM
  <2>1. CASE i \in 1..Len(log)
    <3>1. log2[i] = log[i] /\ Place(log2, i) = Place(log, i)
      BY <1>1, <1>2, <2>1
    <3>. QED  BY <2>1, <3>1 DEF Layout
  <2>2. CASE i = Len(log) + 1
    <3>1. i \in 1..(Len(log) + 1)
      BY <1>1, <2>2
    <3>. QED  BY <1>1, <1>2, <2>2, <3>1
  <2>. QED  BY <1>1, <2>1, <2>2
<1>4. ASSUME NEW i \in 1..Len(log2), NEW j \in 1..Len(log2), i < j
      PROVE  End(log2[i]) <= log2[j].at
  <2>1. i \in 1..Len(log) /\ j \in 1..(Len(log) + 1)
    BY <1>1, <1>4
  <2>2. log2[i] = log[i]
    BY <1>1, <2>1
  <2>3. log2[j].at = Place(log, j)
    BY <1>2, <1>3, <2>1
  <2>. QED  BY <1>4, <2>1, <2>2, <2>3, Places
<1>. QED  BY <1>1, <1>2, <1>3, <1>4 DEF Layout

\* What the end of a call writes is the next piece of the frame in progress.
LEMMA OutputWrites ==
    ASSUME NEW log, Layout(log), Len(log) > 0, Written(log), stream \in Seq(Items),
           NEW f, f = FrameOf(log[Len(log)]), NEW offset \in Nat, offset < Len(f),
           Len(stream) = log[Len(log)].at + offset,
           NEW room \in Nat \ {0}, Output(f, offset, room)
    PROVE  /\ stream' \in Seq(Items)
           /\ Len(stream') \in Nat /\ Len(stream) <= Len(stream')
           /\ d_symbols' \in Seq(Items)
           /\ d_symbols_offset' \in 0..(MAX_SYM - 1)
           /\ Writing(log)'
           /\ Written(log)'
<1>. DEFINE e == log[Len(log)]
            n == Size(e)
            i == IF room < Len(f) - offset THEN room ELSE Len(f) - offset
            u == SubSeq(f, offset + 1, offset + i)
<1>1. /\ Len(log) \in Nat /\ Len(log) \in 1..Len(log)
      /\ e \in Entries /\ n \in 1..MAX_SYM /\ e.at \in Nat
      /\ Place(log, Len(log) + 1) = e.at + n
  <2>1. Len(log) \in Nat /\ Len(log) \in 1..Len(log)
    BY Places
  <2>2. e \in Entries /\ n \in 1..MAX_SYM /\ Place(log, Len(log) + 1) = e.at + n
    BY <2>1, Places
  <2>. QED  BY <2>1, <2>2 DEF Entries
<1>2. f \in Seq(Items) /\ Len(f) = n
  BY <1>1, FrameType
<1>3. i \in 1..n /\ offset + i <= n
  BY <1>1, <1>2
<1>4. /\ stream' = stream \o u
      /\ d_symbols_offset' = IF offset + i = n THEN 0 ELSE offset + i
      /\ d_symbols' = IF offset + i = n THEN <<>> ELSE f
  BY <1>2 DEF Output
<1>5. /\ u \in Seq(Items) /\ Len(u) = i
      /\ \A m \in 1..i : u[m] = f[offset + m]
  <2>. HIDE DEF e, n, i
  <2>1. offset + 1 \in Int /\ offset + i \in Int /\ i \in Nat
    BY <1>1, <1>3
  <2>2. \A m \in (offset + 1)..(offset + i) : f[m] \in Items
    <3>. SUFFICES ASSUME NEW m \in (offset + 1)..(offset + i) PROVE f[m] \in Items
      OBVIOUS
    <3>1. m \in 1..Len(f)
      BY <1>1, <1>2, <1>3
    <3>. QED  BY <1>2, <3>1
  <2>3. /\ u \in Seq(Items)
        /\ Len(u) = (IF offset + 1 <= offset + i THEN offset + i - (offset + 1) + 1 ELSE 0)
        /\ \A m \in 1..(offset + i - (offset + 1) + 1) : u[m] = f[offset + 1 + m - 1]
    BY <2>1, <2>2, SubSeqProperties
  <2>. HIDE DEF u
  <2>4. offset + i - (offset + 1) + 1 = i /\ offset + 1 <= offset + i
    BY <1>1, <1>3, <2>1
  <2>5. ASSUME NEW m \in 1..i PROVE u[m] = f[offset + m]
    <3>1. offset + 1 + m - 1 = offset + m
      BY <2>1
    <3>. QED  BY <2>3, <2>4, <3>1
  <2>. QED  BY <2>3, <2>4, <2>5
<1>10. Len(stream) = e.at + offset
  OBVIOUS
<1>. HIDE DEF e, n, i, u
<1>6. /\ stream' \in Seq(Items)
      /\ Len(stream) \in Nat /\ i \in Nat
      /\ Len(stream') = Len(stream) + i
      /\ \A m \in 1..Len(stream) : stream'[m] = stream[m]
      /\ \A m \in 1..i : stream'[Len(stream) + m] = f[offset + m]
  <2>1. i \in Nat /\ Len(stream) \in Nat
    BY <1>1, <1>3
  <2>2. /\ stream' \in Seq(Items)
        /\ Len(stream') = Len(stream) + i
        /\ \A m \in 1..(Len(stream) + i) :
              stream'[m] = IF m <= Len(stream) THEN stream[m] ELSE u[m - Len(stream)]
    <3>1. /\ stream \o u \in Seq(Items)
          /\ Len(stream \o u) = Len(stream) + Len(u)
          /\ \A m \in 1..(Len(stream) + Len(u)) :
                (stream \o u)[m] = IF m <= Len(stream) THEN stream[m] ELSE u[m - Len(stream)]
      BY ZenonT(60), <1>5, ConcatProperties
    <3>. QED  BY <1>4, <1>5, <3>1
  <2>3. ASSUME NEW m \in 1..i PROVE stream'[Len(stream) + m] = f[offset + m]
    <3>1. /\ Len(stream) + m \in 1..(Len(stream) + i)
          /\ ~(Len(stream) + m <= Len(stream))
          /\ Len(stream) + m - Len(stream) = m
      BY <2>1
    <3>2. stream'[Len(stream) + m] = u[Len(stream) + m - Len(stream)]
      BY SMTT(40), <2>2, <3>1
    <3>. QED  BY <1>5, <3>1, <3>2
  <2>4. ASSUME NEW m \in 1..Len(stream) PROVE stream'[m] = stream[m]
    <3>1. m \in 1..(Len(stream) + i) /\ m <= Len(stream)
      BY <2>1
    <3>. QED  BY <2>2, <3>1
  <2>. QED  BY <2>1, <2>2, <2>3, <2>4
<1>11. /\ Len(stream') = e.at + (offset + i) /\ i \in Nat /\ e.at \in Nat /\ n \in Nat
       /\ Len(stream) \in Nat
  <2>1. i \in Nat /\ e.at \in Nat /\ n \in Nat
    BY <1>1, <1>3
  <2>2. Len(stream') = Len(stream) + i
    BY <1>6
  <2>3. Len(stream') = e.at + offset + i
    BY <1>10, <2>2
  <2>. QED  BY SMTT(40), <1>6, <2>1, <2>3
<1>7. d_symbols' \in Seq(Items) /\ d_symbols_offset' \in 0..(MAX_SYM - 1)
  <2>1. CASE offset + i = n
    BY <1>4, <2>1
  <2>2. CASE offset + i # n
    BY <1>1, <1>2, <1>3, <1>4, <2>2
  <2>. QED  BY <2>1, <2>2
<1>8. Writing(log)'
  <2>1. CASE offset + i = n
    <3>1. Len(stream') = Place(log, Len(log) + 1)
      BY <1>1, <1>11, <2>1
    <3>. QED  BY <1>4, <2>1, <3>1 DEF Writing
  <2>2. CASE offset + i # n
    <3>1. /\ d_symbols_offset' = offset + i /\ d_symbols' = f
          /\ d_symbols_offset' # 0 /\ offset + i < n
      BY <1>1, <1>3, <1>4, <2>2
    <3>2. Len(stream') = e.at + (offset + i)
      BY <1>11
    <3>. QED  BY <3>1, <3>2 DEF Writing, e, n
  <2>. QED  BY <2>1, <2>2
<1>9. Written(log)'
  <2>. SUFFICES ASSUME NEW j \in 1..Len(log), NEW k \in 1..Size(log[j]),
                       log[j].at + k <= Len(stream')
                PROVE  stream'[log[j].at + k] = FrameOf(log[j])[k]
    BY DEF Written
  <2>1. /\ log[j].at \in Nat /\ Size(log[j]) \in Nat /\ k \in Nat /\ k >= 1
        /\ End(log[j]) = log[j].at + Size(log[j])
    <3>1. log[j] \in Entries /\ Size(log[j]) \in 1..MAX_SYM
      BY Places
    <3>2. log[j].at \in Nat
      BY <3>1 DEF Entries
    <3>. QED  BY <3>1, <3>2, Places
  <2>2. CASE log[j].at + k <= Len(stream)
    <3>1. log[j].at + k \in 1..Len(stream)
      <4>1. PICK a \in Nat : a = log[j].at
        BY <2>1
      <4>2. PICK len \in Nat : len = Len(stream)
        BY <1>11
      <4>3. a + k <= len /\ k \in Nat /\ k >= 1
        BY <2>1, <2>2, <4>1, <4>2
      <4>4. a + k \in 1..len
        BY <4>3
      <4>. QED  BY <4>1, <4>2, <4>4
    <3>. QED  BY <1>6, <2>2, <3>1 DEF Written
  <2>3. CASE ~(log[j].at + k <= Len(stream))
    <3>1. j = Len(log)
      <4>. SUFFICES ASSUME j # Len(log) PROVE FALSE
        OBVIOUS
      <4>1. j < Len(log)
        BY <1>1
      <4>2. End(log[j]) <= e.at
        BY <1>1, <4>1 DEF Layout, e
      <4>3. PICK a, b, len, size \in Nat :
               /\ a = log[j].at /\ b = e.at
               /\ len = Len(stream) /\ size = Size(log[j])
        BY <1>11, <2>1
      <4>4. a + size <= b /\ len = b + offset /\ k <= size /\ k \in Nat
        BY <1>10, <2>1, <4>2, <4>3
      <4>5. a + k <= len
        BY <4>4
      <4>. QED  BY <2>3, <4>3, <4>5
    <3>2. log[j].at = e.at /\ Len(stream) = e.at + offset
      BY <1>10, <3>1 DEF e
    <3>3. PICK m \in Int : m = k - offset
      BY <2>1
    <3>4. m \in 1..i /\ log[j].at + k = Len(stream) + m /\ offset + m = k
      <4>1. PICK a \in Nat : a = log[j].at
        BY <2>1
      <4>2. PICK len \in Nat : len = Len(stream)
        BY <1>11
      <4>3. a + k <= len + i /\ ~(a + k <= len) /\ len = a + offset
        BY <1>6, <2>3, <3>2, <4>1, <4>2
      <4>4. i \in Nat /\ k \in Nat
        BY <1>11, <2>1
      <4>5. m \in 1..i /\ a + k = len + m /\ offset + m = k
        BY SMTT(40), <3>3, <4>3, <4>4
      <4>. QED  BY <4>1, <4>2, <4>5
    <3>5. stream'[log[j].at + k] = f[k]
      BY <1>6, <3>4
    <3>. QED  BY <3>1, <3>5
  <2>. QED  BY <2>2, <2>3
<1>. QED  BY SMTT(40), <1>6, <1>7, <1>8, <1>9

-----------------------------------------------------------------------------
(* Every step preserves the invariant.                                     *)

\* The log is none of the clients' business, nor of a refused message's.
LEMMA QuietLog ==
    ASSUME NEW log, Logged(log),
           UNCHANGED <<d_symbols, d_symbols_offset, stream, streamTags, taken,
                       readerVars>>
    PROVE  Logged(log)'
BY DEF Logged, Layout, Begun, Writing, Written, Mapped, Formatted, Failing, readerVars

\* Post and set_encoding, by other threads.
LEMMA ClientsStep ==
    ASSUME IInv, Clients
    PROVE  IInv'
<1>1. PICK log : Logged(log)
  BY DEF IInv
<1>2. Logged(log)'
  BY <1>1, QuietLog DEF Clients, Post, set_encoding
<1>3. CASE Post
  <2>1. PICK size \in SIZES : queue' = Append(queue, Message(posted + 1, size))
    BY <1>3 DEF Post
  <2>2. queue \in Seq([id : 1..MSGS, size : SIZES]) /\ posted \in Nat /\ posted < MSGS
    BY <1>3 DEF Post, IInv, TypeOK
  <2>3. Message(posted + 1, size) \in [id : 1..MSGS, size : SIZES]
    BY <2>2 DEF Message
  <2>4. queue' \in Seq([id : 1..MSGS, size : SIZES]) /\ posted' \in 0..MSGS
    BY <1>3, <2>1, <2>2, <2>3, AppendProperties DEF Post
  <2>5. TypeOK'
    BY <1>3, <2>4 DEF Clients, Post, readerVars, IInv, TypeOK
  <2>. QED  BY <1>2, <2>5 DEF IInv
<1>4. CASE set_encoding
  <2>1. TypeOK'
    BY <1>4 DEF Clients, set_encoding, readerVars, IInv, TypeOK
  <2>. QED  BY <1>2, <2>1 DEF IInv
<1>. QED  BY <1>3, <1>4 DEF Clients

\* A message at the head of the queue that is no PDU or is too large.
LEMMA DropStep ==
    ASSUME IInv, Discard \/ RefuseTooLarge, UNCHANGED readerVars
    PROVE  IInv'
<1>1. PICK log : Logged(log)
  BY DEF IInv
<1>2. Logged(log)'
  BY <1>1, QuietLog DEF Discard, RefuseTooLarge
<1>3. queue \in Seq([id : 1..MSGS, size : SIZES]) /\ queue # <<>> /\ queue' = Tail(queue)
  BY DEF Discard, RefuseTooLarge, IInv, TypeOK
<1>4. queue' \in Seq([id : 1..MSGS, size : SIZES])
  BY <1>3, HeadTailProperties
<1>5. TypeOK'
  BY <1>4 DEF Discard, RefuseTooLarge, readerVars, IInv, TypeOK
<1>. QED  BY <1>2, <1>5 DEF IInv

\* The entry of a frame that the mapper begins.
Begins(log) == [msg |-> Head(queue), at |-> Place(log, Len(log) + 1),
                enc |-> encoding, seed |-> d_scrambler]

\* A new frame goes behind the others in the log.
LEMMA LogBegins ==
    ASSUME TypeOK, NEW log, Logged(log), NEW room \in Nat \ {0}, StartFrame(room),
           NEW log2, log2 = Append(log, Begins(log))
    PROVE  /\ Head(queue) \in Messages
           /\ queue # <<>>
           /\ Size(Begins(log)) = NSym(encoding, Head(queue).size)
           /\ NSym(encoding, Head(queue).size) \in 1..MAX_SYM
           /\ Len(stream) = Place(log, Len(log) + 1)
           /\ Layout(log2)
           /\ Len(log2) = Len(log) + 1
           /\ log2[Len(log2)] = Begins(log)
           /\ \A i \in 1..Len(log) : log2[i] = log[i]
           /\ \A i \in 1..(Len(log) + 1) : Place(log2, i) = Place(log, i)
<1>. PICK e : e = Begins(log)
  OBVIOUS
<1>1. queue # <<>> /\ queue \in Seq(Messages)
  BY DEF StartFrame, TypeOK, Messages
<1>2. Head(queue) \in Messages
  BY <1>1, HeadTailProperties
<1>3. /\ Head(queue).size \in Nat /\ Head(queue).size > 0
      /\ NSym(encoding, Head(queue).size) <= MAX_SYM
      /\ encoding \in Encodings
  BY <1>2 DEF StartFrame, Fits, TypeOK, Messages
<1>4. NSym(encoding, Head(queue).size) \in 1..MAX_SYM
  <2>1. PICK size \in Nat : size = Head(queue).size
    BY <1>3
  <2>2. NSym(encoding, size) \in Nat /\ NSym(encoding, size) > 0
    BY <1>3, <2>1, SymbolsTaken
  <2>. QED  BY <1>3, <2>1, <2>2
<1>5. Size(e) = NSym(encoding, Head(queue).size)
  BY DEF Begins, Size
<1>6. Layout(log) /\ Len(log) \in Nat
  BY Places DEF Logged
<1>7. e \in Entries
  <2>1. Len(log) + 1 \in 1..(Len(log) + 1)
    BY <1>6
  <2>2. Place(log, Len(log) + 1) \in Nat
    BY <1>6, <2>1, Places
  <2>. QED  BY <1>2, <2>2 DEF Begins, Entries, TypeOK
<1>8. e.at = Place(log, Len(log) + 1) /\ e.msg.size > 0
  BY <1>3 DEF Begins
<1>9. Len(stream) = Place(log, Len(log) + 1)
  BY DEF Logged, Writing, StartFrame
<1>10. log2 = Append(log, e)
  OBVIOUS
<1>11. /\ Layout(log2)
       /\ Len(log2) = Len(log) + 1
       /\ log2[Len(log2)] = e
       /\ \A i \in 1..Len(log) : log2[i] = log[i]
       /\ \A i \in 1..(Len(log) + 1) : Place(log2, i) = Place(log, i)
  <2>1. Size(e) \in 1..MAX_SYM
    BY <1>4, <1>5
  <2>2. Layout(log2)
    BY <1>6, <1>7, <1>8, <1>10, <2>1, Extended
  <2>3. Len(log2) = Len(log) + 1 /\ log2[Len(log2)] = e
    BY <1>6, <1>7, <1>8, <1>10, <2>1, Extended
  <2>4. \A i \in 1..Len(log) : log2[i] = log[i]
    BY <1>6, <1>7, <1>8, <1>10, <2>1, Extended
  <2>5. ASSUME NEW i \in 1..(Len(log) + 1)
        PROVE  Place(log2, i) = Place(log, i)
    BY ZenonT(60), <1>6, <1>7, <1>10, PlacesKept DEF Layout
  <2>. QED  BY <2>2, <2>3, <2>4, <2>5
<1>. QED  BY <1>1, <1>2, <1>4, <1>5, <1>9, <1>11

\* The mapper begins a frame: it is coded, tagged, and its first piece written.
LEMMA StartStep ==
    ASSUME IInv, NEW room \in Nat \ {0}, StartFrame(room), UNCHANGED readerVars
    PROVE  IInv'
<1>1. PICK log : Logged(log)
  BY DEF IInv
<1>2. PICK log2 : log2 = Append(log, Begins(log))
  OBVIOUS
<1>. DEFINE e == Begins(log)
            m == Head(queue)
            N == Len(log)
<1>3. /\ m \in Messages /\ queue # <<>>
      /\ Size(e) = NSym(encoding, m.size)
      /\ NSym(encoding, m.size) \in 1..MAX_SYM
      /\ Len(stream) = Place(log, N + 1)
      /\ Layout(log2)
      /\ Len(log2) = N + 1
      /\ log2[Len(log2)] = e
      /\ \A i \in 1..N : log2[i] = log[i]
      /\ \A i \in 1..(N + 1) : Place(log2, i) = Place(log, i)
  BY ZenonT(60), <1>1, <1>2, LogBegins DEF IInv
<1>4. N \in Nat /\ Len(stream) \in Nat /\ stream \in Seq(Items)
  BY <1>1, Places DEF Logged, IInv, TypeOK
<1>5. /\ e.msg = m /\ e.at = Len(stream) /\ e.enc = encoding /\ e.seed = d_scrambler
      /\ FrameOf(e) = Coded(m, encoding, d_scrambler)
      /\ TagOf(e) = [at |-> Len(stream), packet_len |-> NSym(encoding, m.size),
                     psdu_len |-> m.size, encoding |-> encoding]
  BY <1>3 DEF Begins, FrameOf, TagOf
<1>. HIDE DEF e, m, N
<1>6. /\ taken' = Append(taken, m)
      /\ streamTags' = streamTags \cup {TagOf(e)}
      /\ queue' = Tail(queue)
      /\ d_scrambler' = NextSeed
      /\ Output(FrameOf(e), 0, room)
      /\ UNCHANGED <<posted, encoding>>
  BY <1>5 DEF StartFrame, Tag, m
<1>7. taken \in Seq(Messages)
  BY DEF IInv, TypeOK, Messages
<1>8. /\ taken' \in Seq(Messages) /\ Len(taken') = Len(taken) + 1
      /\ \A i \in 1..Len(taken) : taken'[i] = taken[i]
      /\ taken'[Len(taken) + 1] = m
  BY <1>3, <1>6, <1>7, AppendProperties
<1>9. Begun(log2)'
  <2>1. Len(taken) = N /\ (\A i \in 1..N : taken[i] = log[i].msg)
        /\ streamTags = {TagOf(log[i]) : i \in 1..N}
    BY <1>1 DEF Logged, Begun, N
  <2>2. Len(taken') = Len(log2)
    BY <1>3, <1>8, <2>1
  <2>3. ASSUME NEW i \in 1..Len(log2) PROVE taken'[i] = log2[i].msg
    <3>1. CASE i \in 1..N
      BY <1>3, <1>8, <2>1, <3>1
    <3>2. CASE i = N + 1
      BY <1>3, <1>5, <1>8, <2>1, <3>2
    <3>. QED  BY <1>3, <1>4, <3>1, <3>2
  <2>4. streamTags' = {TagOf(log2[i]) : i \in 1..Len(log2)}
    <3>1. 1..Len(log2) = (1..N) \cup {N + 1}
      BY <1>3, <1>4
    <3>2. {TagOf(log2[i]) : i \in 1..Len(log2)}
            = {TagOf(log2[i]) : i \in 1..N} \cup {TagOf(log2[N + 1])}
      BY <3>1
    <3>3. {TagOf(log2[i]) : i \in 1..N} = {TagOf(log[i]) : i \in 1..N}
      BY <1>3
    <3>. QED  BY <1>3, <1>6, <2>1, <3>2, <3>3
  <2>. QED  BY <2>2, <2>3, <2>4 DEF Begun
<1>10. Written(log2)
  <2>. SUFFICES ASSUME NEW i \in 1..Len(log2), NEW k \in 1..Size(log2[i]),
                       log2[i].at + k <= Len(stream)
                PROVE  stream[log2[i].at + k] = FrameOf(log2[i])[k]
    BY DEF Written
  <2>1. CASE i \in 1..N
    BY ZenonT(60), <1>1, <1>3, <2>1 DEF Logged, Written, N
  <2>2. CASE i = N + 1
    <3>1. log2[i].at = Len(stream) /\ Size(log2[i]) \in Nat /\ k >= 1 /\ k \in Nat
      BY <1>3, <1>5, <2>2
    <3>. QED  BY <1>4, <3>1
  <2>. QED  BY <1>3, <1>4, <2>1, <2>2
<1>11. /\ stream' \in Seq(Items)
       /\ Len(stream') \in Nat /\ Len(stream) <= Len(stream')
       /\ d_symbols' \in Seq(Items)
       /\ d_symbols_offset' \in 0..(MAX_SYM - 1)
       /\ Writing(log2)'
       /\ Written(log2)'
  <2>1. Len(log2) > 0 /\ Len(log2) \in 1..Len(log2)
    BY <1>3, <1>4
  <2>2. Len(FrameOf(e)) > 0
    <3>1. log2[Len(log2)] \in Entries /\ Size(log2[Len(log2)]) \in 1..MAX_SYM
      BY <1>3, <2>1, Places
    <3>. QED  BY <1>3, <3>1, FrameType
  <2>3. Len(stream) = log2[Len(log2)].at + 0 /\ FrameOf(e) = FrameOf(log2[Len(log2)])
    BY <1>3, <1>4, <1>5
  <2>. QED  BY <1>3, <1>4, <1>6, <1>10, <2>1, <2>2, <2>3, OutputWrites
<1>12. Mapped(log2)' /\ Formatted(log2)' /\ Failing(log2)'
  <2>1. Len(air) \in Nat /\ Len(payloads) \in Nat /\ Len(headers) \in Nat
    BY DEF IInv, TypeOK
  <2>2. /\ Len(air) + Len(payloads) <= N /\ Len(air) + Len(headers) <= N
        /\ \A j \in 1..Len(payloads) : log2[Len(air) + j] = log[Len(air) + j]
        /\ \A j \in 1..Len(headers) : log2[Len(air) + j] = log[Len(air) + j]
    <3>1. Len(air) + Len(payloads) <= N /\ Len(air) + Len(headers) <= N
      BY <1>1 DEF Logged, Mapped, Formatted, N
    <3>. QED  BY SMTT(40), <1>3, <1>4, <2>1, <3>1
  <2>3. Mapped(log2)'
    <3>1. Place(log2, Len(air) + Len(payloads) + 1) = Place(log, Len(air) + Len(payloads) + 1)
      BY <1>3, <1>4, <2>1, <2>2
    <3>2. Len(air) + Len(payloads) <= Len(log2)
      BY <1>3, <1>4, <2>1, <2>2
    <3>. QED  BY <1>1, <2>2, <3>1, <3>2 DEF Logged, Mapped, readerVars
  <2>4. Formatted(log2)'
    <3>1. Place(log2, Len(air) + Len(headers) + 1) = Place(log, Len(air) + Len(headers) + 1)
      BY <1>3, <1>4, <2>1, <2>2
    <3>2. Len(air) + Len(headers) <= Len(log2)
      BY <1>3, <1>4, <2>1, <2>2
    <3>. QED  BY <1>1, <2>2, <3>1, <3>2 DEF Logged, Formatted, readerVars
  <2>5. Failing(log2)'
    <3>. SUFFICES ASSUME failed
                  PROVE  /\ Len(air) + Len(payloads) + 1 <= Len(log2)
                         /\ log2[Len(air) + Len(payloads) + 1].enc \in UNMAPPED
      BY DEF Failing, readerVars
    <3>1. /\ Len(air) + Len(payloads) + 1 <= N
          /\ log[Len(air) + Len(payloads) + 1].enc \in UNMAPPED
      BY <1>1 DEF Logged, Failing, N
    <3>2. Len(air) + Len(payloads) + 1 \in 1..N
      BY <1>4, <2>1, <3>1
    <3>. QED  BY <1>3, <1>4, <3>1, <3>2
  <2>. QED  BY <2>3, <2>4, <2>5
<1>13. TypeOK'
  <2>1. queue' \in Seq([id : 1..MSGS, size : SIZES])
    BY <1>3, <1>6, HeadTailProperties DEF IInv, TypeOK
  <2>2. d_scrambler' \in 1..MAX_SEED
    BY <1>6 DEF NextSeed, IInv, TypeOK
  <2>3. TagOf(e) \in [at : Nat, packet_len : 1..MAX_SYM, psdu_len : SIZES, encoding : Encodings]
    BY <1>3, <1>4, <1>5 DEF Messages, IInv, TypeOK
  <2>4. streamTags' \subseteq [at : Nat, packet_len : 1..MAX_SYM, psdu_len : SIZES,
                               encoding : Encodings]
    BY <1>6, <2>3 DEF IInv, TypeOK
  <2>5. symRead' \in 0..Len(stream') /\ hdrRead' \in 0..Len(stream')
    BY <1>4, <1>11 DEF IInv, TypeOK, readerVars
  <2>6. taken' \in Seq([id : 1..MSGS, size : SIZES])
    BY <1>8 DEF Messages
  <2>. QED  BY <1>6, <1>11, <2>1, <2>2, <2>4, <2>5, <2>6 DEF IInv, TypeOK, readerVars
<1>14. Layout(log2)'
  BY <1>3 DEF Layout
<1>15. Logged(log2)'
  BY <1>9, <1>11, <1>12, <1>14 DEF Logged
<1>. QED  BY <1>13, <1>15 DEF IInv

\* The mapper writes the next piece of the frame in progress.
LEMMA ContinueStep ==
    ASSUME IInv, NEW room \in Nat \ {0}, ContinueFrame(room), UNCHANGED readerVars
    PROVE  IInv'
<1>1. PICK log : Logged(log)
  BY DEF IInv
<1>. DEFINE e == log[Len(log)]
<1>2. /\ Layout(log) /\ Written(log) /\ stream \in Seq(Items)
      /\ Len(stream) \in Nat
      /\ Len(log) > 0
      /\ d_symbols = FrameOf(e)
      /\ d_symbols_offset \in Nat /\ d_symbols_offset < Size(e)
      /\ Len(stream) = e.at + d_symbols_offset
      /\ Output(d_symbols, d_symbols_offset, room)
  BY <1>1 DEF Logged, Writing, ContinueFrame, IInv, TypeOK
<1>3. Len(FrameOf(e)) = Size(e)
  <2>1. Len(log) \in 1..Len(log)
    BY <1>2, Places
  <2>. QED  BY <1>2, <2>1, Places, FrameType
<1>4. /\ stream' \in Seq(Items)
      /\ Len(stream') \in Nat /\ Len(stream) <= Len(stream')
      /\ d_symbols' \in Seq(Items)
      /\ d_symbols_offset' \in 0..(MAX_SYM - 1)
      /\ Writing(log)'
      /\ Written(log)'
  <2>. HIDE DEF e
  <2>1. PICK f, offset : f = FrameOf(e) /\ offset = d_symbols_offset
    OBVIOUS
  <2>2. /\ offset \in Nat /\ offset < Len(f)
        /\ Output(f, offset, room)
    BY <1>2, <1>3, <2>1
  <2>3. Len(stream) = log[Len(log)].at + offset /\ f = FrameOf(log[Len(log)])
    BY <1>2, <2>1 DEF e
  <2>. QED  BY <1>2, <2>2, <2>3, OutputWrites
<1>5. Begun(log)' /\ Mapped(log)' /\ Formatted(log)' /\ Failing(log)' /\ Layout(log)'
  BY <1>1 DEF Logged, Layout, Begun, Mapped, Formatted, Failing, ContinueFrame, readerVars
<1>6. TypeOK'
  <2>1. symRead' \in 0..Len(stream') /\ hdrRead' \in 0..Len(stream')
    <3>1. symRead' \in 0..Len(stream) /\ hdrRead' \in 0..Len(stream)
      BY DEF IInv, TypeOK, readerVars
    <3>. HIDE DEF e
    <3>. QED  BY <1>2, <1>4, <3>1
  <2>. QED  BY <1>4, <2>1 DEF ContinueFrame, IInv, TypeOK, readerVars
<1>. QED  BY <1>4, <1>5, <1>6 DEF IInv, Logged

\* chunks_to_symbols stands in front of the next frame it has not mapped, and a
\* packet it finds is that frame.
LEMMA SymbolsNext ==
    ASSUME TypeOK, NEW log, Logged(log), NEW n \in 1..MAX_SYM, Packet(symRead, n),
           NEW s, s = Len(air) + Len(payloads) + 1
    PROVE  /\ s \in 1..Len(log) /\ Len(log) \in Nat
           /\ log[s] \in Entries
           /\ TagsIn(symRead, n) = {TagOf(log[s])}
           /\ EncodingsIn(symRead, n) = {log[s].enc}
           /\ symRead + n = Place(log, s + 1)
           /\ symRead + n \in 0..Len(stream)
           /\ SubSeq(stream, symRead + 1, symRead + n) = FrameOf(log[s])
<1>1. /\ Layout(log) /\ Begun(log) /\ Written(log)
      /\ Len(air) \in Nat /\ Len(payloads) \in Nat /\ Len(log) \in Nat
      /\ stream \in Seq(Items) /\ symRead \in Nat /\ Len(stream) \in Nat
  BY SMTT(40), Places DEF Logged, TypeOK
<1>2. s \in 1..(Len(log) + 1) /\ symRead = Place(log, s)
  BY <1>1 DEF Logged, Mapped
<1>3. /\ s \in 1..Len(log) /\ TagsIn(symRead, n) = {TagOf(log[s])}
      /\ symRead + n = Place(log, s + 1)
  BY <1>1, <1>2, PacketFound
<1>4. EncodingsIn(symRead, n) = {log[s].enc}
  BY <1>3 DEF EncodingsIn, TagOf
<1>5. symRead + n \in 0..Len(stream)
  BY <1>1 DEF Packet
<1>6. SubSeq(stream, symRead + 1, symRead + n) = FrameOf(log[s])
  <2>1. Place(log, s + 1) <= Len(stream)
    BY <1>3, <1>5
  <2>2. SubSeq(stream, Place(log, s) + 1, Place(log, s + 1)) = FrameOf(log[s])
    BY <1>1, <1>3, <2>1, PacketData
  <2>. QED  BY <1>2, <1>3, <2>2
<1>7. log[s] \in Entries
  BY <1>1, <1>3, Places
<1>. QED  BY <1>1, <1>3, <1>4, <1>5, <1>6, <1>7

\* chunks_to_symbols maps the frame with its own encoding.
LEMMA MapStep ==
    ASSUME IInv, NEW n \in 1..MAX_SYM, MapChunks(n)
    PROVE  IInv'
<1>1. PICK log : Logged(log)
  BY DEF IInv
<1>2. PICK s : s = Len(air) + Len(payloads) + 1
  OBVIOUS
<1>3. /\ s \in 1..Len(log) /\ Len(log) \in Nat
      /\ log[s] \in Entries
      /\ EncodingsIn(symRead, n) = {log[s].enc}
      /\ symRead + n = Place(log, s + 1)
      /\ symRead + n \in 0..Len(stream)
      /\ SubSeq(stream, symRead + 1, symRead + n) = FrameOf(log[s])
  BY <1>1, <1>2, SymbolsNext DEF IInv, MapChunks
<1>4. /\ payloads' = Append(payloads, [mapped |-> log[s].enc, data |-> FrameOf(log[s])])
      /\ symRead' = symRead + n
      /\ ~failed
      /\ UNCHANGED <<mapperVars, hdrRead, failed, headers, air>>
  BY <1>3 DEF MapChunks
<1>. DEFINE P == [mapped : Encodings, data : Seq(Items)]
<1>5. [mapped |-> log[s].enc, data |-> FrameOf(log[s])] \in P
  <2>1. Size(log[s]) \in 1..MAX_SYM
    BY <1>1, <1>3, Places DEF Logged
  <2>2. FrameOf(log[s]) \in Seq(Items)
    BY <1>3, <2>1, FrameType
  <2>. QED  BY <1>3, <2>2 DEF Entries
<1>6. payloads \in Seq(P) /\ Len(payloads) \in Nat /\ Len(air) \in Nat
  BY DEF IInv, TypeOK
<1>. HIDE DEF P
<1>7. /\ payloads' \in Seq(P) /\ Len(payloads') = Len(payloads) + 1
      /\ \A j \in 1..Len(payloads) : payloads'[j] = payloads[j]
      /\ payloads'[Len(payloads) + 1] = [mapped |-> log[s].enc, data |-> FrameOf(log[s])]
  BY <1>4, <1>5, <1>6, AppendProperties
<1>8. Mapped(log)'
  <2>1. Len(air') + Len(payloads') <= Len(log)
    BY <1>2, <1>3, <1>4, <1>6, <1>7
  <2>2. Len(air') + Len(payloads') + 1 = s + 1
    BY <1>2, <1>4, <1>6, <1>7
  <2>3. symRead' = Place(log, Len(air') + Len(payloads') + 1)
    BY <1>3, <1>4, <2>2
  <2>4. ASSUME NEW j \in 1..Len(payloads')
        PROVE  payloads'[j] = [mapped |-> log[Len(air') + j].enc,
                               data   |-> FrameOf(log[Len(air') + j])]
    <3>1. CASE j \in 1..Len(payloads)
      BY <1>1, <1>4, <1>7, <3>1 DEF Logged, Mapped
    <3>2. CASE j = Len(payloads) + 1
      <4>1. Len(air') + j = s
        BY <1>2, <1>4, <1>6, <3>2
      <4>. QED  BY <1>7, <3>2, <4>1
    <3>. QED  BY <1>6, <1>7, <3>1, <3>2
  <2>. QED  BY <2>1, <2>3, <2>4 DEF Mapped
<1>9. /\ Layout(log)' /\ Begun(log)' /\ Writing(log)' /\ Written(log)'
      /\ Formatted(log)' /\ Failing(log)'
  BY <1>1, <1>4 DEF Logged, Layout, Begun, Writing, Written, Formatted, Failing, mapperVars
<1>10. TypeOK'
  BY <1>3, <1>4, <1>7 DEF IInv, TypeOK, mapperVars, P
<1>. QED  BY <1>8, <1>9, <1>10 DEF IInv, Logged

\* chunks_to_symbols fails: there was one tag, so its encoding is not listed.
LEMMA ThrowStep ==
    ASSUME IInv, NEW n \in 1..MAX_SYM, ThrowInChunks(n)
    PROVE  IInv'
<1>1. PICK log : Logged(log)
  BY DEF IInv
<1>2. PICK s : s = Len(air) + Len(payloads) + 1
  OBVIOUS
<1>3. /\ s \in 1..Len(log)
      /\ TagsIn(symRead, n) = {TagOf(log[s])}
      /\ EncodingsIn(symRead, n) = {log[s].enc}
  BY <1>1, <1>2, SymbolsNext DEF IInv, ThrowInChunks
<1>4. Cardinality(TagsIn(symRead, n)) = 1
  BY <1>3, FS_Singleton
<1>5. log[s].enc \in UNMAPPED
  BY <1>3, <1>4 DEF ThrowInChunks, Mappable
<1>6. failed' /\ UNCHANGED <<mapperVars, symRead, hdrRead, payloads, headers, air>>
  BY DEF ThrowInChunks
<1>7. Failing(log)'
  BY <1>2, <1>3, <1>5, <1>6 DEF Failing
<1>8. /\ Layout(log)' /\ Begun(log)' /\ Writing(log)' /\ Written(log)'
      /\ Mapped(log)' /\ Formatted(log)'
  BY <1>1, <1>6 DEF Logged, Layout, Begun, Writing, Written, Mapped, Formatted, mapperVars
<1>9. TypeOK'
  BY <1>6 DEF ThrowInChunks, IInv, TypeOK, mapperVars
<1>. QED  BY <1>7, <1>8, <1>9 DEF IInv, Logged

\* The header generator announces the next frame with its own size and encoding.
LEMMA FormatStep ==
    ASSUME IInv, NEW n \in 1..MAX_SYM, FormatHeader(n)
    PROVE  IInv'
<1>1. PICK log : Logged(log)
  BY DEF IInv
<1>2. PICK s : s = Len(air) + Len(headers) + 1
  OBVIOUS
<1>3. /\ Layout(log) /\ Begun(log)
      /\ Len(air) \in Nat /\ Len(headers) \in Nat /\ Len(log) \in Nat
      /\ hdrRead \in Nat /\ Len(stream) \in Nat
  BY SMTT(40), <1>1, Places DEF Logged, IInv, TypeOK
<1>4. s \in 1..(Len(log) + 1) /\ hdrRead = Place(log, s)
  BY <1>1, <1>2, <1>3 DEF Logged, Formatted
<1>5. Packet(hdrRead, n) /\ hdrRead + n \in 0..Len(stream)
  BY <1>3 DEF FormatHeader, Packet
<1>6. /\ s \in 1..Len(log) /\ TagsIn(hdrRead, n) = {TagOf(log[s])}
      /\ hdrRead + n = Place(log, s + 1)
  BY <1>3, <1>4, <1>5, PacketFound
<1>7. /\ headers' = Append(headers, [size |-> log[s].msg.size, mcs |-> log[s].enc])
      /\ hdrRead' = hdrRead + n
      /\ UNCHANGED <<mapperVars, symRead, failed, payloads, air>>
  BY <1>6 DEF FormatHeader, TagOf
<1>. DEFINE H == [size : SIZES, mcs : Encodings]
<1>8. [size |-> log[s].msg.size, mcs |-> log[s].enc] \in H
  <2>1. log[s] \in Entries
    BY <1>3, <1>6, Places
  <2>. QED  BY <2>1 DEF Entries, Messages
<1>9. headers \in Seq(H)
  BY DEF IInv, TypeOK
<1>. HIDE DEF H
<1>10. /\ headers' \in Seq(H) /\ Len(headers') = Len(headers) + 1
       /\ \A j \in 1..Len(headers) : headers'[j] = headers[j]
       /\ headers'[Len(headers) + 1] = [size |-> log[s].msg.size, mcs |-> log[s].enc]
  BY <1>7, <1>8, <1>9, AppendProperties
<1>11. Formatted(log)'
  <2>1. Len(air') + Len(headers') <= Len(log)
    BY <1>2, <1>3, <1>6, <1>7, <1>10
  <2>2. Len(air') + Len(headers') + 1 = s + 1
    BY <1>2, <1>3, <1>7, <1>10
  <2>3. hdrRead' = Place(log, Len(air') + Len(headers') + 1)
    BY <1>6, <1>7, <2>2
  <2>4. ASSUME NEW j \in 1..Len(headers')
        PROVE  headers'[j] = [size |-> log[Len(air') + j].msg.size,
                              mcs  |-> log[Len(air') + j].enc]
    <3>1. CASE j \in 1..Len(headers)
      BY <1>1, <1>7, <1>10, <3>1 DEF Logged, Formatted
    <3>2. CASE j = Len(headers) + 1
      <4>1. Len(air') + j = s
        BY <1>2, <1>3, <1>7, <3>2
      <4>. QED  BY <1>10, <3>2, <4>1
    <3>. QED  BY <1>3, <1>10, <3>1, <3>2
  <2>. QED  BY <2>1, <2>3, <2>4 DEF Formatted
<1>12. /\ Layout(log)' /\ Begun(log)' /\ Writing(log)' /\ Written(log)'
       /\ Mapped(log)' /\ Failing(log)'
  BY <1>1, <1>7 DEF Logged, Layout, Begun, Writing, Written, Mapped, Failing, mapperVars
<1>13. TypeOK'
  BY <1>5, <1>7, <1>10 DEF IInv, TypeOK, mapperVars, H
<1>. QED  BY <1>11, <1>12, <1>13 DEF IInv, Logged

\* The mux joins the header and the payload of one and the same frame.
LEMMA MuxJoins ==
    ASSUME TypeOK, NEW log, Logged(log), Mux, NEW a, a = Len(air) + 1
    PROVE  /\ a \in 1..Len(log) /\ Len(log) \in Nat
           /\ log[a] \in Entries /\ Size(log[a]) \in 1..MAX_SYM
           /\ Len(air) \in Nat
           /\ air' = Append(air, [size   |-> log[a].msg.size,
                                  mcs    |-> log[a].enc,
                                  mapped |-> log[a].enc,
                                  data   |-> FrameOf(log[a])])
<1>1. /\ Len(air) \in Nat /\ Len(log) \in Nat
      /\ Len(payloads) \in Nat \ {0} /\ Len(headers) \in Nat \ {0}
      /\ Len(air) + Len(payloads) <= Len(log)
      /\ Head(payloads) = payloads[1] /\ Head(headers) = headers[1]
  BY Places, EmptySeq DEF Logged, Mapped, TypeOK, Mux
<1>2. a \in 1..Len(log)
  BY <1>1
<1>3. /\ payloads[1] = [mapped |-> log[a].enc, data |-> FrameOf(log[a])]
      /\ headers[1] = [size |-> log[a].msg.size, mcs |-> log[a].enc]
  <2>1. 1 \in 1..Len(payloads) /\ 1 \in 1..Len(headers)
    BY <1>1
  <2>. QED  BY <2>1 DEF Logged, Mapped, Formatted
<1>4. log[a] \in Entries /\ Size(log[a]) \in 1..MAX_SYM
  BY <1>2, Places DEF Logged
<1>. QED  BY SMTT(40), <1>1, <1>2, <1>3, <1>4 DEF Mux

\* The mux sends a frame.
LEMMA MuxStep ==
    ASSUME IInv, Mux
    PROVE  IInv'
<1>1. PICK log : Logged(log)
  BY DEF IInv
<1>2. PICK a : a = Len(air) + 1
  OBVIOUS
<1>. DEFINE A == [size : SIZES, mcs : Encodings, mapped : Encodings, data : Seq(Items)]
            P == [mapped : Encodings, data : Seq(Items)]
            H == [size : SIZES, mcs : Encodings]
            f == [size   |-> log[a].msg.size, mcs  |-> log[a].enc,
                  mapped |-> log[a].enc,      data |-> FrameOf(log[a])]
<1>3. /\ a \in 1..Len(log) /\ Len(log) \in Nat /\ Len(air) \in Nat
      /\ log[a] \in Entries /\ Size(log[a]) \in 1..MAX_SYM
      /\ air' = Append(air, f)
  BY <1>1, <1>2, MuxJoins DEF IInv
<1>4. f \in A
  BY <1>3, FrameType DEF Entries, Messages
<1>5. air \in Seq(A) /\ payloads \in Seq(P) /\ headers \in Seq(H)
  BY DEF IInv, TypeOK
<1>6. /\ payloads # <<>> /\ headers # <<>>
      /\ payloads' = Tail(payloads) /\ headers' = Tail(headers)
      /\ UNCHANGED <<mapperVars, symRead, hdrRead, failed>>
  BY DEF Mux
<1>. HIDE DEF A, P, H, f
<1>7. air' \in Seq(A) /\ Len(air') = Len(air) + 1
  BY <1>3, <1>4, <1>5, AppendProperties
<1>8. /\ payloads' \in Seq(P) /\ Len(payloads') = Len(payloads) - 1
      /\ Len(payloads) \in Nat \ {0}
      /\ \A j \in 1..Len(payloads') : payloads'[j] = payloads[j + 1]
  BY <1>5, <1>6, HeadTailProperties, EmptySeq
<1>9. /\ headers' \in Seq(H) /\ Len(headers') = Len(headers) - 1
      /\ Len(headers) \in Nat \ {0}
      /\ \A j \in 1..Len(headers') : headers'[j] = headers[j + 1]
  BY <1>5, <1>6, HeadTailProperties, EmptySeq
<1>10. Mapped(log)'
  <2>1. Len(air') + Len(payloads') = Len(air) + Len(payloads)
    BY <1>3, <1>7, <1>8
  <2>2. ASSUME NEW j \in 1..Len(payloads')
        PROVE  payloads'[j] = [mapped |-> log[Len(air') + j].enc,
                               data   |-> FrameOf(log[Len(air') + j])]
    <3>1. j + 1 \in 1..Len(payloads) /\ Len(air) + (j + 1) = Len(air') + j
      BY <1>3, <1>7, <1>8
    <3>2. payloads[j + 1] = [mapped |-> log[Len(air) + (j + 1)].enc,
                             data   |-> FrameOf(log[Len(air) + (j + 1)])]
      BY <1>1, <3>1 DEF Logged, Mapped
    <3>. QED  BY <1>8, <3>1, <3>2
  <2>. QED  BY <1>1, <1>6, <2>1, <2>2 DEF Logged, Mapped
<1>11. Formatted(log)'
  <2>1. Len(air') + Len(headers') = Len(air) + Len(headers)
    BY <1>3, <1>7, <1>9
  <2>2. ASSUME NEW j \in 1..Len(headers')
        PROVE  headers'[j] = [size |-> log[Len(air') + j].msg.size,
                              mcs  |-> log[Len(air') + j].enc]
    <3>1. j + 1 \in 1..Len(headers) /\ Len(air) + (j + 1) = Len(air') + j
      BY <1>3, <1>7, <1>9
    <3>2. headers[j + 1] = [size |-> log[Len(air) + (j + 1)].msg.size,
                            mcs  |-> log[Len(air) + (j + 1)].enc]
      BY <1>1, <3>1 DEF Logged, Formatted
    <3>. QED  BY <1>9, <3>1, <3>2
  <2>. QED  BY <1>1, <1>6, <2>1, <2>2 DEF Logged, Formatted
<1>12. Failing(log)'
  <2>1. Len(air') + Len(payloads') = Len(air) + Len(payloads)
    BY <1>3, <1>7, <1>8
  <2>. QED  BY <1>1, <1>6, <2>1 DEF Logged, Failing
<1>13. Layout(log)' /\ Begun(log)' /\ Writing(log)' /\ Written(log)'
  BY <1>1, <1>6 DEF Logged, Layout, Begun, Writing, Written, mapperVars
<1>14. TypeOK'
  BY <1>6, <1>7, <1>8, <1>9 DEF IInv, TypeOK, mapperVars, A, P, H
<1>. QED  BY <1>10, <1>11, <1>12, <1>13, <1>14 DEF IInv, Logged

\* Room in the stream buffer is a number.
LEMMA FreeType ==
    ASSUME TypeOK, NEW room \in 1..Free
    PROVE  room \in Nat \ {0}
<1>1. symRead \in Nat /\ hdrRead \in Nat /\ Len(stream) \in Nat
  BY DEF TypeOK
<1>2. Free \in Int
  BY <1>1 DEF Free
<1>. QED  BY <1>2

\* Nothing is begun at first.
LEMMA InitIInv ==
    ASSUME Init
    PROVE  IInv
<1>. USE DEF Init, MapperInit
<1>1. TypeOK
  <2>1. /\ posted \in 0..MSGS /\ d_symbols_offset \in 0..(MAX_SYM - 1)
        /\ d_scrambler \in 1..MAX_SEED
    OBVIOUS
  <2>2. symRead \in 0..Len(stream) /\ hdrRead \in 0..Len(stream)
    OBVIOUS
  <2>3. \A S : <<>> \in Seq(S)
    BY EmptySeq
  <2>. QED  BY <2>1, <2>2, <2>3, Zenon DEF TypeOK
<1>2. Logged(<<>>)
  <2>1. Layout(<<>>)
    BY DEF Layout
  <2>2. Place(<<>>, 0 + 1) = 0 /\ Len(<<>>) = 0
    BY DEF Place
  <2>3. Begun(<<>>) /\ Writing(<<>>) /\ Written(<<>>)
    BY <2>2 DEF Begun, Writing, Written
  <2>4. Mapped(<<>>) /\ Formatted(<<>>) /\ Failing(<<>>)
    BY <2>2 DEF Mapped, Formatted, Failing
  <2>. QED  BY <2>1, <2>3, <2>4 DEF Logged
<1>. QED  BY <1>1, <1>2 DEF IInv

\* The invariant is inductive.
LEMMA NextIInv ==
    ASSUME IInv, [Next]_vars
    PROVE  IInv'
<1>1. CASE Clients
  BY <1>1, ClientsStep
<1>2. CASE Map
  <2>1. CASE Discard \/ RefuseTooLarge
    BY <1>2, <2>1, DropStep DEF Map
  <2>2. ASSUME NEW room \in 1..Free, StartFrame(room) \/ ContinueFrame(room)
        PROVE  IInv'
    <3>1. room \in Nat \ {0}
      BY FreeType DEF IInv
    <3>. QED  BY <1>2, <2>2, <3>1, StartStep, ContinueStep DEF Map
  <2>. QED  BY <1>2, <2>1, <2>2 DEF Map, MapperWork
<1>3. CASE ChunksToSymbols
  BY <1>3, MapStep, ThrowStep DEF ChunksToSymbols
<1>4. CASE GenerateHeader
  BY <1>4, FormatStep DEF GenerateHeader
<1>5. CASE Mux
  BY <1>5, MuxStep
<1>6. CASE UNCHANGED vars
  <2>1. PICK log : Logged(log)
    BY DEF IInv
  <2>2. Logged(log)'
    BY <1>6, <2>1, QuietLog DEF vars, mapperVars
  <2>3. TypeOK'
    BY <1>6 DEF vars, mapperVars, readerVars, IInv, TypeOK
  <2>. QED  BY <2>2, <2>3 DEF IInv
<1>. QED  BY <1>1, <1>2, <1>3, <1>4, <1>5, <1>6 DEF Next

\* The stream is made of a log in every state the blocks reach.
THEOREM Invariance == Spec => []IInv
<1>1. Init => IInv
  BY InitIInv
<1>2. IInv /\ [Next]_vars => IInv'
  BY NextIInv
<1>. QED  BY <1>1, <1>2, PTL DEF Spec

-----------------------------------------------------------------------------
(* The refinement: messages on their way are the inbox of TxQueue.         *)

\* w is the n elements of t behind its first a elements, with q behind.
Joins(w, t, a, q, n) ==
    /\ w \in Seq(Messages) /\ t \in Seq(Messages) /\ q \in Seq(Messages)
    /\ a \in Nat /\ n \in Nat /\ Len(q) \in Nat
    /\ Len(t) = a + n /\ Len(w) = n + Len(q)
    /\ \A i \in 1..n : i \in 1..Len(w) /\ w[i] = t[a + i] /\ a + i \in 1..Len(t)
    /\ \A k \in 1..Len(q) : n + k \in 1..Len(w) /\ w[n + k] = q[k]
    /\ \A i \in 1..Len(w) : i \in 1..n \/ \E k \in 1..Len(q) : i = n + k

\* The elements of such a sequence.
LEMMA Joined ==
    ASSUME NEW t \in Seq(Messages), NEW q \in Seq(Messages), NEW a \in 0..Len(t),
           NEW n, n = Len(t) - a,
           NEW w, w = SubSeq(t, a + 1, Len(t)) \o q
    PROVE  Joins(w, t, a, q, n)
<1>1. Len(t) \in Nat /\ Len(q) \in Nat
  BY LenProperties
<1>2. n \in Nat /\ a \in Nat /\ Len(t) = a + n
  BY <1>1
<1>3. PICK u : u = SubSeq(t, a + 1, Len(t))
  OBVIOUS
<1>4. /\ u \in Seq(Messages)
      /\ Len(u) = (IF a + 1 <= Len(t) THEN Len(t) - (a + 1) + 1 ELSE 0)
      /\ \A i \in 1..(Len(t) - (a + 1) + 1) : u[i] = t[a + 1 + i - 1]
  <2>1. \A i \in (a + 1)..Len(t) : t[i] \in Messages
    <3>. SUFFICES ASSUME NEW i \in (a + 1)..Len(t) PROVE t[i] \in Messages
      OBVIOUS
    <3>1. i \in 1..Len(t)
      BY <1>1
    <3>. QED  BY <3>1
  <2>2. a + 1 \in Int /\ Len(t) \in Int
    BY <1>1
  <2>. QED  BY SMTT(40), <1>3, <2>1, <2>2, SubSeqProperties
<1>5. Len(u) = n
  <2>1. PICK l : l = Len(u)
    OBVIOUS
  <2>2. l = (IF a + 1 <= Len(t) THEN Len(t) - (a + 1) + 1 ELSE 0)
    BY <1>4, <2>1
  <2>3. CASE a + 1 <= Len(t)
    BY <1>1, <1>2, <2>1, <2>2, <2>3
  <2>4. CASE ~(a + 1 <= Len(t))
    BY <1>1, <1>2, <2>1, <2>2, <2>4
  <2>. QED  BY <2>3, <2>4
<1>6. ASSUME NEW i \in 1..n PROVE u[i] = t[a + i]
  <2>1. a + 1 + i - 1 = a + i /\ i \in 1..(Len(t) - (a + 1) + 1)
    BY <1>1, <1>2
  <2>. QED  BY <1>4, <2>1
<1>7. w = u \o q
  BY <1>3
<1>8. /\ u \o q \in Seq(Messages) /\ Len(u \o q) = Len(u) + Len(q)
      /\ \A i \in 1..(Len(u) + Len(q)) :
            (u \o q)[i] = IF i <= Len(u) THEN u[i] ELSE q[i - Len(u)]
  BY ZenonT(60), <1>4, ConcatProperties
<1>9. w \in Seq(Messages) /\ Len(w) = n + Len(q)
  BY <1>5, <1>7, <1>8
<1>10. ASSUME NEW i \in 1..n PROVE w[i] = t[a + i]
  <2>1. i \in 1..(Len(u) + Len(q)) /\ i <= Len(u)
    BY <1>1, <1>5
  <2>. QED  BY <1>6, <1>7, <1>8, <2>1
<1>11. ASSUME NEW i \in 1..Len(q) PROVE w[n + i] = q[i]
  <2>1. n + i \in 1..(Len(u) + Len(q)) /\ ~(n + i <= Len(u)) /\ n + i - Len(u) = i
    BY <1>1, <1>5
  <2>2. PICK j \in 1..(Len(u) + Len(q)) : j = n + i
    BY <2>1
  <2>3. j - Len(u) = i /\ ~(j <= Len(u))
    BY <2>1, <2>2
  <2>4. w[j] = q[i]
    BY <1>7, <1>8, <2>3
  <2>. QED  BY <2>2, <2>4
<1>12. ASSUME NEW i \in 1..n PROVE i \in 1..Len(w) /\ a + i \in 1..Len(t)
  BY <1>1, <1>2, <1>9
<1>13. ASSUME NEW k \in 1..Len(q) PROVE n + k \in 1..Len(w)
  BY <1>1, <1>2, <1>9
<1>14. ASSUME NEW i \in 1..Len(w), i \notin 1..n PROVE \E k \in 1..Len(q) : i = n + k
  <2>1. i - n \in 1..Len(q) /\ i = n + (i - n)
    BY <1>1, <1>2, <1>9, <1>14
  <2>. QED  BY <2>1
<1>. QED  BY <1>1, <1>2, <1>9, <1>10, <1>11, <1>12, <1>13, <1>14 DEF Joins

\* What waits are the messages begun and not sent, and then the mapper's queue.
LEMMA WaitingAre ==
    ASSUME IInv
    PROVE  Joins(Waiting, taken, Len(air), queue, Len(taken) - Len(air))
<1>1. PICK log : Logged(log)
  BY DEF IInv
<1>2. /\ taken \in Seq(Messages) /\ queue \in Seq(Messages)
      /\ Len(air) \in Nat /\ Len(payloads) \in Nat
  BY DEF IInv, TypeOK, Messages
<1>3. Len(air) \in 0..Len(taken)
  BY <1>1, <1>2 DEF Logged, Begun, Mapped
<1>. QED  BY <1>2, <1>3, Joined DEF Waiting

\* The same of the next state.
LEMMA WaitingWillBe ==
    ASSUME IInv'
    PROVE  Joins(Waiting', taken', Len(air'), queue', Len(taken') - Len(air'))
<1>1. PICK log : Logged(log)'
  BY DEF IInv
<1>2. /\ taken' \in Seq(Messages) /\ queue' \in Seq(Messages)
      /\ Len(air') \in Nat /\ Len(payloads') \in Nat
  BY DEF IInv, TypeOK, Messages
<1>3. Len(air') \in 0..Len(taken')
  BY <1>1, <1>2 DEF Logged, Begun, Mapped
<1>. QED  BY <1>2, <1>3, Joined DEF Waiting

\* One more element at the end.
LEMMA JoinedBehind ==
    ASSUME NEW w, NEW v, NEW t, NEW a, NEW q, NEW n, NEW m \in Messages,
           Joins(w, t, a, q, n), Joins(v, t, a, Append(q, m), n)
    PROVE  v = Append(w, m)
<1>1. PICK x, r : x = Append(w, m) /\ r = Append(q, m)
  OBVIOUS
<1>2. /\ w \in Seq(Messages) /\ t \in Seq(Messages) /\ q \in Seq(Messages)
      /\ a \in Nat /\ n \in Nat /\ Len(q) \in Nat
      /\ Len(t) = a + n /\ Len(w) = n + Len(q)
      /\ \A i \in 1..n : i \in 1..Len(w) /\ w[i] = t[a + i] /\ a + i \in 1..Len(t)
      /\ \A k \in 1..Len(q) : n + k \in 1..Len(w) /\ w[n + k] = q[k]
      /\ \A i \in 1..Len(w) : i \in 1..n \/ \E k \in 1..Len(q) : i = n + k
  BY DEF Joins
<1>3. /\ v \in Seq(Messages) /\ t \in Seq(Messages) /\ r \in Seq(Messages)
      /\ a \in Nat /\ n \in Nat /\ Len(r) \in Nat
      /\ Len(t) = a + n /\ Len(v) = n + Len(r)
      /\ \A i \in 1..n : i \in 1..Len(v) /\ v[i] = t[a + i] /\ a + i \in 1..Len(t)
      /\ \A k \in 1..Len(r) : n + k \in 1..Len(v) /\ v[n + k] = r[k]
      /\ \A i \in 1..Len(v) : i \in 1..n \/ \E k \in 1..Len(r) : i = n + k
  BY <1>1 DEF Joins
<1>4. /\ x \in Seq(Messages) /\ Len(x) = Len(w) + 1
      /\ \A i \in 1..Len(w) : x[i] = w[i]
      /\ x[Len(w) + 1] = m
  BY <1>1, <1>2, AppendProperties
<1>5. /\ Len(r) = Len(q) + 1
      /\ \A i \in 1..Len(q) : r[i] = q[i]
      /\ r[Len(q) + 1] = m
  BY <1>1, <1>2, AppendProperties
<1>6. Len(v) = Len(x)
  BY <1>2, <1>3, <1>4, <1>5
<1>7. ASSUME NEW i \in 1..Len(v) PROVE v[i] = x[i]
  <2>1. CASE i \in 1..n
    BY <1>2, <1>3, <1>4, <2>1
  <2>2. ASSUME NEW k \in 1..Len(r), i = n + k PROVE v[i] = x[i]
    <3>1. v[i] = r[k]
      BY <1>3, <2>2
    <3>2. CASE k \in 1..Len(q)
      <4>1. i \in 1..Len(w) /\ w[i] = q[k]
        BY <1>2, <2>2, <3>2
      <4>2. x[i] = w[i]
        BY <1>4, <4>1
      <4>3. r[k] = q[k]
        BY <1>5, <3>2
      <4>. QED  BY <3>1, <4>1, <4>2, <4>3
    <3>3. CASE k = Len(q) + 1
      <4>1. i = Len(w) + 1
        BY <1>2, <2>2, <3>3
      <4>2. x[i] = m
        BY <1>4, <4>1, Zenon
      <4>3. r[k] = m
        BY <1>5, <3>3, Zenon
      <4>. QED  BY <3>1, <4>2, <4>3
    <3>4. k = Len(q) + 1 \/ k \in 1..Len(q)
      <4>1. Len(q) \in Nat /\ Len(r) = Len(q) + 1
        BY <1>2, <1>5
      <4>. QED  BY <4>1
    <3>. QED  BY <3>2, <3>3, <3>4
  <2>. QED  BY <1>3, <2>1, <2>2
<1>8. v = x
  BY <1>3, <1>4, <1>6, <1>7, SeqEqual
<1>. QED  BY <1>1, <1>8

\* An element that goes from the second part to the end of the first stays.
LEMMA JoinedBegun ==
    ASSUME NEW w, NEW v, NEW t, NEW a, NEW q, NEW n, q # <<>>,
           Joins(w, t, a, q, n), Joins(v, Append(t, Head(q)), a, Tail(q), n + 1)
    PROVE  v = w
<1>1. PICK s, r : s = Append(t, Head(q)) /\ r = Tail(q)
  OBVIOUS
<1>2. /\ w \in Seq(Messages) /\ t \in Seq(Messages) /\ q \in Seq(Messages)
      /\ a \in Nat /\ n \in Nat /\ Len(q) \in Nat
      /\ Len(t) = a + n /\ Len(w) = n + Len(q)
      /\ \A i \in 1..n : i \in 1..Len(w) /\ w[i] = t[a + i] /\ a + i \in 1..Len(t)
      /\ \A k \in 1..Len(q) : n + k \in 1..Len(w) /\ w[n + k] = q[k]
      /\ \A i \in 1..Len(w) : i \in 1..n \/ \E k \in 1..Len(q) : i = n + k
  BY DEF Joins
<1>3. /\ Len(q) # 0 /\ Len(r) = Len(q) - 1
      /\ \A k \in 1..Len(r) : r[k] = q[k + 1]
      /\ Head(q) = q[1] /\ Head(q) \in Messages
  BY <1>1, <1>2, HeadTailProperties, EmptySeq
<1>4. /\ Len(s) = Len(t) + 1
      /\ \A i \in 1..Len(t) : s[i] = t[i]
      /\ s[Len(t) + 1] = q[1]
  BY SMTT(40), <1>1, <1>2, <1>3, AppendProperties
<1>6. /\ v \in Seq(Messages) /\ s \in Seq(Messages) /\ r \in Seq(Messages)
      /\ a \in Nat /\ n + 1 \in Nat /\ Len(r) \in Nat
      /\ Len(s) = a + (n + 1) /\ Len(v) = n + 1 + Len(r)
      /\ \A i \in 1..(n + 1) : i \in 1..Len(v) /\ v[i] = s[a + i] /\ a + i \in 1..Len(s)
      /\ \A k \in 1..Len(r) : (n + 1) + k \in 1..Len(v) /\ v[(n + 1) + k] = r[k]
      /\ \A i \in 1..Len(v) : i \in 1..(n + 1) \/ \E k \in 1..Len(r) : i = (n + 1) + k
  BY <1>1 DEF Joins
<1>7. Len(v) = Len(w)
  <2>1. /\ Len(v) = n + 1 + Len(r) /\ Len(r) = Len(q) - 1 /\ Len(w) = n + Len(q)
        /\ n \in Nat /\ Len(q) \in Nat
    BY <1>2, <1>3, <1>6
  <2>. QED  BY <2>1
<1>8. ASSUME NEW i \in 1..Len(v) PROVE v[i] = w[i]
  <2>1. CASE i \in 1..n
    <3>1. i \in 1..(n + 1)
      BY <1>2, <2>1
    <3>2. v[i] = s[a + i]
      BY <1>6, <3>1
    <3>3. a + i \in 1..Len(t) /\ w[i] = t[a + i]
      BY <1>2, <2>1
    <3>. QED  BY <1>4, <3>2, <3>3
  <2>2. CASE i = n + 1
    <3>1. a + i = Len(t) + 1 /\ i \in 1..(n + 1) /\ 1 \in 1..Len(q)
      BY <1>2, <1>3, <2>2
    <3>2. v[i] = q[1]
      BY <1>4, <1>6, <3>1
    <3>. QED  BY <1>2, <2>2, <3>1, <3>2
  <2>3. ASSUME NEW k \in 1..Len(r), i = (n + 1) + k PROVE v[i] = w[i]
    <3>1. k + 1 \in 1..Len(q) /\ i = n + (k + 1)
      BY <1>2, <1>3, <2>3
    <3>2. v[i] = q[k + 1]
      BY <1>3, <1>6, <2>3
    <3>. QED  BY <1>2, <3>1, <3>2
  <2>. QED  BY <1>2, <1>6, <2>1, <2>2, <2>3
<1>. QED  BY <1>2, <1>6, <1>7, <1>8, SeqEqual

\* The first element goes.
LEMMA JoinedSent ==
    ASSUME NEW w, NEW v, NEW t, NEW a, NEW q, NEW n, n > 0,
           Joins(w, t, a, q, n), Joins(v, t, a + 1, q, n - 1)
    PROVE  w # <<>> /\ Head(w) = t[a + 1] /\ v = Tail(w)
<1>1. PICK x : x = Tail(w)
  OBVIOUS
<1>2. /\ w \in Seq(Messages) /\ t \in Seq(Messages) /\ q \in Seq(Messages)
      /\ a \in Nat /\ n \in Nat /\ Len(q) \in Nat
      /\ Len(t) = a + n /\ Len(w) = n + Len(q)
      /\ \A i \in 1..n : i \in 1..Len(w) /\ w[i] = t[a + i] /\ a + i \in 1..Len(t)
      /\ \A k \in 1..Len(q) : n + k \in 1..Len(w) /\ w[n + k] = q[k]
      /\ \A i \in 1..Len(w) : i \in 1..n \/ \E k \in 1..Len(q) : i = n + k
  BY DEF Joins
<1>3. Len(w) > 0 /\ 1 \in 1..n
  BY <1>2
<1>4. w # <<>>
  BY <1>3, EmptySeq
<1>5. /\ x \in Seq(Messages) /\ Len(x) = Len(w) - 1
      /\ \A i \in 1..Len(x) : x[i] = w[i + 1]
      /\ Head(w) = w[1]
  BY <1>1, <1>2, <1>4, HeadTailProperties
<1>6. /\ v \in Seq(Messages) /\ t \in Seq(Messages) /\ q \in Seq(Messages)
      /\ a + 1 \in Nat /\ n - 1 \in Nat /\ Len(q) \in Nat
      /\ Len(t) = (a + 1) + (n - 1) /\ Len(v) = n - 1 + Len(q)
      /\ \A i \in 1..(n - 1) : i \in 1..Len(v) /\ v[i] = t[a + 1 + i] /\ a + 1 + i \in 1..Len(t)
      /\ \A k \in 1..Len(q) : (n - 1) + k \in 1..Len(v) /\ v[(n - 1) + k] = q[k]
      /\ \A i \in 1..Len(v) : i \in 1..(n - 1) \/ \E k \in 1..Len(q) : i = (n - 1) + k
  BY DEF Joins
<1>7. Len(v) = Len(x)
  BY <1>2, <1>5, <1>6
<1>8. ASSUME NEW i \in 1..Len(v) PROVE v[i] = x[i]
  <2>1. x[i] = w[i + 1]
    BY <1>5, <1>7
  <2>2. CASE i \in 1..(n - 1)
    <3>1. i + 1 \in 1..n /\ a + 1 + i = a + (i + 1)
      <4>1. n \in Nat /\ a \in Nat
        BY <1>2
      <4>. QED  BY <2>2, <4>1
    <3>. QED  BY <1>2, <1>6, <2>1, <2>2, <3>1
  <2>3. ASSUME NEW k \in 1..Len(q), i = (n - 1) + k PROVE v[i] = x[i]
    <3>1. i + 1 = n + k
      BY SMTT(40), <1>2, <2>3
    <3>. QED  BY ZenonT(60), <1>2, <1>6, <2>1, <2>3, <3>1
  <2>. QED  BY <1>6, <2>2, <2>3
<1>9. v = x
  BY <1>5, <1>6, <1>7, <1>8, SeqEqual
<1>10. Head(w) = t[a + 1]
  BY <1>2, <1>3, <1>5
<1>. QED  BY <1>1, <1>4, <1>9, <1>10

\* The first element of the second part goes.
LEMMA JoinedDropped ==
    ASSUME NEW w, NEW v, NEW t, NEW a, NEW q, NEW n, q # <<>>,
           Joins(w, t, a, q, n), Joins(v, t, a, Tail(q), n),
           NEW d, d = n + 1
    PROVE  /\ d \in 1..Len(w) /\ w[d] = Head(q)
           /\ v = Queue!RemoveAt(w, d)
<1>1. PICK r, x, y : /\ r = Tail(q) /\ x = SubSeq(w, 1, d - 1)
                     /\ y = SubSeq(w, d + 1, Len(w))
  OBVIOUS
<1>2. /\ w \in Seq(Messages) /\ t \in Seq(Messages) /\ q \in Seq(Messages)
      /\ a \in Nat /\ n \in Nat /\ Len(q) \in Nat
      /\ Len(t) = a + n /\ Len(w) = n + Len(q)
      /\ \A i \in 1..n : i \in 1..Len(w) /\ w[i] = t[a + i] /\ a + i \in 1..Len(t)
      /\ \A k \in 1..Len(q) : n + k \in 1..Len(w) /\ w[n + k] = q[k]
      /\ \A i \in 1..Len(w) : i \in 1..n \/ \E k \in 1..Len(q) : i = n + k
  BY DEF Joins
<1>3. /\ Len(q) # 0 /\ Len(r) = Len(q) - 1
      /\ \A k \in 1..Len(r) : r[k] = q[k + 1]
      /\ Head(q) = q[1]
  BY <1>1, <1>2, HeadTailProperties, EmptySeq
<1>4. /\ v \in Seq(Messages) /\ t \in Seq(Messages) /\ r \in Seq(Messages)
      /\ a \in Nat /\ n \in Nat /\ Len(r) \in Nat
      /\ Len(t) = a + n /\ Len(v) = n + Len(r)
      /\ \A i \in 1..n : i \in 1..Len(v) /\ v[i] = t[a + i] /\ a + i \in 1..Len(t)
      /\ \A k \in 1..Len(r) : n + k \in 1..Len(v) /\ v[n + k] = r[k]
      /\ \A i \in 1..Len(v) : i \in 1..n \/ \E k \in 1..Len(r) : i = n + k
  BY <1>1 DEF Joins
<1>5. 1 \in 1..Len(q)
  BY <1>2, <1>3
<1>6. d \in 1..Len(w) /\ w[d] = Head(q)
  BY <1>2, <1>3, <1>5
<1>7. PICK l : l = Len(q) /\ l \in Nat \ {0}
  BY <1>2, <1>3
<1>8. Len(w) = n + l /\ Len(r) = l - 1 /\ Len(v) = n + (l - 1)
  BY <1>2, <1>3, <1>4, <1>7
<1>9. x \in Seq(Messages) /\ Len(x) = n /\ \A i \in 1..n : x[i] = w[i]
  <2>1. \A i \in 1..n : w[i] \in Messages
    BY <1>2
  <2>2. x = SubSeq(w, 1, n) /\ n \in Int /\ 1 \in Int
    BY <1>1, <1>2
  <2>3. /\ x \in Seq(Messages) /\ Len(x) = (IF 1 <= n THEN n - 1 + 1 ELSE 0)
        /\ \A i \in 1..(n - 1 + 1) : x[i] = w[1 + i - 1]
    BY <2>1, <2>2, SubSeqProperties
  <2>4. PICK lx : lx = Len(x)
    OBVIOUS
  <2>5. lx = (IF 1 <= n THEN n - 1 + 1 ELSE 0)
    BY <2>3, <2>4
  <2>6. lx = n
    BY <1>2, <2>5
  <2>7. ASSUME NEW i \in 1..n PROVE x[i] = w[i]
    <3>1. i \in 1..(n - 1 + 1) /\ 1 + i - 1 = i
      BY <1>2
    <3>. QED  BY <2>3, <3>1
  <2>. QED  BY <2>3, <2>4, <2>6, <2>7
<1>10. y \in Seq(Messages) /\ Len(y) = l - 1 /\ \A i \in 1..(l - 1) : y[i] = q[i + 1]
  <2>1. PICK b, c : b = d + 1 /\ c = Len(w)
    OBVIOUS
  <2>2. y = SubSeq(w, b, c) /\ b \in Int /\ c \in Int /\ c = n + l /\ b = n + 2
    BY <1>1, <1>2, <1>7, <1>8, <2>1
  <2>3. \A i \in b..c : w[i] \in Messages
    <3>. SUFFICES ASSUME NEW i \in b..c PROVE w[i] \in Messages
      OBVIOUS
    <3>1. i \in 1..Len(w)
      BY <1>2, <2>1, <2>2
    <3>. QED  BY <1>2, <3>1
  <2>4. /\ y \in Seq(Messages) /\ Len(y) = (IF b <= c THEN c - b + 1 ELSE 0)
        /\ \A i \in 1..(c - b + 1) : y[i] = w[b + i - 1]
    BY <2>2, <2>3, SubSeqProperties
  <2>5. PICK ly : ly = Len(y)
    OBVIOUS
  <2>6. ly = (IF b <= c THEN c - b + 1 ELSE 0)
    BY <2>4, <2>5
  <2>7. n \in Nat /\ l \in Nat \ {0}
    BY <1>2, <1>7
  <2>8. ly = l - 1
    BY <2>2, <2>6, <2>7
  <2>9. ASSUME NEW i \in 1..(l - 1) PROVE y[i] = q[i + 1]
    <3>1. i \in 1..(c - b + 1) /\ b + i - 1 = n + (i + 1) /\ i + 1 \in 1..l
      BY <2>2, <2>7
    <3>2. y[i] = w[n + (i + 1)]
      BY <2>4, <3>1
    <3>. QED  BY <1>2, <1>7, <3>1, <3>2
  <2>. QED  BY <2>4, <2>5, <2>8, <2>9
<1>11. PICK z : z = x \o y
  OBVIOUS
<1>12. /\ z \in Seq(Messages) /\ Len(z) = Len(x) + Len(y)
       /\ \A i \in 1..(Len(x) + Len(y)) : z[i] = IF i <= Len(x) THEN x[i] ELSE y[i - Len(x)]
  <2>1. /\ x \o y \in Seq(Messages) /\ Len(x \o y) = Len(x) + Len(y)
        /\ \A i \in 1..(Len(x) + Len(y)) :
              (x \o y)[i] = IF i <= Len(x) THEN x[i] ELSE y[i - Len(x)]
    BY ZenonT(60), <1>9, <1>10, ConcatProperties
  <2>. QED  BY <1>11, <2>1
<1>13. Len(z) = Len(v)
  BY <1>2, <1>7, <1>8, <1>9, <1>10, <1>12
<1>14. ASSUME NEW i \in 1..Len(v) PROVE v[i] = z[i]
  <2>1. n \in Nat /\ l \in Nat \ {0} /\ Len(x) = n /\ Len(y) = l - 1 /\ Len(v) = n + (l - 1)
    BY <1>2, <1>7, <1>8, <1>9, <1>10
  <2>2. i \in 1..(Len(x) + Len(y))
    BY <2>1
  <2>3. z[i] = IF i <= Len(x) THEN x[i] ELSE y[i - Len(x)]
    BY <1>12, <2>2
  <2>4. CASE i \in 1..n
    <3>1. z[i] = x[i]
      BY <2>1, <2>3, <2>4
    <3>2. x[i] = w[i] /\ v[i] = w[i]
      BY <1>2, <1>4, <1>9, <2>4
    <3>. QED  BY <3>1, <3>2
  <2>5. ASSUME NEW k \in 1..Len(r), i = n + k PROVE v[i] = z[i]
    <3>1. k \in 1..(l - 1) /\ ~(i <= Len(x)) /\ i - Len(x) = k
      BY <1>8, <2>1, <2>5
    <3>2. z[i] = y[k]
      BY <2>3, <3>1
    <3>3. v[i] = r[k]
      BY <1>4, <2>5
    <3>. QED  BY <1>3, <1>10, <2>5, <3>1, <3>2, <3>3
  <2>. QED  BY <1>4, <2>4, <2>5
<1>15. v = z
  BY <1>4, <1>12, <1>13, <1>14, SeqEqual
<1>. QED  BY <1>1, <1>6, <1>11, <1>15 DEF Queue!RemoveAt

\* A posted message goes to the end of what waits.
LEMMA PostRefines ==
    ASSUME IInv, IInv', Post, UNCHANGED readerVars
    PROVE  Queue!Post
<1>1. PICK size \in SIZES : queue' = Append(queue, Message(posted + 1, size))
  BY DEF Post
<1>2. PICK m : m = Message(posted + 1, size)
  OBVIOUS
<1>3. m \in Messages
  BY <1>2 DEF Message, Messages, Post, IInv, TypeOK
<1>4. taken' = taken /\ air' = air
  BY DEF Post, readerVars
<1>5. Joins(Waiting', taken, Len(air), Append(queue, m), Len(taken) - Len(air))
  BY <1>1, <1>2, <1>4, WaitingWillBe
<1>6. Waiting' = Append(Waiting, m)
  BY <1>3, <1>5, WaitingAre, JoinedBehind
<1>. QED  BY <1>2, <1>4, <1>6 DEF Post, Queue!Post, Message, Queue!Message

\* A frame begun still waits, in the place of its message.
LEMMA StartRefines ==
    ASSUME IInv, IInv', NEW room \in Nat \ {0}, StartFrame(room), UNCHANGED readerVars
    PROVE  Waiting' = Waiting
<1>1. /\ queue # <<>> /\ queue' = Tail(queue) /\ taken' = Append(taken, Head(queue))
      /\ air' = air
  BY DEF StartFrame, readerVars
<1>2. PICK n : n = Len(taken) - Len(air)
  OBVIOUS
<1>3. Joins(Waiting, taken, Len(air), queue, n)
  BY <1>2, WaitingAre
<1>4. Len(taken') - Len(air') = n + 1
  <2>1. /\ taken \in Seq(Messages) /\ queue \in Seq(Messages) /\ Len(air) \in Nat
        /\ n \in Nat /\ Len(taken) = Len(air) + n
    BY <1>3 DEF Joins
  <2>2. Head(queue) \in Messages
    BY <1>1, <2>1, HeadTailProperties
  <2>3. Len(taken') = Len(taken) + 1 /\ Len(air') = Len(air)
    BY <1>1, <2>1, <2>2, AppendProperties
  <2>. QED  BY <2>1, <2>3
<1>5. Joins(Waiting', Append(taken, Head(queue)), Len(air), Tail(queue), n + 1)
  BY <1>1, <1>4, WaitingWillBe
<1>. QED  BY <1>1, <1>3, <1>5, JoinedBegun

\* A message the mapper drops is refused, from behind those begun.
LEMMA DropRefines ==
    ASSUME IInv, IInv', Discard \/ RefuseTooLarge, UNCHANGED readerVars
    PROVE  Queue!Refuse
<1>1. /\ queue # <<>> /\ queue' = Tail(queue) /\ UNCHANGED <<taken, air, posted>>
      /\ Head(queue).size = 0 \/ ~Fits(Head(queue), encoding)
  BY DEF Discard, RefuseTooLarge, readerVars
<1>2. PICK n : n = Len(taken) - Len(air)
  OBVIOUS
<1>3. Joins(Waiting, taken, Len(air), queue, n)
  BY <1>2, WaitingAre
<1>4. Joins(Waiting', taken, Len(air), Tail(queue), n)
  BY <1>1, <1>2, WaitingWillBe
<1>5. PICK i : i = n + 1
  OBVIOUS
<1>6. /\ i \in 1..Len(Waiting) /\ Waiting[i] = Head(queue)
      /\ Waiting' = Queue!RemoveAt(Waiting, i)
  BY <1>1, <1>3, <1>4, <1>5, JoinedDropped
<1>7. encoding \in Encodings
  BY DEF IInv, TypeOK
<1>8. Waiting[i].size = 0 \/ \E e \in Encodings : ~Fits(Waiting[i], e)
  BY <1>1, <1>6, <1>7
<1>. QED  BY <1>1, <1>6, <1>8 DEF Queue!Refuse, Queue!Fits, Queue!NSym, Queue!Encodings, Fits, NSym, Encodings

\* A joined frame goes on the air: the first message that waits, with one MCS.
LEMMA MuxRefines ==
    ASSUME IInv, IInv', Mux
    PROVE  Queue!Transmit
<1>1. PICK log : Logged(log)
  BY DEF IInv
<1>2. PICK a : a = Len(air)
  OBVIOUS
<1>3. PICK n : n = Len(taken) - a
  OBVIOUS
<1>4. /\ headers # <<>> /\ payloads # <<>>
      /\ air' = Append(air, [size   |-> Head(headers).size,
                             mcs    |-> Head(headers).mcs,
                             mapped |-> Head(payloads).mapped,
                             data   |-> Head(payloads).data])
      /\ UNCHANGED <<posted, queue, taken>>
  BY DEF Mux, mapperVars
<1>5. /\ a \in Nat /\ Len(payloads) \in Nat /\ Len(headers) \in Nat
      /\ Len(payloads) > 0 /\ Len(headers) > 0
      /\ Head(payloads) = payloads[1] /\ Head(headers) = headers[1]
  <2>1. /\ payloads \in Seq([mapped : Encodings, data : Seq(Items)])
        /\ headers \in Seq([size : SIZES, mcs : Encodings])
        /\ air \in Seq([size : SIZES, mcs : Encodings, mapped : Encodings, data : Seq(Items)])
    BY DEF IInv, TypeOK
  <2>2. a \in Nat /\ Len(payloads) \in Nat /\ Len(headers) \in Nat
    BY <1>2, <2>1, LenProperties
  <2>3. Len(payloads) # 0 /\ Len(headers) # 0
    BY <1>4, <2>1, EmptySeq
  <2>. QED  BY <1>4, <2>1, <2>2, <2>3, HeadTailProperties
<1>6. Len(air') = a + 1
  BY <1>2, <1>4 DEF IInv, TypeOK
<1>7. /\ Len(log) \in Nat /\ a + Len(payloads) <= Len(log) /\ Len(taken) = Len(log)
      /\ \A j \in 1..Len(payloads) :
            payloads[j] = [mapped |-> log[a + j].enc, data |-> FrameOf(log[a + j])]
  BY <1>1, <1>2, Places DEF Logged, Begun, Mapped
<1>8. PICK k \in 1..Len(log) : k = a + 1
  BY <1>5, <1>7
<1>9. PICK e : e = log[k]
  OBVIOUS
<1>10. e \in Entries /\ Size(e) \in 1..MAX_SYM /\ e.msg.size > 0 /\ taken[k] = e.msg
  <2>1. e.msg.size > 0 /\ taken[k] = e.msg
    BY <1>1, <1>9 DEF Logged, Layout, Begun
  <2>2. e \in Entries /\ Size(e) \in 1..MAX_SYM
    BY <1>1, <1>9, Places DEF Logged
  <2>. QED  BY <2>1, <2>2
<1>11. Head(payloads) = [mapped |-> e.enc, data |-> FrameOf(e)]
  <2>1. 1 \in 1..Len(payloads)
    BY <1>5
  <2>. QED  BY <1>5, <1>7, <1>8, <1>9, <2>1
<1>12. Head(headers) = [size |-> e.msg.size, mcs |-> e.enc]
  <2>1. 1 \in 1..Len(headers)
    BY <1>5
  <2>2. headers[1] = [size |-> log[a + 1].msg.size, mcs |-> log[a + 1].enc]
    BY <1>1, <1>2, <2>1 DEF Logged, Formatted
  <2>. QED  BY <1>5, <1>8, <1>9, <2>2
<1>13. air' = Append(air, [size |-> e.msg.size, mcs |-> e.enc, mapped |-> e.enc,
                           data |-> Coded(e.msg, e.enc, e.seed)])
  BY <1>4, <1>11, <1>12 DEF FrameOf
<1>14. Joins(Waiting, taken, a, queue, n)
  BY <1>2, <1>3, WaitingAre
<1>15. n > 0 /\ Len(taken') - Len(air') = n - 1
  <2>1. Len(taken') = Len(taken) /\ Len(taken) \in Nat /\ Len(taken) >= a + 1
    BY <1>4, <1>5, <1>7
  <2>. QED  BY <1>3, <1>5, <1>6, <2>1
<1>16. Joins(Waiting', taken, a + 1, queue, n - 1)
  BY <1>4, <1>6, <1>15, WaitingWillBe
<1>17. Waiting # <<>> /\ Head(Waiting) = e.msg /\ Waiting' = Tail(Waiting)
  BY <1>8, <1>10, <1>14, <1>15, <1>16, JoinedSent
<1>18. e.enc \in Encodings /\ e.seed \in 1..MAX_SEED /\ Fits(e.msg, e.enc)
  BY <1>10 DEF Entries, Size, Fits
<1>. QED  BY <1>4, <1>10, <1>13, <1>17, <1>18
          DEF Queue!Transmit, Queue!Fits, Queue!NSym, Queue!Encodings, Queue!Coded,
              Fits, NSym, Encodings, Coded

\* Every step of the blocks is a step of the queue, or none.
LEMMA StepRefines ==
    ASSUME IInv, IInv', [Next]_vars
    PROVE  [Queue!TxNext]_(Queue!txVars)
<1>1. CASE Clients
  <2>1. CASE Post
    BY <1>1, <2>1, PostRefines DEF Clients, Queue!TxNext
  <2>2. CASE set_encoding
    BY <1>1, <2>2 DEF Clients, set_encoding, readerVars, Waiting, Queue!txVars
  <2>. QED  BY <1>1, <2>1, <2>2 DEF Clients
<1>2. CASE Map
  <2>1. CASE Discard \/ RefuseTooLarge
    BY <1>2, <2>1, DropRefines DEF Map, Queue!TxNext
  <2>2. ASSUME NEW room \in 1..Free, StartFrame(room)
        PROVE  [Queue!TxNext]_(Queue!txVars)
    <3>1. room \in Nat \ {0}
      BY FreeType DEF IInv
    <3>2. Waiting' = Waiting
      BY <1>2, <2>2, <3>1, StartRefines DEF Map
    <3>. QED  BY <1>2, <2>2, <3>2 DEF Map, StartFrame, readerVars, Queue!txVars
  <2>3. ASSUME NEW room \in 1..Free, ContinueFrame(room)
        PROVE  [Queue!TxNext]_(Queue!txVars)
    BY <1>2, <2>3 DEF Map, ContinueFrame, readerVars, Waiting, Queue!txVars
  <2>. QED  BY <1>2, <2>1, <2>2, <2>3 DEF Map, MapperWork
<1>3. CASE ChunksToSymbols
  BY <1>3 DEF ChunksToSymbols, MapChunks, ThrowInChunks, mapperVars, Waiting, Queue!txVars
<1>4. CASE GenerateHeader
  BY <1>4 DEF GenerateHeader, FormatHeader, mapperVars, Waiting, Queue!txVars
<1>5. CASE Mux
  BY <1>5, MuxRefines DEF Queue!TxNext
<1>6. CASE UNCHANGED vars
  BY <1>6 DEF vars, mapperVars, readerVars, Waiting, Queue!txVars
<1>. QED  BY <1>1, <1>2, <1>3, <1>4, <1>5, <1>6 DEF Next

\* The transmitter implements the queue of frames of TxQueue: what goes on the
\* air is the messages in the order in which they were posted, each whole, with
\* a header and a constellation that match its coding, and what is missing was
\* refused (mapper_impl.cc, chunks_to_symbols_impl.cc, signal_field_impl.cc).
THEOREM Implementation == Spec => ImplementsTxQueue
<1>1. Init => Queue!TxInit
  <2>1. ASSUME Init PROVE Waiting = <<>>
    <3>1. taken = <<>> /\ air = <<>> /\ queue = <<>>
      BY <2>1 DEF Init, MapperInit
    <3>2. Joins(Waiting, taken, Len(air), queue, Len(taken) - Len(air))
      BY <2>1, InitIInv, WaitingAre
    <3>3. Waiting \in Seq(Messages) /\ Len(Waiting) = 0
      BY <3>1, <3>2, EmptySeq DEF Joins
    <3>. QED  BY <3>3, EmptySeq
  <2>. QED  BY <2>1 DEF Init, MapperInit, Queue!TxInit
<1>2. IInv /\ IInv' /\ [Next]_vars => [Queue!TxNext]_(Queue!txVars)
  BY StepRefines
<1>. QED  BY <1>1, <1>2, Invariance, PTL DEF Spec, ImplementsTxQueue, Queue!TxSpec

\* The blocks' state has the types of their members.
THEOREM TypeCorrect == Spec => []TypeOK
<1>1. IInv => TypeOK
  BY DEF IInv
<1>. QED  BY <1>1, Invariance, PTL

\* chunks_to_symbols finds exactly one "encoding" tag in each of its packets,
\* so that it throws at none but one of an encoding that it does not list
\* (chunks_to_symbols_impl.cc, "no encoding in input stream").
THEOREM OneTag == Spec => []OneEncodingTag
<1>1. ASSUME IInv PROVE OneEncodingTag
  <2>. SUFFICES ASSUME failed
                PROVE  \E t \in streamTags : t.at = symRead /\ t.encoding \in UNMAPPED
    BY DEF OneEncodingTag
  <2>1. PICK log : Logged(log)
    BY <1>1 DEF IInv
  <2>2. PICK s : s = Len(air) + Len(payloads) + 1
    OBVIOUS
  <2>3. s \in Nat /\ s > 0
    BY <1>1, <2>2 DEF IInv, TypeOK
  <2>4. s <= Len(log) /\ log[s].enc \in UNMAPPED
    BY <2>1, <2>2 DEF Logged, Failing
  <2>5. s \in 1..Len(log)
    BY <2>1, <2>3, <2>4, Places DEF Logged
  <2>6. TagOf(log[s]) \in streamTags
    BY <2>1, <2>5 DEF Logged, Begun
  <2>7. TagOf(log[s]).at = log[s].at /\ TagOf(log[s]).encoding = log[s].enc
    BY DEF TagOf
  <2>8. log[s].at = symRead
    <3>1. log[s].at = Place(log, s)
      BY <2>1, <2>5 DEF Logged, Layout
    <3>2. symRead = Place(log, s)
      BY <2>1, <2>2 DEF Logged, Mapped
    <3>. QED  BY <3>1, <3>2
  <2>. QED  BY <2>4, <2>6, <2>7, <2>8
<1>. QED  BY <1>1, Invariance, PTL

=============================================================================
