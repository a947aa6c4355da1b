--------------------------- MODULE MacLinkProofs ----------------------------
(***************************************************************************)
(* Proofs about the blocks above the physical layer, for any stations, any *)
(* number of sequence numbers, any bounds, whatever is read behind a frame *)
(* too short for a number and whatever d_last_seq is at first.             *)
(***************************************************************************)
EXTENDS MacLink, SequenceTheorems, TLAPS

USE MacLinkAssumption

-----------------------------------------------------------------------------
(* Sequence numbers: what is left of a frame's number in 12 bits.          *)

\* Division by the number of sequence numbers.
LEMMA DivMod ==
    ASSUME NEW m \in Nat, m > 0, NEW x \in Nat
    PROVE  /\ x \div m \in Nat
           /\ x % m \in 0 .. m - 1
           /\ x = m * (x \div m) + (x % m)
OBVIOUS

\* What is left of a sum of whole cycles and a rest is the rest.
LEMMA RestUnique ==
    ASSUME NEW m \in Nat, m > 0, NEW q \in Nat, NEW r \in 0 .. m - 1
    PROVE  (m * q + r) % m = r
OBVIOUS

\* The low bits of the 16 bits of a counter are the counter's low bits:
\* d_seq_nr may wrap without a break in the sequence numbers.
LEMMA LowBits ==
    ASSUME NEW n \in Nat
    PROVE  (n % SEQ_NR) % SEQ = n % SEQ
<1>. DEFINE a == n \div SEQ_NR
            b == n % SEQ_NR
            c == b \div SEQ
            d == b % SEQ
            k == SEQ_NR \div SEQ
<1>1. a \in Nat /\ b \in Nat /\ n = SEQ_NR * a + b
  BY DivMod
<1>2. c \in Nat /\ d \in 0 .. SEQ - 1 /\ b = SEQ * c + d
  BY <1>1, DivMod
<1>3. k \in Nat /\ SEQ_NR = SEQ * k
  BY DivMod
<1>. HIDE DEF a, b, c, d, k
<1>. DEFINE q == k * a + c
<1>4. n = SEQ * q + d
  BY <1>1, <1>2, <1>3
<1>5. q \in Nat
  BY <1>1, <1>2, <1>3
<1>. HIDE DEF q
<1>6. n % SEQ = d
  BY <1>2, <1>4, <1>5, RestUnique
<1>. QED  BY <1>6 DEF b, d

\* The next value of the 16-bit counter is that of the next number.
LEMMA NextLowBits ==
    ASSUME NEW n \in Nat
    PROVE  ((n % SEQ_NR) + 1) % SEQ_NR = (n + 1) % SEQ_NR
<1>. DEFINE a == n \div SEQ_NR
            b == n % SEQ_NR
<1>1. a \in Nat /\ b \in 0 .. SEQ_NR - 1 /\ n = SEQ_NR * a + b
  BY DivMod
<1>. HIDE DEF a, b
<1>2. CASE b + 1 < SEQ_NR
  <2>1. b + 1 \in 0 .. SEQ_NR - 1 /\ n + 1 = SEQ_NR * a + (b + 1)
    BY <1>1, <1>2
  <2>2. (n + 1) % SEQ_NR = b + 1
    BY <1>1, <2>1, RestUnique
  <2>3. (b + 1) % SEQ_NR = b + 1
    BY <2>1
  <2>. QED  BY <2>2, <2>3 DEF b
<1>3. CASE b + 1 = SEQ_NR
  <2>1. n + 1 = SEQ_NR * (a + 1) + 0
    BY <1>1, <1>3
  <2>2. (n + 1) % SEQ_NR = 0
    BY <1>1, <2>1, RestUnique
  <2>3. b + 1 = SEQ_NR * 1 + 0
    BY <1>3
  <2>4. (b + 1) % SEQ_NR = 0
    BY <2>3, RestUnique
  <2>. QED  BY <2>2, <2>4 DEF b
<1>. QED  BY <1>1, <1>2, <1>3

\* Two numbers less than a cycle apart that look the same are the same.
LEMMA SameNumber ==
    ASSUME NEW p \in Nat, NEW f \in Nat, p <= f, f - p < SEQ,
           p % SEQ = f % SEQ
    PROVE  p = f
<1>1. p = SEQ * (p \div SEQ) + (p % SEQ) /\ p \div SEQ \in Nat
  BY DivMod
<1>2. f = SEQ * (f \div SEQ) + (f % SEQ) /\ f \div SEQ \in Nat
  BY DivMod
<1>. DEFINE x == (f \div SEQ) - (p \div SEQ)
<1>3. x \in Int /\ f - p = SEQ * x
  BY <1>1, <1>2, DivMod
<1>. HIDE DEF x
<1>4. x = 0
  <2>1. SEQ * x \in 0 .. SEQ - 1
    BY <1>3
  <2>2. CASE x >= 1
    <3>1. SEQ * x >= SEQ
      BY <1>3, <2>2
    <3>. QED  BY <2>1, <3>1
  <2>3. CASE x <= -1
    <3>1. SEQ * x <= -SEQ
      BY <1>3, <2>3
    <3>. QED  BY <2>1, <3>1
  <2>. QED  BY <1>3, <2>2, <2>3
<1>. QED  BY <1>3, <1>4

-----------------------------------------------------------------------------
(* The inductive invariant.                                                *)

\* The fragment number: what the header holds besides the number's low bits.
Fragment(f) == f.seq_nr - 16 * (f.n % SEQ)

\* A frame as a station makes it: its header holds the low bits of its number
\* and a fragment number, and only control frames end before that field.
Sent == {f \in Frames : /\ Fragment(f) \in 0 .. 15
                        /\ f.size = "short" <=> f.kind = "control"}

Maybe == Sent \cup {Nothing}

Entries == [frame : Sent, after : Maybe, afterData : Maybe]

\* The state that the properties speak of is made of such frames.
Typed ==
    /\ d_seq_nr \in [Own -> 0 .. SEQ_NR - 1]
    /\ running \in [Own \cup {Receiver} -> BOOLEAN]
    /\ number \in [Stations -> 0 .. MAX_SENT]
    /\ onAir \in Maybe /\ heard \in Maybe /\ counted \in Maybe
    /\ last \in [Foreign -> Maybe]
    /\ inbox \in [Handlers -> Seq(Entries)]
    /\ \A h \in Handlers : Len(inbox[h]) <= QUEUE
    /\ alive \in BOOLEAN

\* d_seq_nr is the station's count of frames, in 16 bits.
Numbering == \A s \in Own : d_seq_nr[s] = number[s] % SEQ_NR

\* A numbered frame.
Numbered(f) == f \in Sent /\ f.kind # "control"

\* A fragment p of a frame and one that follows it, or p once more.
Continues(p, f) == p = f \/ Fragment(p) < Fragment(f)

\* What may be repeated is the newest frame of its station.
LastSent ==
    \A s \in Foreign : last[s] # Nothing =>
        /\ last[s].from = s
        /\ Numbered(last[s]) => last[s].n = number[s] - 1

\* So is the frame in the air.
Newest ==
    Numbered(onAir) =>
        /\ onAir.n = number[onAir.from] - 1
        /\ onAir.from \in Foreign => last[onAir.from] = onAir

\* A frame that was decoded is an older one, or an earlier fragment of the one
\* its station may repeat, or that.
Past ==
    Numbered(heard) =>
        /\ heard.n < number[heard.from]
        /\ (heard.from \in Foreign /\ heard.n = number[heard.from] - 1) =>
              (Numbered(last[heard.from]) => Continues(heard, last[heard.from]))

\* p came before f: of two frames of a station the later has the larger number,
\* or the larger fragment number, or it is the same frame.
Before(p, f) ==
    (Numbered(p) /\ Numbered(f) /\ p.from = f.from) =>
        /\ p.n <= f.n
        /\ p.n = f.n => Continues(p, f)

InOrder ==
    \A h \in Handlers : \A i \in 1 .. Len(inbox[h]) :
       Before(inbox[h][i].after, inbox[h][i].frame)

\* The queue of a handler is a run of decoded frames without a gap, up to the
\* last one.
CountedAfter(e) == IF IsData(e.frame) THEN e.frame ELSE e.afterData

Chained(q) ==
    \A i \in 1 .. Len(q) :
       /\ (IF i = Len(q) THEN heard ELSE q[i + 1].after) = q[i].frame
       /\ (IF i = Len(q) THEN counted ELSE q[i + 1].afterData)
             = CountedAfter(q[i])

NoGap == Chained(inbox["parse"]) /\ Chained(inbox["from_halow"])

\* parse_mac and ether_encap remember the number of the frame before the next
\* one in their queue.
BeforeNext(h) == IF inbox[h] = <<>> THEN heard ELSE inbox[h][1].after
CountedBeforeNext(h) ==
    IF inbox[h] = <<>> THEN counted ELSE inbox[h][1].afterData

ParseRemembers ==
    LET p == CountedBeforeNext("parse")
    IN  /\ p # Nothing => IsData(p)
        /\ d_last_seq_no = IF p = Nothing THEN -1 ELSE p.n % SEQ

EncapRemembers ==
    LET p == BeforeNext("from_halow")
    IN  /\ p = Nothing => d_last_seq = FIRST_SEQ
        /\ Numbered(p) => d_last_seq = p.seq_nr
        /\ d_last_seq \in {FIRST_SEQ} \cup Beyond \cup 0 .. 16 * SEQ - 1

\* What is reported of the last frame taken.
Reports ==
    /\ lost # Nothing => lost.lost_frames \in 0 .. SEQ - 1
    /\ LostCountsNumbers
    /\ FilterExact

IInv ==
    /\ Typed
    /\ Numbering
    /\ LastSent
    /\ Newest
    /\ Past
    /\ Before(heard, onAir)
    /\ InOrder
    /\ NoGap
    /\ ParseRemembers
    /\ EncapRemembers
    /\ Reports
-----------------------------------------------------------------------------
(* Lemmas about the queues of the handlers.                                *)

\* The frame before the next one in a handler's queue, and whether parse_mac
\* counts it, are kept when the next one is decoded.
LEMMA HearQueue ==
    ASSUME Typed, Hear, NEW h \in {"parse", "from_halow"}, Chained(inbox[h])
    PROVE  /\ Chained(inbox[h])'
           /\ BeforeNext(h)' = BeforeNext(h)
           /\ CountedBeforeNext(h)' = CountedBeforeNext(h)
<1>. DEFINE q == inbox[h]
            e == [frame |-> onAir, after |-> heard, afterData |-> counted]
<1>1. q \in Seq(Entries) /\ e \in Entries
  BY DEF Typed, Handlers, Hear, Entries, Maybe
<1>2. inbox'[h] = Append(q, e)
  BY DEF Hear, Handling, Handlers
<1>3. /\ Len(q) \in Nat
      /\ Len(inbox'[h]) = Len(q) + 1
      /\ inbox'[h] # <<>>
      /\ \A i \in 1 .. Len(q) : inbox'[h][i] = q[i]
      /\ inbox'[h][Len(q) + 1] = e
  BY <1>1, <1>2, AppendProperties, LenProperties
<1>4. heard' = e.frame /\ counted' = CountedAfter(e)
  BY DEF Hear, CountedAfter
<1>5. \A i \in 1 .. Len(q) :
         /\ q[i].frame = inbox'[h][i + 1].after
         /\ CountedAfter(q[i]) = inbox'[h][i + 1].afterData
  <2>. SUFFICES ASSUME NEW i \in 1 .. Len(q)
                PROVE  /\ q[i].frame = inbox'[h][i + 1].after
                       /\ CountedAfter(q[i]) = inbox'[h][i + 1].afterData
    OBVIOUS
  <2>1. CASE i = Len(q)
    BY <1>3, <2>1 DEF Chained
  <2>2. CASE i # Len(q)
    <3>1. i + 1 \in 1 .. Len(q)
      BY <1>3, <2>2
    <3>2. inbox'[h][i + 1] = q[i + 1]
      BY <1>3, <3>1
    <3>3. /\ q[i + 1].after = q[i].frame
          /\ q[i + 1].afterData = CountedAfter(q[i])
      BY <2>2 DEF Chained
    <3>. QED  BY <3>2, <3>3
  <2>. QED  BY <2>1, <2>2
<1>6. Chained(inbox[h])'
  <2>. DEFINE r == inbox'[h]
  <2>. SUFFICES ASSUME NEW i \in 1 .. Len(r)
                PROVE  /\ (IF i = Len(r) THEN heard' ELSE r[i + 1].after)
                             = r[i].frame
                       /\ (IF i = Len(r) THEN counted' ELSE r[i + 1].afterData)
                             = CountedAfter(r[i])
    BY DEF Chained, CountedAfter
  <2>1. CASE i = Len(r)
    BY <1>3, <1>4, <2>1
  <2>2. CASE i # Len(r)
    <3>1. i \in 1 .. Len(q) /\ r[i] = q[i]
      BY <1>3, <2>2
    <3>. QED  BY <1>5, <2>2, <3>1
  <2>. QED  BY <2>1, <2>2
<1>7. CASE q = <<>>
  <2>1. inbox'[h][1] = e
    BY <1>3, <1>7
  <2>. QED  BY <1>3, <1>6, <1>7, <2>1 DEF BeforeNext, CountedBeforeNext
<1>8. CASE q # <<>>
  <2>1. inbox'[h][1] = q[1]
    BY <1>1, <1>3, <1>8, EmptySeq
  <2>. QED  BY <1>3, <1>6, <1>8, <2>1 DEF BeforeNext, CountedBeforeNext
<1>. QED  BY <1>7, <1>8

\* What a handler takes is the first entry of its queue, and the frame of it is
\* then the one before the next.
LEMMA TakeQueue ==
    ASSUME Typed, NEW h \in Handlers, Take(h)
    PROVE  /\ Taken(h) = inbox[h][1] /\ 1 \in 1 .. Len(inbox[h])
           /\ Taken(h) \in Entries
           /\ inbox' \in [Handlers -> Seq(Entries)]
           /\ Len(inbox'[h]) = Len(inbox[h]) - 1
           /\ \A i \in 1 .. Len(inbox'[h]) : inbox'[h][i] = inbox[h][i + 1]
           /\ \A g \in Handlers \ {h} : inbox'[g] = inbox[g]
           /\ Chained(inbox[h]) =>
                /\ Chained(inbox[h])'
                /\ BeforeNext(h)' = Taken(h).frame
                /\ CountedBeforeNext(h)' = CountedAfter(Taken(h))
<1>. DEFINE q == inbox[h]
<1>1. q \in Seq(Entries) /\ q # <<>> /\ inbox'[h] = Tail(q)
  BY DEF Typed, Take
<1>2. /\ Head(q) = q[1] /\ Head(q) \in Entries
      /\ Tail(q) \in Seq(Entries)
      /\ Len(q) \in Nat /\ Len(q) >= 1
      /\ Len(Tail(q)) = Len(q) - 1
      /\ \A i \in 1 .. Len(Tail(q)) : Tail(q)[i] = q[i + 1]
  BY <1>1, HeadTailProperties, EmptySeq
<1>3. /\ inbox' \in [Handlers -> Seq(Entries)]
      /\ \A g \in Handlers \ {h} : inbox'[g] = inbox[g]
  BY <1>2 DEF Typed, Take
<1>4. Taken(h) = q[1] /\ Taken(h) \in Entries
  BY <1>2 DEF Taken
<1>5. ASSUME Chained(q)
      PROVE  /\ Chained(inbox[h])'
             /\ BeforeNext(h)' = Taken(h).frame
             /\ CountedBeforeNext(h)' = CountedAfter(Taken(h))
  <2>1. heard' = heard /\ counted' = counted
    BY DEF Take, history
  <2>2. Chained(inbox[h])'
    BY <1>1, <1>2, <1>5, <2>1 DEF Chained, CountedAfter
  <2>3. CASE Len(q) = 1
    <3>1. inbox'[h] = <<>>
      <4>1. Tail(q) = <<>>
        BY <1>2, <2>3, EmptySeq, Len(Tail(q)) = 0
      <4>. QED  BY <1>1, <4>1
    <3>2. heard = q[1].frame /\ counted = CountedAfter(q[1])
      BY <1>2, <1>5, <2>3 DEF Chained
    <3>. QED  BY <1>4, <2>1, <2>2, <3>1, <3>2 DEF BeforeNext, CountedBeforeNext
  <2>4. CASE Len(q) # 1
    <3>1. inbox'[h] # <<>> /\ inbox'[h][1] = q[2]
      <4>1. 1 \in 1 .. Len(Tail(q))
        <5>. DEFINE n == Len(q)
                    t == Len(Tail(q))
        <5>1. n \in Nat /\ n >= 1 /\ n # 1 /\ t = n - 1
          BY <1>2, <2>4
        <5>. HIDE DEF n, t
        <5>2. 1 \in 1 .. t
          BY <5>1
        <5>. QED  BY <5>2 DEF t
      <4>2. Tail(q)[1] = q[1 + 1]
        BY <1>2, <4>1
      <4>3. Tail(q) # <<>>
        <5>. DEFINE t == Len(Tail(q))
        <5>1. 1 \in 1 .. t /\ t \in Nat
          BY <1>2, <4>1, LenProperties
        <5>. HIDE DEF t
        <5>2. t # 0
          BY <5>1
        <5>. QED  BY <1>2, <5>2, EmptySeq DEF t
      <4>. QED  BY <1>1, <4>2, <4>3
    <3>2. q[2].after = q[1].frame /\ q[2].afterData = CountedAfter(q[1])
      <4>1. 1 \in 1 .. Len(q) /\ 1 # Len(q)
        BY <1>2, <2>4
      <4>2. /\ q[1 + 1].after = q[1].frame
            /\ q[1 + 1].afterData = CountedAfter(q[1])
        BY <1>5, <4>1 DEF Chained
      <4>. QED  BY <4>2
    <3>. QED  BY <1>4, <2>2, <3>1, <3>2 DEF BeforeNext, CountedBeforeNext
  <2>. QED  BY <2>2, <2>3, <2>4
<1>. QED  BY <1>1, <1>2, <1>3, <1>4, <1>5
-----------------------------------------------------------------------------
(* The invariant holds initially and is preserved by every action.         *)

\* Nothing is no frame.
LEMMA NothingIsNoFrame == Nothing \notin Sent /\ ~Numbered(Nothing)
BY DEF Nothing, Sent, Frames, Numbered

\* Before the first frame nothing was sent, decoded or counted.
LEMMA InitIInv == Init => IInv
<1>. SUFFICES ASSUME Init PROVE IInv
  OBVIOUS
<1>1. Typed
  BY EmptySeq DEF Init, Typed, Maybe, Handlers
<1>2. Numbering /\ LastSent
  BY DEF Init, Numbering, LastSent, Own
<1>3. Newest /\ Past /\ Before(heard, onAir)
  BY NothingIsNoFrame DEF Init, Newest, Past, Before
<1>4. InOrder /\ NoGap
  BY EmptySeq DEF Init, InOrder, NoGap, Chained, Handlers
<1>5. ParseRemembers /\ EncapRemembers
  BY NothingIsNoFrame DEF Init, ParseRemembers, EncapRemembers, BeforeNext, CountedBeforeNext,
     Handlers
<1>6. Reports
  BY DEF Init, Reports, LostCountsNumbers, FilterExact
<1>. QED  BY <1>1, <1>2, <1>3, <1>4, <1>5, <1>6 DEF IInv

\* What is sent changes nothing at the receiver.
LEMMA ReceiverIdle ==
    ASSUME IInv, UNCHANGED <<history, receiver>>
    PROVE  InOrder' /\ NoGap' /\ ParseRemembers' /\ EncapRemembers' /\ Reports'
<1>. USE DEF IInv, history, receiver
<1>1. InOrder'
  BY DEF InOrder, Before
<1>2. NoGap'
  BY DEF NoGap, Chained, CountedAfter
<1>3. ParseRemembers'
  BY DEF ParseRemembers, CountedBeforeNext
<1>4. EncapRemembers'
  BY DEF EncapRemembers, BeforeNext
<1>5. Reports'
  BY DEF Reports, LostCountsNumbers, FilterExact
<1>. QED  BY <1>1, <1>2, <1>3, <1>4, <1>5

\* A station sends a frame of its own: the next one, or its newest again.
LEMMA TransmitStep ==
    ASSUME IInv,
           NEW s \in Stations, NEW f \in Sent, NEW numbered \in BOOLEAN,
           f.from = s,
           Transmit(s, f, numbered),
           numbered => number[s] < MAX_SENT,
           numbered => f.kind # "control",
           ~numbered /\ Numbered(f) =>
              s \in Foreign /\ Numbered(last[s]) /\ Continues(last[s], f),
           Numbered(f) => f.n = (IF numbered THEN number[s] ELSE number[s] - 1),
           s \in Own => numbered
    PROVE  /\ number' \in [Stations -> 0 .. MAX_SENT]
           /\ number'[s] = IF numbered THEN number[s] + 1 ELSE number[s]
           /\ \A t \in Stations \ {s} : number'[t] = number[t]
           /\ onAir' \in Sent
           /\ last' \in [Foreign -> Maybe]
           /\ LastSent' /\ Newest' /\ Past' /\ Before(heard, onAir)'
<1>. USE DEF IInv
<1>1. /\ number' \in [Stations -> 0 .. MAX_SENT]
      /\ number'[s] = IF numbered THEN number[s] + 1 ELSE number[s]
      /\ \A t \in Stations \ {s} : number'[t] = number[t]
  BY DEF Transmit, Typed
<1>2. /\ onAir' = f
      /\ last' \in [Foreign -> Maybe]
      /\ \A t \in Foreign : last'[t] = IF t = s THEN f ELSE last[t]
      /\ heard' = heard
  BY DEF Transmit, Typed, Maybe, history
<1>3. number \in [Stations -> 0 .. MAX_SENT] /\ Foreign \subseteq Stations
  BY DEF Typed
<1>4. f \in Frames /\ f.n \in Nat
  BY DEF Sent, Frames
<1>5. LastSent'
  BY <1>1, <1>2, <1>3, <1>4 DEF LastSent, Numbered
<1>6. Newest'
  BY <1>1, <1>2, <1>3, <1>4 DEF Newest, Numbered
<1>7. ASSUME Numbered(heard), heard.from = s
      PROVE  /\ heard.n \in Nat
             /\ heard.n < number[s]
             /\ (s \in Foreign /\ heard.n = number[s] - 1) =>
                   (Numbered(last[s]) => Continues(heard, last[s]))
  BY <1>7 DEF Past, Numbered, Sent, Frames
<1>8. ASSUME ~numbered, Numbered(f), Numbered(heard), heard.from = s,
             heard.n = number[s] - 1
      PROVE  Continues(heard, f)
  <2>1. Continues(heard, last[s]) /\ Continues(last[s], f) /\ Numbered(last[s])
    BY <1>7, <1>8
  <2>2. /\ Fragment(heard) \in Int /\ Fragment(last[s]) \in Int
        /\ Fragment(f) \in Int
    BY <1>8, <2>1 DEF Numbered, Sent
  <2>. QED  BY <2>1, <2>2 DEF Continues
<1>9. Past'
  <2>. SUFFICES ASSUME Numbered(heard)
                PROVE  /\ heard.n < number'[heard.from]
                       /\ (heard.from \in Foreign
                             /\ heard.n = number'[heard.from] - 1
                             /\ Numbered(last'[heard.from])) =>
                                   Continues(heard, last'[heard.from])
    BY <1>2 DEF Past, Numbered, Continues
  <2>1. CASE heard.from = s
    BY <1>1, <1>2, <1>3, <1>7, <1>8, <2>1
  <2>2. CASE heard.from # s
    BY <1>1, <1>2, <2>2 DEF Past, Numbered, Sent, Frames
  <2>. QED  BY <2>1, <2>2
<1>10. Before(heard, onAir)'
  <2>. SUFFICES ASSUME Numbered(heard), Numbered(f), heard.from = s
                PROVE  heard.n <= f.n /\ (heard.n = f.n => Continues(heard, f))
    BY <1>2 DEF Before, Numbered, Continues
  <2>1. CASE numbered
    BY <1>1, <1>3, <1>7, <2>1
  <2>2. CASE ~numbered
    BY <1>3, <1>7, <1>8, <2>2
  <2>. QED  BY <2>1, <2>2
<1>. QED  BY <1>1, <1>2, <1>5, <1>6, <1>9, <1>10

\* A frame of mac's own carries the next number of its station.
LEMMA AppInStep ==
    ASSUME IInv, NEW s \in Own, AppIn(s)
    PROVE  IInv'
<1>. USE DEF IInv
<1>1. PICK size \in {"bare", "full"} : Transmit(s, DataFrame(s, size), TRUE)
  BY DEF AppIn
<1>. DEFINE f == DataFrame(s, size)
<1>2. s \in Stations /\ s \notin Foreign /\ number[s] \in 0 .. MAX_SENT - 1
  BY DEF Own, AppIn, Typed
<1>3. d_seq_nr[s] % SEQ = number[s] % SEQ /\ number[s] % SEQ \in 0 .. SEQ - 1
  <2>1. number[s] \in Nat /\ d_seq_nr[s] = number[s] % SEQ_NR
    BY <1>2 DEF Numbering
  <2>2. (number[s] % SEQ_NR) % SEQ = number[s] % SEQ
    BY <2>1, LowBits
  <2>3. number[s] % SEQ \in 0 .. SEQ - 1
    BY <2>1, DivMod
  <2>. QED  BY <2>1, <2>2, <2>3
<1>4. f \in Sent /\ f.from = s /\ f.kind = "data" /\ f.n = number[s]
  BY <1>2, <1>3 DEF DataFrame, Frame, Fragment, Sent, Frames
<1>5. UNCHANGED <<history, receiver>>
  BY <1>1 DEF Transmit
<1>6. /\ number' \in [Stations -> 0 .. MAX_SENT]
      /\ number'[s] = number[s] + 1
      /\ \A t \in Stations \ {s} : number'[t] = number[t]
      /\ onAir' \in Sent
      /\ last' \in [Foreign -> Maybe]
      /\ LastSent' /\ Newest' /\ Past' /\ Before(heard, onAir)'
  <2>. HIDE DEF f
  <2>1. Transmit(s, f, TRUE)
    BY <1>1 DEF f
  <2>. QED  BY <1>2, <1>4, <2>1, TransmitStep DEF AppIn, Numbered
<1>7. /\ d_seq_nr' \in [Own -> 0 .. SEQ_NR - 1]
      /\ d_seq_nr'[s] = (d_seq_nr[s] + 1) % SEQ_NR
      /\ \A t \in Own \ {s} : d_seq_nr'[t] = d_seq_nr[t]
  <2>1. d_seq_nr[s] \in Nat
    BY DEF Typed
  <2>2. (d_seq_nr[s] + 1) % SEQ_NR \in 0 .. SEQ_NR - 1
    BY <2>1, DivMod
  <2>. QED  BY <2>2 DEF AppIn, Typed
<1>8. Typed'
  BY <1>5, <1>6, <1>7 DEF Typed, Maybe, history, receiver, AppIn
<1>9. Numbering'
  <2>1. ((number[s] % SEQ_NR) + 1) % SEQ_NR = (number[s] + 1) % SEQ_NR
    BY <1>2, NextLowBits
  <2>2. d_seq_nr'[s] = number'[s] % SEQ_NR
    BY <1>6, <1>7, <2>1 DEF Numbering
  <2>. QED  BY <1>6, <1>7, <2>2 DEF Numbering, Own
<1>. QED  BY <1>5, <1>6, <1>8, <1>9, ReceiverIdle

\* A payload that is too large takes no number.
LEMMA AppInTooLargeStep ==
    ASSUME IInv, NEW s \in Own, AppInTooLarge(s)
    PROVE  IInv'
<1>. USE DEF IInv, AppInTooLarge, history, receiver
<1>1. Typed'
  BY DEF Typed
<1>2. Numbering' /\ LastSent' /\ Newest' /\ Past' /\ Before(heard, onAir)'
  BY DEF Numbering, LastSent, Newest, Past, Before
<1>. QED  BY <1>1, <1>2, ReceiverIdle

\* Nor does another station's control frame; its other frames do.
LEMMA SendForeignStep ==
    ASSUME IInv, NEW s \in Foreign, SendForeign(s)
    PROVE  IInv'
<1>. USE DEF IInv
<1>1. PICK shape \in ForeignShapes :
         Transmit(s, Frame(s, shape[1], shape[2], number[s], number[s] % SEQ, 0),
                  shape[1] # "control")
  BY DEF SendForeign
<1>. DEFINE f == Frame(s, shape[1], shape[2], number[s], number[s] % SEQ, 0)
            numbered == shape[1] # "control"
<1>2. s \in Stations /\ s \notin Own /\ number[s] \in 0 .. MAX_SENT - 1
  BY DEF Own, SendForeign, Typed
<1>3. number[s] % SEQ \in 0 .. SEQ - 1
  BY <1>2, DivMod
<1>4. /\ f \in Sent /\ f.from = s /\ f.n = number[s]
      /\ numbered <=> (f.kind # "control")
  BY <1>2, <1>3 DEF Frame, Fragment, Sent, Frames, ForeignShapes
<1>5. UNCHANGED <<history, receiver>>
  BY <1>1 DEF Transmit
<1>7. /\ number' \in [Stations -> 0 .. MAX_SENT]
      /\ \A t \in Stations \ {s} : number'[t] = number[t]
      /\ onAir' \in Sent
      /\ last' \in [Foreign -> Maybe]
      /\ LastSent' /\ Newest' /\ Past' /\ Before(heard, onAir)'
  <2>1. Transmit(s, f, numbered) /\ numbered \in BOOLEAN
    BY <1>1
  <2>. HIDE DEF f, numbered
  <2>2. /\ numbered => number[s] < MAX_SENT /\ f.kind # "control"
        /\ ~(~numbered /\ Numbered(f))
        /\ Numbered(f) => f.n = (IF numbered THEN number[s] ELSE number[s] - 1)
        /\ s \in Own => numbered
    <3>1. numbered => number[s] < MAX_SENT
      BY <1>2
    <3>2. Numbered(f) => numbered
      BY <1>4, Zenon DEF Numbered
    <3>. QED  BY <1>2, <1>4, <3>1, <3>2, Zenon
  <2>. QED  BY <1>2, <1>4, <2>1, <2>2, TransmitStep
<1>8. Typed'
  BY <1>5, <1>7 DEF Typed, Maybe, history, receiver, SendForeign
<1>9. Numbering'
  BY <1>2, <1>7 DEF Numbering, Own, SendForeign
<1>. QED  BY <1>5, <1>7, <1>8, <1>9, ReceiverIdle

\* The next fragment of a frame takes the frame's number.
LEMMA SendFragmentStep ==
    ASSUME IInv, NEW s \in Foreign, SendFragment(s)
    PROVE  IInv'
<1>. USE DEF IInv
<1>. DEFINE p == last[s]
            f == [p EXCEPT !.seq_nr = @ + 1]
<1>1. p \in Sent /\ p \in Frames /\ p.kind # "control" /\ p # Nothing
  BY DEF SendFragment, Typed, Maybe, Sent
<1>2. s \in Stations /\ s \notin Own /\ p.from = s /\ p.n = number[s] - 1
  BY <1>1 DEF Own, LastSent, Numbered
<1>3. /\ f.kind = p.kind /\ f.size = p.size /\ f.from = p.from /\ f.n = p.n
      /\ f.seq_nr = p.seq_nr + 1
  BY <1>1 DEF Frames
<1>4. /\ p.n \in Nat /\ p.n % SEQ \in 0 .. SEQ - 1
      /\ Fragment(p) \in 0 .. 14
  <2>1. p.n \in Nat
    BY <1>1 DEF Frames
  <2>2. p.n % SEQ \in 0 .. SEQ - 1
    BY <2>1, DivMod
  <2>3. Fragment(p) \in 0 .. 15 /\ p.seq_nr = 16 * (p.n % SEQ) + Fragment(p)
    BY <1>1, <2>2 DEF Sent, Fragment, Frames
  <2>4. p.seq_nr % 16 = Fragment(p)
    BY <2>2, <2>3, RestUnique
  <2>. QED  BY <2>1, <2>2, <2>3, <2>4 DEF SendFragment
<1>5. Fragment(f) = Fragment(p) + 1
  BY <1>1, <1>3, <1>4 DEF Fragment, Frames
<1>6. f \in Frames
  <2>1. p.seq_nr + 1 \in 0 .. 16 * SEQ - 1
    BY <1>1, <1>4 DEF Fragment, Frames
  <2>. QED  BY <1>1, <2>1 DEF Frames
<1>7. f \in Sent
  <2>1. p.size = "short" <=> p.kind = "control"
    BY <1>1 DEF Sent
  <2>. HIDE DEF f
  <2>. QED  BY <1>3, <1>4, <1>5, <1>6, <2>1 DEF Sent
<1>8. Transmit(s, f, FALSE)
  BY DEF SendFragment
<1>9. UNCHANGED <<history, receiver>>
  BY <1>8 DEF Transmit
<1>10. Numbered(p) /\ Continues(p, f)
  BY <1>1, <1>4, <1>5 DEF Numbered, Continues
<1>11. /\ number' \in [Stations -> 0 .. MAX_SENT]
       /\ number'[s] = number[s]
       /\ \A t \in Stations \ {s} : number'[t] = number[t]
       /\ onAir' \in Sent
       /\ last' \in [Foreign -> Maybe]
       /\ LastSent' /\ Newest' /\ Past' /\ Before(heard, onAir)'
  <2>. HIDE DEF f
  <2>. QED  BY <1>2, <1>3, <1>7, <1>8, <1>10, TransmitStep
<1>12. Typed'
  BY <1>9, <1>11 DEF Typed, Maybe, history, receiver, SendFragment
<1>13. Numbering'
  BY <1>2, <1>11 DEF Numbering, Own, SendFragment
<1>. QED  BY <1>9, <1>11, <1>12, <1>13, ReceiverIdle

\* A repetition is the newest frame of its station once more.
LEMMA RepeatStep ==
    ASSUME IInv, NEW s \in Foreign, Repeat(s)
    PROVE  IInv'
<1>. USE DEF IInv
<1>1. last[s] \in Sent /\ last[s].kind # "control" /\ last[s] # Nothing
  BY DEF Repeat, Typed, Maybe
<1>2. s \in Stations /\ s \notin Own /\ last[s].from = s
      /\ last[s].n = number[s] - 1
  BY <1>1 DEF Own, LastSent, Numbered
<1>3. Transmit(s, last[s], FALSE)
  BY DEF Repeat
<1>4. UNCHANGED <<history, receiver>>
  BY <1>3 DEF Transmit
<1>5. /\ number' \in [Stations -> 0 .. MAX_SENT]
      /\ number'[s] = number[s]
      /\ \A t \in Stations \ {s} : number'[t] = number[t]
      /\ onAir' \in Sent
      /\ last' \in [Foreign -> Maybe]
      /\ LastSent' /\ Newest' /\ Past' /\ Before(heard, onAir)'
  BY <1>1, <1>2, <1>3, TransmitStep DEF Numbered, Continues
<1>6. Typed'
  BY <1>4, <1>5 DEF Typed, Maybe, history, receiver, Repeat
<1>7. Numbering'
  BY <1>2, <1>5 DEF Numbering, Own, Repeat
<1>. QED  BY <1>4, <1>5, <1>6, <1>7, ReceiverIdle

\* A lost frame leaves no trace at the receiver.
LEMMA LoseStep ==
    ASSUME IInv, Lose
    PROVE  IInv'
<1>. USE DEF IInv, Lose, sender, history, receiver
<1>1. Typed'
  BY DEF Typed, Maybe
<1>2. Numbering' /\ LastSent' /\ Past'
  BY DEF Numbering, LastSent, Past
<1>3. Newest' /\ Before(heard, onAir)'
  BY NothingIsNoFrame DEF Newest, Before
<1>. QED  BY <1>1, <1>2, <1>3, ReceiverIdle

\* A decoded frame comes behind the one decoded before it in every queue.
LEMMA HearStep ==
    ASSUME IInv, Hear
    PROVE  IInv'
<1>. USE DEF IInv
<1>. DEFINE e == [frame |-> onAir, after |-> heard, afterData |-> counted]
<1>1. onAir \in Sent /\ e \in Entries
  BY DEF Hear, Typed, Maybe, Entries
<1>2. ASSUME NEW h \in Handlers
      PROVE  /\ inbox'[h] \in Seq(Entries)
             /\ Len(inbox'[h]) <= QUEUE
             /\ \A i \in 1 .. Len(inbox'[h]) :
                   Before(inbox'[h][i].after, inbox'[h][i].frame)
  <2>1. CASE ~Handling(h)
    <3>1. inbox'[h] = <<>>
      BY <2>1 DEF Hear
    <3>. QED  BY <3>1, EmptySeq
  <2>2. CASE Handling(h)
    <3>. DEFINE q == inbox[h]
    <3>1. inbox'[h] = Append(q, e)
      BY <2>2 DEF Hear
    <3>2. q \in Seq(Entries) /\ Len(q) < QUEUE
      BY <2>2 DEF Hear, Typed
    <3>. HIDE DEF e
    <3>3. /\ inbox'[h] \in Seq(Entries)
          /\ Len(q) \in Nat
          /\ Len(inbox'[h]) = Len(q) + 1
          /\ \A i \in 1 .. Len(q) : inbox'[h][i] = q[i]
          /\ inbox'[h][Len(q) + 1] = e
      BY <1>1, <3>1, <3>2, AppendProperties, LenProperties
    <3>4. \A i \in 1 .. Len(q) : Before(q[i].after, q[i].frame)
      BY DEF InOrder
    <3>5. Before(e.after, e.frame)
      BY DEF e
    <3>6. \A i \in 1 .. Len(inbox'[h]) : i \in 1 .. Len(q) \/ i = Len(q) + 1
      BY <3>3
    <3>7. \A i \in 1 .. Len(inbox'[h]) :
             Before(inbox'[h][i].after, inbox'[h][i].frame)
      BY <3>3, <3>4, <3>5, <3>6
    <3>. QED  BY <3>2, <3>3, <3>7
  <2>. QED  BY <2>1, <2>2
<1>3. Typed'
  <2>1. inbox' \in [Handlers -> Seq(Entries)]
    BY <1>2 DEF Hear
  <2>2. counted' \in Maybe /\ heard' \in Maybe /\ onAir' \in Maybe
    BY <1>1 DEF Hear, Typed, Maybe
  <2>. QED  BY <1>2, <2>1, <2>2 DEF Typed, Hear, sender
<1>4. Numbering' /\ LastSent'
  BY DEF Numbering, LastSent, Hear, sender
<1>5. Newest' /\ Before(heard, onAir)'
  BY NothingIsNoFrame DEF Newest, Before, Hear
<1>6. Past'
  <2>. SUFFICES ASSUME Numbered(onAir)
                PROVE  /\ onAir.n < number[onAir.from]
                       /\ onAir.from \in Foreign => last[onAir.from] = onAir
    BY DEF Past, Hear, sender, Numbered, Continues
  <2>1. number[onAir.from] \in Int
    BY DEF Numbered, Sent, Frames, Typed
  <2>. QED  BY <2>1 DEF Newest
<1>7. InOrder'
  BY <1>2 DEF InOrder, Before
<1>8. NoGap' /\ ParseRemembers' /\ EncapRemembers'
  <2>1. /\ d_last_seq_no' = d_last_seq_no
        /\ d_last_seq' = d_last_seq
    BY DEF Hear
  <2>2. NoGap'
    BY HearQueue DEF NoGap
  <2>3. ParseRemembers'
    BY <2>1, HearQueue DEF NoGap, ParseRemembers
  <2>4. EncapRemembers'
    BY <2>1, HearQueue DEF NoGap, EncapRemembers
  <2>. QED  BY <2>2, <2>3, <2>4
<1>9. Reports'
  BY DEF Reports, LostCountsNumbers, FilterExact, Hear
<1>. QED  BY <1>3, <1>4, <1>5, <1>6, <1>7, <1>8, <1>9

\* A handler takes the next frame from its queue: nothing changes for those
\* that send, and for the other handlers.
LEMMA TakeStep ==
    ASSUME IInv, NEW h \in Handlers, Take(h),
           running' \in [Own \cup {Receiver} -> BOOLEAN], alive' \in BOOLEAN
    PROVE  /\ Typed' /\ Numbering' /\ LastSent' /\ Newest' /\ Past'
           /\ Before(heard, onAir)' /\ InOrder' /\ NoGap'
<1>. USE DEF IInv
<1>1. UNCHANGED <<onAir, history, d_seq_nr, number, last>>
  BY DEF Take
<1>2. Typed'
  <2>1. \A g \in Handlers : Len(inbox'[g]) <= QUEUE
    <3>1. Len(inbox[h]) \in Nat /\ Len(inbox[h]) <= QUEUE
      BY LenProperties DEF Typed
    <3>2. Len(inbox'[h]) <= QUEUE
      BY <3>1, TakeQueue
    <3>3. \A g \in Handlers \ {h} : Len(inbox'[g]) <= QUEUE
      BY TakeQueue DEF Typed
    <3>. QED  BY <3>2, <3>3
  <2>. QED  BY <1>1, <2>1, TakeQueue DEF Typed, history
<1>3. /\ Numbering' /\ LastSent' /\ Newest' /\ Past'
      /\ Before(heard, onAir)'
  BY <1>1 DEF Numbering, LastSent, Newest, Past, Before, history
<1>4. InOrder'
  <2>. SUFFICES ASSUME NEW g \in Handlers, NEW i \in 1 .. Len(inbox'[g])
                PROVE  Before(inbox'[g][i].after, inbox'[g][i].frame)
    BY DEF InOrder, Before
  <2>1. CASE g = h
    <3>1. Len(inbox[h]) \in Nat
      BY LenProperties DEF Typed
    <3>2. i + 1 \in 1 .. Len(inbox[h]) /\ inbox'[g][i] = inbox[h][i + 1]
      BY <2>1, <3>1, TakeQueue
    <3>. QED  BY <3>2 DEF InOrder
  <2>2. CASE g # h
    BY <2>2, TakeQueue DEF InOrder
  <2>. QED  BY <2>1, <2>2
<1>5. NoGap'
  <2>1. ASSUME NEW g \in Handlers, Chained(inbox[g])
        PROVE  Chained(inbox[g])'
    <3>1. CASE g = h
      BY <2>1, <3>1, TakeQueue
    <3>2. CASE g # h
      <4>1. inbox'[g] = inbox[g] /\ heard' = heard /\ counted' = counted
        BY <1>1, <3>2, TakeQueue DEF history
      <4>. QED  BY <2>1, <4>1 DEF Chained, CountedAfter
    <3>. QED  BY <3>1, <3>2
  <2>. QED  BY <2>1 DEF NoGap, Handlers
<1>. QED  BY <1>2, <1>3, <1>4, <1>5

\* The other handlers go on from the same frame.
LEMMA OtherQueue ==
    ASSUME Typed, NEW h \in Handlers, Take(h), NEW g \in Handlers \ {h}
    PROVE  /\ BeforeNext(g)' = BeforeNext(g)
           /\ CountedBeforeNext(g)' = CountedBeforeNext(g)
BY TakeQueue DEF BeforeNext, CountedBeforeNext, Take, history

\* The count of parse_data: the number skipped since the last data frame.
LEMMA LostFrames ==
    ASSUME d_last_seq_no \in -1 .. SEQ - 1, NEW seq_no \in 0 .. SEQ - 1
    PROVE  lost_frames(seq_no) \in 0 .. SEQ - 1
BY DEF lost_frames

\* Of two frames at most a cycle apart, the numbers in between are counted.
LEMMA LostInBetween ==
    ASSUME NEW p \in Nat, NEW f \in Nat, f - p \in 1 .. SEQ,
           d_last_seq_no = p % SEQ
    PROVE  lost_frames(f % SEQ) = f - p - 1
<1>. DEFINE a == p \div SEQ
            b == f \div SEQ
            r == p % SEQ
            t == f % SEQ
            x == b - a
<1>1. /\ a \in Nat /\ r \in 0 .. SEQ - 1 /\ p = SEQ * a + r
      /\ b \in Nat /\ t \in 0 .. SEQ - 1 /\ f = SEQ * b + t
  BY DivMod
<1>2. x \in Int /\ f - p = SEQ * x + (t - r)
  BY <1>1
<1>3. lost_frames(t) = IF t - r - 1 < 0 THEN t - r - 1 + SEQ ELSE t - r - 1
  BY DEF lost_frames
<1>. HIDE DEF a, b, r, t, x
<1>4. x \in {0, 1}
  <2>1. CASE x >= 2
    <3>1. SEQ * x >= 2 * SEQ
      BY <1>2, <2>1
    <3>. QED  BY <1>1, <1>2, <3>1
  <2>2. CASE x <= -1
    <3>1. SEQ * x <= -SEQ
      BY <1>2, <2>2
    <3>. QED  BY <1>1, <1>2, <3>1
  <2>. QED  BY <1>2, <2>1, <2>2
<1>5. CASE x = 0
  BY <1>1, <1>2, <1>3, <1>5 DEF t
<1>6. CASE x = 1
  BY <1>1, <1>2, <1>3, <1>6 DEF t
<1>. QED  BY <1>4, <1>5, <1>6

\* What parse_mac reports of the frame it takes.
LEMMA ParseReports ==
    ASSUME IInv, Parse
    PROVE  Reports' /\ ParseRemembers'
<1>. USE DEF IInv
<1>. DEFINE e == Taken("parse")
            f == e.frame
            p == e.afterData
<1>0. "parse" \in Handlers /\ Take("parse")
  BY DEF Handlers, Parse
<1>1. /\ e \in Entries
      /\ CountedBeforeNext("parse") = p
      /\ CountedBeforeNext("parse")' = CountedAfter(e)
  <2>1. inbox["parse"] # <<>>
    BY <1>0 DEF Take
  <2>. QED  BY <1>0, <2>1, TakeQueue DEF NoGap, CountedBeforeNext
<1>2. /\ f \in Sent /\ f.n \in Nat /\ p \in Maybe
      /\ f.n % SEQ \in 0 .. SEQ - 1
      /\ Fragment(f) \in 0 .. 15 /\ f.seq_nr = 16 * (f.n % SEQ) + Fragment(f)
      /\ f.size = "short" => ~IsData(f)
  BY <1>1, DivMod DEF Entries, Sent, Frames, IsData, Fragment
<1>3. /\ p # Nothing => p \in Sent /\ p.n \in Nat /\ p.n % SEQ \in 0 .. SEQ - 1
                                /\ IsData(p)
      /\ d_last_seq_no = IF p = Nothing THEN -1 ELSE p.n % SEQ
      /\ d_last_seq_no \in -1 .. SEQ - 1
  BY <1>1, <1>2, DivMod DEF ParseRemembers, Maybe, Sent, Frames
<1>4. filtered' = filtered
  BY DEF Parse
<1>. HIDE DEF e
<1>5. CASE ~IsData(f)
  <2>1. UNCHANGED <<d_last_seq_no, lost>>
    BY <1>5 DEF Parse, e
  <2>2. Reports'
    BY <1>4, <2>1 DEF Reports, LostCountsNumbers, FilterExact
  <2>3. ParseRemembers'
    BY <1>1, <1>3, <1>5, <2>1 DEF ParseRemembers, CountedAfter
  <2>. QED  BY <2>2, <2>3
<1>6. CASE IsData(f)
  <2>1. f.seq_nr \div 16 = f.n % SEQ
    BY <1>2
  <2>2. /\ lost' = [kind |-> "report", of |-> e,
                    lost_frames |-> lost_frames(f.n % SEQ)]
        /\ d_last_seq_no' = f.n % SEQ
    BY <1>2, <1>6, <2>1 DEF Parse, e
  <2>3. ParseRemembers'
    BY <1>1, <1>2, <1>6, <2>2, NothingIsNoFrame DEF ParseRemembers, CountedAfter
  <2>4. lost'.lost_frames \in 0 .. SEQ - 1
    BY <1>2, <1>3, <2>2, LostFrames
  <2>5. ASSUME p # Nothing, f.n - p.n \in 1 .. SEQ
        PROVE  lost_frames(f.n % SEQ) = f.n - p.n - 1
    BY <1>2, <1>3, <2>5, LostInBetween
  <2>6. ASSUME p = Nothing, f.n < SEQ
        PROVE  lost_frames(f.n % SEQ) = f.n
    <3>1. f.n % SEQ = f.n
      <4>1. \A n \in Nat : n < SEQ => n % SEQ = n
        OBVIOUS
      <4>. QED  BY <1>2, <2>6, <4>1
    <3>. QED  BY <1>2, <1>3, <2>6, <3>1 DEF lost_frames
  <2>7. LostCountsNumbers'
    BY <2>2, <2>5, <2>6 DEF LostCountsNumbers
  <2>8. FilterExact'
    BY <1>4 DEF Reports, FilterExact
  <2>. QED  BY <2>3, <2>4, <2>7, <2>8 DEF Reports
<1>. QED  BY <1>5, <1>6

\* parse_mac takes a frame: the other handlers do not notice.
LEMMA ParseStep ==
    ASSUME IInv, Parse
    PROVE  IInv'
<1>1. "parse" \in Handlers /\ Take("parse") /\ "from_halow" \in Handlers \ {"parse"}
  BY DEF Handlers, Parse
<1>2. running' \in [Own \cup {Receiver} -> BOOLEAN] /\ alive' \in BOOLEAN
  BY DEF Parse, IInv, Typed
<1>3. EncapRemembers'
  <2>1. d_last_seq' = d_last_seq /\ BeforeNext("from_halow")' = BeforeNext("from_halow")
    BY <1>1, OtherQueue DEF Parse, IInv
  <2>. QED  BY <2>1 DEF EncapRemembers, IInv
<1>. QED  BY <1>1, <1>2, <1>3, TakeStep, ParseReports DEF IInv

\* Frames that follow one another from a station, less than a cycle of numbers
\* apart, look the same only when they are.
LEMMA SameSequenceNumber ==
    ASSUME NEW p, Numbered(p), NEW f, Numbered(f), Before(p, f),
           p.from = f.from, f.n - p.n < SEQ
    PROVE  (f.seq_nr = p.seq_nr) <=> (p = f)
<1>1. /\ p.n \in Nat /\ f.n \in Nat
      /\ p.n % SEQ \in Nat /\ f.n % SEQ \in Nat
      /\ Fragment(p) \in 0 .. 15 /\ p.seq_nr = 16 * (p.n % SEQ) + Fragment(p)
      /\ Fragment(f) \in 0 .. 15 /\ f.seq_nr = 16 * (f.n % SEQ) + Fragment(f)
  BY DivMod DEF Numbered, Sent, Frames, Fragment
<1>2. p.n <= f.n /\ (p.n = f.n => p = f \/ Fragment(p) < Fragment(f))
  BY DEF Before, Continues
<1>3. ASSUME f.seq_nr = p.seq_nr
      PROVE  p = f
  <2>1. p.n % SEQ = f.n % SEQ /\ Fragment(p) = Fragment(f)
    BY <1>1, <1>3
  <2>2. p.n = f.n
    BY <1>1, <1>2, <2>1, SameNumber
  <2>. QED  BY <1>1, <1>2, <2>1, <2>2
<1>. QED  BY <1>3

\* What ether_encap makes of the frame it takes.
LEMMA FromHalowReports ==
    ASSUME IInv, FromHalow
    PROVE  Reports' /\ EncapRemembers'
<1>. USE DEF IInv
<1>. DEFINE e == Taken("from_halow")
            f == e.frame
            p == e.after
<1>0. "from_halow" \in Handlers /\ Take("from_halow")
  BY DEF Handlers, FromHalow
<1>1. PICK nr \in seq_nr(f) :
         /\ d_last_seq' = nr
         /\ filtered' = [kind |-> Verdict(f, nr), of |-> e]
  BY DEF FromHalow
<1>2. /\ e \in Entries
      /\ BeforeNext("from_halow") = p
      /\ BeforeNext("from_halow")' = f
      /\ Before(p, f)
  <2>1. inbox["from_halow"] # <<>>
    BY <1>0 DEF Take
  <2>. QED  BY <1>0, <2>1, TakeQueue DEF NoGap, BeforeNext, InOrder
<1>3. /\ f \in Sent /\ f.n \in Nat /\ p \in Maybe
      /\ f.seq_nr \in 0 .. 16 * SEQ - 1
      /\ Numbered(f) <=> f.size # "short"
      /\ p # Nothing => (Numbered(p) <=> p.size # "short")
  BY <1>2, DivMod DEF Entries, Sent, Frames, Numbered, Maybe
<1>4. lost' = lost
  BY DEF FromHalow
<1>. HIDE DEF e
<1>5. EncapRemembers'
  <2>1. f # Nothing
    BY <1>3, NothingIsNoFrame
  <2>2. Numbered(f) => nr = f.seq_nr
    BY <1>3 DEF seq_nr
  <2>3. nr \in Beyond \cup 0 .. 16 * SEQ - 1
    BY <1>3 DEF seq_nr
  <2>. QED  BY <1>1, <1>2, <2>1, <2>2, <2>3 DEF EncapRemembers, Numbered
<1>6. ASSUME f.size # "short",
             p = Nothing \/ (p.size # "short" /\ p.from = f.from
                               /\ f.n - p.n < SEQ)
      PROVE  (nr = d_last_seq) <=>
                IF p = Nothing THEN f.seq_nr = FIRST_SEQ ELSE p = f
  <2>1. Numbered(f) /\ nr = f.seq_nr
    BY <1>3, <1>6 DEF seq_nr
  <2>2. CASE p = Nothing
    BY <1>2, <2>1, <2>2 DEF EncapRemembers
  <2>3. CASE p # Nothing
    <3>1. Numbered(p) /\ p.from = f.from /\ f.n - p.n < SEQ
      BY <1>3, <1>6, <2>3
    <3>2. d_last_seq = p.seq_nr
      BY <1>2, <3>1 DEF EncapRemembers
    <3>3. (f.seq_nr = p.seq_nr) <=> (p = f)
      BY <1>2, <2>1, <3>1, SameSequenceNumber
    <3>. QED  BY <2>1, <2>3, <3>2, <3>3
  <2>. QED  BY <2>2, <2>3
<1>7. FilterExact'
  <2>. DEFINE seen == IF p = Nothing THEN f.seq_nr = FIRST_SEQ ELSE p = f
  <2>. SUFFICES ASSUME f.size # "short",
                       p = Nothing \/ (p.size # "short" /\ p.from = f.from
                                         /\ f.n - p.n < SEQ)
                PROVE  /\ (filtered'.kind = "seen") = seen
                       /\ (filtered'.kind = "to tap") =
                            (~seen /\ f.size = "full"
                              /\ f.kind \in {"data", "qos"})
                       /\ (filtered'.kind = "crash") =
                            (~seen /\ f.size = "stub")
    BY <1>1 DEF FilterExact
  <2>1. filtered'.kind = Verdict(f, nr)
    BY <1>1
  <2>2. (nr = d_last_seq) <=> seen
    BY <1>6
  <2>. HIDE DEF seen
  <2>. QED  BY <2>1, <2>2 DEF Verdict
<1>8. LostCountsNumbers' /\ (lost # Nothing => lost.lost_frames \in 0 .. SEQ - 1)'
  BY <1>4 DEF Reports, LostCountsNumbers
<1>. QED  BY <1>5, <1>7, <1>8 DEF Reports

\* ether_encap takes a frame: the other handlers do not notice.
LEMMA FromHalowStep ==
    ASSUME IInv, FromHalow
    PROVE  IInv'
<1>1. "from_halow" \in Handlers /\ Take("from_halow") /\ "parse" \in Handlers \ {"from_halow"}
  BY DEF Handlers, FromHalow
<1>2. running' \in [Own \cup {Receiver} -> BOOLEAN] /\ alive' \in BOOLEAN
  BY DEF FromHalow, IInv, Typed
<1>3. ParseRemembers'
  <2>1. /\ d_last_seq_no' = d_last_seq_no
        /\ CountedBeforeNext("parse")' = CountedBeforeNext("parse")
    BY <1>1, OtherQueue DEF FromHalow, IInv
  <2>. QED  BY <2>1 DEF ParseRemembers, IInv
<1>. QED  BY <1>1, <1>2, <1>3, TakeStep, FromHalowReports DEF IInv

\* mac takes a frame, and remembers nothing of it.
LEMMA PhyInStep ==
    ASSUME IInv, PhyIn
    PROVE  IInv'
<1>1. "phy_in" \in Handlers /\ Take("phy_in")
      /\ {"parse", "from_halow"} \subseteq Handlers \ {"phy_in"}
  BY DEF Handlers, PhyIn
<1>2. running' \in [Own \cup {Receiver} -> BOOLEAN] /\ alive' \in BOOLEAN
  BY DEF PhyIn, IInv, Typed
<1>3. UNCHANGED <<d_last_seq_no, d_last_seq, lost, filtered>>
  BY DEF PhyIn
<1>4. ParseRemembers' /\ EncapRemembers'
  <2>1. /\ CountedBeforeNext("parse")' = CountedBeforeNext("parse")
        /\ BeforeNext("from_halow")' = BeforeNext("from_halow")
    BY <1>1, OtherQueue DEF IInv
  <2>. QED  BY <1>3, <2>1 DEF ParseRemembers, EncapRemembers, IInv
<1>5. Reports'
  BY <1>3 DEF IInv, Reports, LostCountsNumbers, FilterExact
<1>. QED  BY <1>1, <1>2, <1>4, <1>5, TakeStep DEF IInv

\* Every step keeps the invariant.
LEMMA NextIInv == IInv /\ [Next]_vars => IInv'
<1>. SUFFICES ASSUME IInv, [Next]_vars PROVE IInv'
  OBVIOUS
<1>1. ASSUME NEW s \in Own, AppIn(s) \/ AppInTooLarge(s) PROVE IInv'
  BY <1>1, AppInStep, AppInTooLargeStep
<1>2. ASSUME NEW s \in Foreign, SendForeign(s) \/ SendFragment(s) \/ Repeat(s)
      PROVE  IInv'
  BY <1>2, SendForeignStep, SendFragmentStep, RepeatStep
<1>3. CASE Hear
  BY <1>3, HearStep
<1>4. CASE Lose
  BY <1>4, LoseStep
<1>5. CASE Parse
  BY <1>5, ParseStep
<1>6. CASE FromHalow
  BY <1>6, FromHalowStep
<1>7. CASE PhyIn
  BY <1>7, PhyInStep
<1>8. CASE UNCHANGED vars
  <2>1. UNCHANGED <<sender, onAir, history, receiver>>
    BY <1>8 DEF vars
  <2>2. Typed' /\ Numbering' /\ LastSent' /\ Newest' /\ Past' /\ Before(heard, onAir)'
    BY <2>1 DEF IInv, Typed, Numbering, LastSent, Newest, Past, Before, sender,
       history, receiver
  <2>. QED  BY <2>1, <2>2, ReceiverIdle DEF IInv
<1>. QED  BY <1>1, <1>2, <1>3, <1>4, <1>5, <1>6, <1>7, <1>8 DEF Next

-----------------------------------------------------------------------------
(* What holds of the link.                                                 *)

\* The inductive invariant holds throughout.
LEMMA Invariance == Spec => []IInv
<1>. QED  BY InitIInv, NextIInv, PTL DEF Spec

\* The counters of mac, parse_mac and ether_encap stay within the header's
\* field, in whatever order the three handlers take the frames: the reported
\* number of lost frames is never negative and never a full cycle.
THEOREM TypeCorrect == Spec => []TypeOK
<1>1. IInv => TypeOK
  <2>. SUFFICES ASSUME IInv PROVE TypeOK
    OBVIOUS
  <2>1. d_last_seq_no \in -1 .. SEQ - 1
    <3>. DEFINE p == CountedBeforeNext("parse")
    <3>1. p \in Maybe
      <4>1. CASE inbox["parse"] = <<>>
        BY <4>1 DEF IInv, Typed, CountedBeforeNext
      <4>2. CASE inbox["parse"] # <<>>
        <5>1. inbox["parse"] \in Seq(Entries)
          BY DEF IInv, Typed, Handlers
        <5>2. Len(inbox["parse"]) \in Nat \ {0}
          BY <4>2, <5>1, EmptySeq
        <5>3. inbox["parse"][1] \in Entries
          BY <5>1, <5>2, ElementOfSeq
        <5>. QED  BY <4>2, <5>3 DEF CountedBeforeNext, Entries
      <4>. QED  BY <4>1, <4>2
    <3>2. p # Nothing => p.n \in Nat
      BY <3>1 DEF Maybe, Sent, Frames
    <3>. HIDE DEF p
    <3>3. p # Nothing => p.n % SEQ \in 0 .. SEQ - 1
      BY <3>2, DivMod
    <3>4. d_last_seq_no = IF p = Nothing THEN -1 ELSE p.n % SEQ
      BY DEF IInv, ParseRemembers, p
    <3>. QED  BY <3>3, <3>4
  <2>. QED  BY <2>1 DEF IInv, Typed, EncapRemembers, Reports, TypeOK, Maybe, Sent
<1>. QED  BY <1>1, Invariance, PTL

\* parse_mac reports the right number of lost frames, in the cases the property
\* names, though mac's counter wraps at 16 bits, the header's field at 12, and
\* parse_mac only looks at data frames.
THEOREM CountsLosses == Spec => []LostCountsNumbers
<1>1. IInv => LostCountsNumbers
  BY DEF IInv, Reports
<1>. QED  BY <1>1, Invariance, PTL

\* Of the frames and fragments that a station sends one after another,
\* ether_encap skips exactly the repeated ones, passes every other data frame
\* of a whole header to the tap, and crashes on a QoS frame that is a byte
\* shorter than its headers.
THEOREM FiltersRepeats == Spec => []FilterExact
<1>1. IInv => FilterExact
  BY DEF IInv, Reports
<1>. QED  BY <1>1, Invariance, PTL
=============================================================================
