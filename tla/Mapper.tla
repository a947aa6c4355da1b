------------------------------- MODULE Mapper ------------------------------
(***************************************************************************)
(* mapper: takes PDUs from its message queue, codes them and writes them   *)
(* to its output stream in whatever pieces there is room for               *)
(* (src/lib/mapper_impl.cc).                                               *)
(*                                                                         *)
(* A call that finds d_symbols_offset at 0 loops over messages; the loop   *)
(* keeps nothing but the queue, so a message that does not end it is an    *)
(* action of its own, and so is the rest of the call.  The frame is coded  *)
(* and tagged under d_mutex, which set_encoding, called by other threads,  *)
(* takes as well: that part is one step.  An item of the stream stands     *)
(* for one OFDM symbol, CODED_BITS_PER_OFDM_SYMBOL bytes in the code.      *)
(***************************************************************************)
EXTENDS TxParam

CONSTANT CAPACITY  \* items of the stream buffer between mapper and its readers

ASSUME CapacityAssumption == CAPACITY \in Nat \ {0}

VARIABLES
    posted,            \* messages posted so far
    queue,             \* the message port "in"
    encoding,          \* d_ofdm.encoding
    d_symbols,         \* the frame being written
    d_symbols_offset,
    d_scrambler,
    stream,            \* every item written; written offsets are its indices
    streamTags,        \* tags written: at, packet_len, psdu_len, encoding
    taken              \* history: the messages of the frames begun

mapperVars == <<posted, queue, encoding, d_symbols, d_symbols_offset,
                d_scrambler, stream, streamTags, taken>>

MapperInit ==
    /\ posted = 0
    /\ queue = <<>>
    /\ encoding \in Encodings
    /\ d_symbols = <<>>
    /\ d_symbols_offset = 0
    /\ d_scrambler = 1
    /\ stream = <<>>
    /\ streamTags = {}
    /\ taken = <<>>

-----------------------------------------------------------------------------

\* A client posts a message, of any size, or one that is not a PDU.
Post ==
    /\ posted < MSGS
    /\ posted' = posted + 1
    /\ \E size \in SIZES : queue' = Append(queue, Message(posted + 1, size))
    /\ UNCHANGED <<encoding, d_symbols, d_symbols_offset, d_scrambler,
                   stream, streamTags, taken>>

\* Another thread, under d_mutex: for the frames begun from now on.
set_encoding ==
    /\ encoding' \in Encodings \ {encoding}
    /\ UNCHANGED <<posted, queue, d_symbols, d_symbols_offset, d_scrambler,
                   stream, streamTags, taken>>

\* delete_head_nowait of something that is not a pair: the loop goes on.
Discard ==
    /\ d_symbols_offset = 0
    /\ queue # <<>>
    /\ Head(queue).size = 0
    /\ queue' = Tail(queue)
    /\ UNCHANGED <<posted, encoding, d_symbols, d_symbols_offset, d_scrambler,
                   stream, streamTags, taken>>

\* Mutant: the message stays at the head of the queue.
RefuseTooLarge_Keeps ==
    /\ d_symbols_offset = 0
    /\ queue # <<>>
    /\ ~Fits(Head(queue), encoding)
    /\ UNCHANGED mapperVars

\* "packet too large": the message is gone and the call ends without output.
RefuseTooLarge ==
    /\ d_symbols_offset = 0
    /\ queue # <<>>
    /\ ~Fits(Head(queue), encoding)
    /\ queue' = Tail(queue)
    /\ UNCHANGED <<posted, encoding, d_symbols, d_symbols_offset, d_scrambler,
                   stream, streamTags, taken>>

\* Mutant: the seed is not brought back.
NextSeed_NoWrap == d_scrambler + 1

\* d_scrambler++, and 1 again after MAX_SEED.
NextSeed == IF d_scrambler + 1 > MAX_SEED THEN 1 ELSE d_scrambler + 1

\* The end of a call: as much of the frame as there is room for.
Output(frame, offset, room) ==
    LET left == Len(frame) - offset
        i == IF room < left THEN room ELSE left
    IN  /\ stream' = stream \o SubSeq(frame, offset + 1, offset + i)
        /\ d_symbols_offset' = IF offset + i = Len(frame) THEN 0 ELSE offset + i
        /\ d_symbols' = IF offset + i = Len(frame) THEN <<>> ELSE frame

\* Mutant: the tag is made of an encoding read after the lock was released.
Tag_Unlocked(m) ==
    \E e \in Encodings :
        streamTags' = streamTags \cup
            {[at |-> Len(stream), packet_len |-> NSym(encoding, m.size),
              psdu_len |-> m.size, encoding |-> e]}

\* The three tags at nitems_written(0).
Tag(m) ==
    streamTags' = streamTags \cup
        {[at |-> Len(stream), packet_len |-> NSym(encoding, m.size),
          psdu_len |-> m.size, encoding |-> encoding]}

\* Mutant: the test for a frame in progress is missing.
StartFrame_Anytime(room) ==
    /\ queue # <<>>
    /\ Head(queue).size > 0
    /\ Fits(Head(queue), encoding)
    /\ queue' = Tail(queue)
    /\ taken' = Append(taken, Head(queue))
    /\ Tag(Head(queue))
    /\ d_scrambler' = NextSeed
    /\ Output(Coded(Head(queue), encoding, d_scrambler), 0, room)
    /\ UNCHANGED <<posted, encoding>>

\* A PDU is coded, tagged and its first piece written.
StartFrame(room) ==
    /\ d_symbols_offset = 0
    /\ queue # <<>>
    /\ Head(queue).size > 0
    /\ Fits(Head(queue), encoding)
    /\ queue' = Tail(queue)
    /\ taken' = Append(taken, Head(queue))
    /\ Tag(Head(queue))
    /\ d_scrambler' = NextSeed
    /\ Output(Coded(Head(queue), encoding, d_scrambler), 0, room)
    /\ UNCHANGED <<posted, encoding>>

\* The next piece of the frame.
ContinueFrame(room) ==
    /\ d_symbols_offset # 0
    /\ Output(d_symbols, d_symbols_offset, room)
    /\ UNCHANGED <<posted, queue, encoding, d_scrambler, streamTags, taken>>

\* A call of general_work with room for some items.
MapperWork(free) ==
    \/ free > 0 /\ Discard
    \/ free > 0 /\ RefuseTooLarge
    \/ \E room \in 1..free : StartFrame(room) \/ ContinueFrame(room)

=============================================================================
