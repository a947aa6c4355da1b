------------------------------ MODULE TxFrames -----------------------------
(***************************************************************************)
(* The transmit path from messages to frames: mapper, whose output stream  *)
(* is read by chunks_to_symbols and by GNU Radio's header generator with   *)
(* signal_field as its formatter; a mux joins what they make.  Each is a   *)
(* thread of its own.                                                      *)
(*                                                                         *)
(* chunks_to_symbols and the header generator are tagged stream blocks:    *)
(* they run when as many items are there as the packet_len tag at the head *)
(* says.                                                                   *)
(***************************************************************************)
EXTENDS Mapper, FiniteSets

CONSTANT UNMAPPED  \* encodings chunks_to_symbols does not list: MCS 7

(* README.md, "it has to store a complete frame in the buffer before       *)
(* processing it".                                                         *)
ASSUME BufferAssumption == CAPACITY >= MAX_SYM /\ UNMAPPED \subseteq Encodings

VARIABLES
    symRead,   \* items chunks_to_symbols has consumed
    hdrRead,   \* items the header generator has consumed
    failed,    \* has chunks_to_symbols thrown?
    payloads,  \* packets from chunks_to_symbols to the mux
    headers,   \* packets from the header generator to the mux
    air        \* frames sent

readerVars == <<symRead, hdrRead, failed, payloads, headers, air>>
vars == <<mapperVars, readerVars>>

Init ==
    /\ MapperInit
    /\ symRead = 0
    /\ hdrRead = 0
    /\ failed = FALSE
    /\ payloads = <<>>
    /\ headers = <<>>
    /\ air = <<>>

-----------------------------------------------------------------------------

\* Items a slower reader leaves room for.
Free == CAPACITY - (Len(stream) - (IF symRead < hdrRead THEN symRead ELSE hdrRead))

\* A whole packet of n items is there for a reader.
Packet(read, n) ==
    /\ read + n <= Len(stream)
    /\ \E t \in streamTags : t.at = read /\ t.packet_len = n

\* The tags of the n items from offset read on.
TagsIn(read, n) == {t \in streamTags : read <= t.at /\ t.at < read + n}

\* The values of the "encoding" tags of a packet.
EncodingsIn(read, n) == {t.encoding : t \in TagsIn(read, n)}

\* One tag, of an encoding in the switch.
Mappable(read, n) ==
    /\ Cardinality(TagsIn(read, n)) = 1
    /\ EncodingsIn(read, n) \cap UNMAPPED = {}

\* chunks_to_symbols: d_mapping is chosen anew for each packet.
MapChunks(n) ==
    /\ ~failed
    /\ Packet(symRead, n)
    /\ Mappable(symRead, n)
    /\ \E e \in EncodingsIn(symRead, n) :
          payloads' = Append(payloads,
              [mapped |-> e, data |-> SubSeq(stream, symRead + 1, symRead + n)])
    /\ symRead' = symRead + n
    /\ UNCHANGED <<mapperVars, hdrRead, failed, headers, air>>

\* "no encoding in input stream" or "wrong encoding": its thread ends.
ThrowInChunks(n) ==
    /\ ~failed
    /\ Packet(symRead, n)
    /\ ~Mappable(symRead, n)
    /\ failed' = TRUE
    /\ UNCHANGED <<mapperVars, symRead, hdrRead, payloads, headers, air>>

\* header_formatter: the tags of the packet become the SIG field.
FormatHeader(n) ==
    /\ Packet(hdrRead, n)
    /\ \E t \in TagsIn(hdrRead, n) :
          headers' = Append(headers, [size |-> t.psdu_len, mcs |-> t.encoding])
    /\ hdrRead' = hdrRead + n
    /\ UNCHANGED <<mapperVars, symRead, failed, payloads, air>>

\* The mux joins the next header with the next payload.
Mux ==
    /\ headers # <<>>
    /\ payloads # <<>>
    /\ air' = Append(air, [size   |-> Head(headers).size,
                           mcs    |-> Head(headers).mcs,
                           mapped |-> Head(payloads).mapped,
                           data   |-> Head(payloads).data])
    /\ headers' = Tail(headers)
    /\ payloads' = Tail(payloads)
    /\ UNCHANGED <<mapperVars, symRead, hdrRead, failed>>

Clients == (Post \/ set_encoding) /\ UNCHANGED readerVars

Map == MapperWork(Free) /\ UNCHANGED readerVars

ChunksToSymbols == \E n \in 1..MAX_SYM : MapChunks(n) \/ ThrowInChunks(n)

GenerateHeader == \E n \in 1..MAX_SYM : FormatHeader(n)

Next == Clients \/ Map \/ ChunksToSymbols \/ GenerateHeader \/ Mux

Spec == Init /\ [][Next]_vars

(* Each block has a thread, which the scheduler wakes when there is input  *)
(* and room for output; clients owe nothing.                               *)
FairSpec ==
    /\ Spec
    /\ WF_vars(Map)
    /\ WF_vars(ChunksToSymbols)
    /\ WF_vars(GenerateHeader)
    /\ WF_vars(Mux)

-----------------------------------------------------------------------------

Items == [id : 1..MSGS, enc : Encodings, seed : 1..MAX_SEED, k : 1..MAX_SYM]

TypeOK ==
    /\ posted \in 0..MSGS
    /\ queue \in Seq([id : 1..MSGS, size : SIZES])
    /\ encoding \in Encodings
    /\ d_symbols \in Seq(Items)
    /\ d_symbols_offset \in 0..(MAX_SYM - 1)
    /\ d_scrambler \in 1..MAX_SEED
    /\ stream \in Seq(Items)
    /\ streamTags \subseteq [at : Nat, packet_len : 1..MAX_SYM, psdu_len : SIZES,
                             encoding : Encodings]
    /\ taken \in Seq([id : 1..MSGS, size : SIZES])
    /\ symRead \in 0..Len(stream)
    /\ hdrRead \in 0..Len(stream)
    /\ failed \in BOOLEAN
    /\ payloads \in Seq([mapped : Encodings, data : Seq(Items)])
    /\ headers \in Seq([size : SIZES, mcs : Encodings])
    /\ air \in Seq([size : SIZES, mcs : Encodings, mapped : Encodings, data : Seq(Items)])

\* Messages taken by the mapper and not yet on the air, then those in its queue.
Waiting == SubSeq(taken, Len(air) + 1, Len(taken)) \o queue

Queue == INSTANCE TxQueue WITH inbox <- Waiting

(* The transmitter is a queue of frames: what goes on the air is the       *)
(* messages in order, each whole, with a header and a constellation that   *)
(* match its coding, although pieces of frames, three readers of the       *)
(* stream and a set_encoding at any time come in between.                  *)
ImplementsTxQueue == Queue!TxSpec

(* chunks_to_symbols fails on no packet but one of an encoding that it     *)
(* does not list: it always finds exactly one "encoding" tag.              *)
OneEncodingTag ==
    failed => \E t \in streamTags : t.at = symRead /\ t.encoding \in UNMAPPED

(* Every message is sent or refused in the end, also after one that was    *)
(* too large ended a call of the mapper without output, and whatever the   *)
(* order in which the blocks run (unless chunks_to_symbols has failed).    *)
EverySent ==
    \A id \in 1..MSGS :
        posted >= id ~> failed \/ \A i \in 1..Len(Waiting) : Waiting[i].id # id

(* examples/halow_tx.grc:48 and 54: the user can choose "64QAM 5/6",       *)
(* option 7, which is in the mapper's enum Encoding: the transmitter runs  *)
(* at every encoding that there is.                                        *)
EveryEncodingSent == ~failed

=============================================================================
