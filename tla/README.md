# TLA+ models of gr-ieee802-11ah

An IEEE 802.11ah ("Wi-Fi HaLow", 1 MHz) transceiver for GNU Radio. Its blocks
are C++ classes that the GNU Radio scheduler runs in one thread each; they are
joined by stream buffers, whose items may carry tags, and by message queues.
What is hard to test in it is state: every block is called with as many items
as happen to be there, keeps its position in a frame in members, and goes on
from them in the next call, while the air cuts frames anywhere. This directory
models that control, checks it with TLC and proves most of its safety with TLAPS.

## The system

Receive path (`examples/halow_phy_hier.grc`, top to bottom):

| part | state it keeps | operations | interacts through | what makes it correct |
|---|---|---|---|---|
| `sync_short` | `d_state`, `d_plateau`, `d_copied` | `general_work`: search a plateau of the autocorrelation, copy a frame | samples out, one `halow_start` tag per frame | no false and no missed start; tags `MIN_GAP` apart; a frame at most `MAX_SAMPLES` long |
| `sync_long` | `d_state`, `d_offset`, `d_count`, `d_frame_start`, `d_cor`, frequency estimates | `general_work`: search (SYNC), copy without guard intervals (COPY), pad (RESET) | reads the tags of `sync_short` and a copy of its samples delayed by 238, writes its own tags | never throws; symbols whole, in place, of one frame; own frequency estimate; no stall |
| `frame_equalizer` | symbol and SIG counters, `d_frame_symbols`, the equalizer object | `general_work`: train, decode SIG, equalise data; `set_algorithm`, `set_bandwidth`, `set_frequency` from other threads | reads `halow_start`, puts a frame's metadata as tags on its first data symbol | data divided by the frame's own channel; tags on the right symbol; nothing after the end |
| equalizers `ls`, `comb`, `lms`, `sta` | `d_H` | `equalize`, per symbol | called by `frame_equalizer` | estimate restarts with each frame |
| `decode_mac` | `d_frame`, `d_ofdm`, `copied`, `d_encoded_bits`, `d_meta` | `general_work`: enter tags, collect symbols, `decode`, publish | message to the MAC | a frame received whole is published, with its own metadata |
| Viterbi decoder | metrics, paths, traceback ring, puncturing parameters | `decode`, `reset` | called by `decode_mac` and `frame_equalizer` | a frame with few errors decodes to what was sent; metrics stay in their byte; buffers of one frame do not leak into the next |
| `parse_mac` | `d_last_seq_no` | `parse` | message in, annotated message out | lost frames counted right |
| `ether_encap` | `d_last_seq` | `from_halow`, `from_tap` | tap device, MAC | duplicates filtered, nothing else |

Transmit path:

| part | state it keeps | operations | interacts through | what makes it correct |
|---|---|---|---|---|
| `mac` | `d_seq_nr`, `d_psdu` | `app_in`, `phy_in` | messages | consecutive sequence numbers, frames that fit |
| `mapper` | message queue, `d_symbols`, `d_symbols_offset`, `d_scrambler`, `d_ofdm` | `general_work`, `set_encoding` (other thread) | byte stream with `packet_len`, `encoding`, `psdu_len` tags | frames in order and whole, tagged with what they were modulated with |
| `signal_field` | none | `header_formatter` | called by the header generator | what it writes, `parse_signal` reads |
| `chunks_to_symbols` | `d_mapping` | `work`, once per frame | reads `encoding` | the frame's constellation |
| `utils` | none | `ofdm_param`, `frame_param`, bit-level steps | called by all | sizes agree; each step is undone by the receiver's inverse |

Beside the transceiver: `python/utils.py` estimates how many symbols a payload
takes; `utils/constellations.py` tests the decision makers with noise; and the
largest python part, `docs/doxygen`, takes the comments of the C++ headers out of
Doxygen's XML and puts them into the docstrings of the python bindings. It
consists of classes generated from Doxygen's schema (`doxyxml/generated`), the
objects a caller sees (`doxyxml/base.py`, `doxyindex.py`, `text.py`) and the
script `update_pydoc.py` with its operations `scrape`, `sub` and `copy`. Its
state is a growing list of members and a dictionary of docstrings; what is hard
in it is failure (a file that cannot be parsed, a name that is missing or not
unique) and order (names are looked up among what was read before).

The hard behaviours are: frames cut at any sample or symbol by the next one;
calls cut at any item; tags that outlive the frame they describe; members that
are not initialised or keep a value from the frame before; another thread
replacing the equalizer or the encoding; sizes at the edge of the SIG field's
nine length bits; frames lost or repeated on the air; buffers that keep the bits
of a longer frame; one file or one docstring that fails. `PROJECT.json` lists them
one by one, at their lines, with the property that covers each.

## Modules

| module | what it is |
|---|---|
| `FrameStream` | abstract: the stream of samples and tags `sync_short` promises to `sync_long` |
| `SyncShort` | `sync_short`, detailed; implements `FrameStream` |
| `SyncLong` | `sync_long`, fed by a `FrameStream` |
| `SymbolChannel` | the FIFO of data symbols and tags between the next two |
| `FrameEqualizer` | `frame_equalizer` and what matters of the LS equalizer |
| `DecodeMac` | `decode_mac` |
| `RxFrames` | composes `FrameEqualizer` and `DecodeMac` over `SymbolChannel` |
| `MCRxFrames` | `RxFrames` for TLC: the values a configuration cannot write |
| `OfdmParam` | `ofdm_param`, `frame_param` and the limits of `utils.h`, as operators |
| `SignalField` | `generate_signal_field`, `parse_signal` and the CRC between them |
| `Pilots` | pilots and subcarriers of the transmit flowgraph and of the receiver |
| `PythonUtils` | `python/utils.py` |
| `FrameSizes` | every PSDU size at every MCS through the computations of `mapper`, SIG field, `sync_short`, `decode_mac`, the pilots and `python/utils.py` |
| `BitCoding` | the steps of `utils.cc` from a PSDU to constellation points, and their inverses in `decode_mac` and the constellations |
| `ViterbiDecoder` | the generic Viterbi decoder, step by step |
| `CodedFrames` | composes the two: frame after frame through `mapper`, the air and `decode_mac`, bit by bit |
| `MCCodedFrames` | `CodedFrames` for TLC: the frames |
| `MacLink` | `mac`, a link, `parse_mac` and `ether_encap` |
| `DoxySchema` | `doxyxml/generated`: what each class keeps of an XML element |
| `Doxyxml` | `doxyxml/base.py`, `doxyindex.py`, `text.py` |
| `UpdatePydoc` | `update_pydoc.py` |
| `MCUpdatePydoc` | `UpdatePydoc` for TLC: a small Doxygen output |
| `TxParam` | messages, encodings and what a frame is made of, for the next four |
| `TxQueue` | abstract: the queue of frames the transmitter promises its clients |
| `Mapper` | `mapper` |
| `TxFrames` | composes `Mapper` with `chunks_to_symbols`, the header generator and the mux; implements `TxQueue` |
| `MCTxFrames` | `TxFrames` for TLC: the table of rates |
| `SyncShortProofs`, `SyncLongProofs` | theorems and their proofs |
| `SyncLongFramesProofs` | more about `SyncLong`: each frame tagged, whole and in place |
| `RxFramesProofs`, `TxFramesProofs`, `MacLinkProofs` | theorems about the receiver, the transmitter and the link |
| `FrameSizesProofs` | theorems about sizes, the SIG field and the pilots |
| `CodedFramesProofs` | theorems about the coding chain and the decoder |

Variables and operators keep the names of the members and functions they
stand for. Variables marked *history* in their comment are not in the code and
guard nothing. Definitions called `X_Something` with a comment "Mutant" are
plausible bugs; no specification uses them, they show that a property is
sensitive to the code it is about.

### sync_short (`SyncShort`)

`general_work` is a loop over samples that looks at no other sample and whose
only memory is the members; so one action is one iteration, and the result does
not depend on where calls are cut. The input is one bit per sample: is the
normalised autocorrelation above the threshold. A detection ends the call
without consuming its sample, which is why `head` is looked at before it is
consumed. `SearchSample`, `SearchDetect`, `CopySample` and `CopyDetect` are the
branches of the two `case`s.

### sync_long (`SyncLong`)

Here a call is not the sum of its iterations: tags are looked up once per call
and change both the state and the number of items. So one action is one call:
`SyncMore`, `SyncDone`, `Copy`, `Reset`. Its input is all that has arrived (up
to 8192, `MAX_INPUT`), cut by the tag lookup (`NInput`); its room for output is
any number that `forecast` allows, which means `noutput <= Available` outside
SYNC. The call that finds a tag in COPY runs the RESET branch itself. A sample
is its offset in the stream; a frequency estimate is the frame it was computed
from; `search_frame_start` returns any offset that two peaks about a symbol
apart can give, or `SYNC_LENGTH`. The environment is `FrameStream`, and `Feed`
may write any number of samples between two calls.

The composition of the two blocks is by this interface: `SyncShort` is proved
to implement `StreamSpec`, and `SyncLong` is checked and proved with
`StreamNext` as its environment. The constants are those of the two source
files, chosen independently there; `SpacingAssumption` (`MIN_GAP >= 2 *
SYNC_LENGTH`, 640 >= 476 in `halow_phy_hier`) names what they need of each
other.

### frame_equalizer and decode_mac (`RxFrames`)

Both are loops over symbols, an action is an iteration. What is received is
arbitrary: each frame has a true number of data symbols, may be cut at any
symbol by the next, and may be followed by `AFTER` symbols of its own (padding,
or noise up to `MAX_SAMPLES`). Its SIG field decodes right, decodes wrong and
passes the 4-bit CRC, fails the CRC, or passes with an MCS that `ofdm_param`
does not know; in that last case `d_frame_symbols` has been computed from
uninitialised members and takes any of the values in `GARBAGE`. Tags put at an
output offset wait in `pending` for the next data symbol, whichever frame that
belongs to. The channel estimate `d_H` is the set of training symbols in the
mean. `set_algorithm` takes the mutex that `general_work` holds for a call, and
comes between any two iterations (calls may be of one symbol).

In `decode_mac`, `copied` has no initialiser and `d_frame` is built from
`d_ofdm` before `d_ofdm` is constructed (members are declared in that order):
`UNINITIALISED` is the set of values both may hold at first (natural
numbers; negative ones are left out). The CRC-32 is taken to
find every error: a frame is published only if the buffer holds the symbols
1 to n of one frame of n symbols, each equalised with that frame's channel.
It always is if nothing but zeros is behind these symbols, which is what
`Decodes` of `CodedFrames` checks bit by bit. The decoder reads on behind the
frame's end, though, and nothing clears the buffers: behind what a frame with more
coded bits has left there (`left`; `LEAVES` says which frames have more), the same
frame is published or not. `WholeFramePublished` is stated for the frames
that no such frame came before; what happens to the others is the finding
`NoiseFreeDecodes`. Frames with the same number of symbols are taken to have the
same MCS and length.

### mapper, chunks_to_symbols and the header generator (`TxFrames`)

A message is a number and a size; size 0 stands for a message that is not a
PDU, which the mapper discards. A call of the mapper with no frame in progress
loops over its queue: a message that does not end the loop (`Discard`), or ends
the call without output (`RefuseTooLarge`), is a step of its own, since the loop
keeps nothing but the queue. `StartFrame` is the rest of such a call: the frame
is coded and tagged under `d_mutex`, and as many symbols are written as there is
room for; `ContinueFrame` is a call with a frame in progress. The encoded frame
is the sequence of its symbols, each known by its message, its encoding, its
scrambler seed and its position; room is counted in symbols where the code
counts bytes.

The stream is read by two tagged stream blocks that wait for the number of items
in the `packet_len` tag at their own read position: `chunks_to_symbols`
(`MapChunks`, or `ThrowInChunks`, after which its thread is gone) and GNU
Radio's header generator, which calls `signal_field`'s `header_formatter`
(`FormatHeader`). The slower of the two bounds the mapper's room. The mux pairs
headers and payloads by arrival alone, which is where a frame could get
another's header. The refinement maps the queue of `TxQueue` to the messages
taken by the mapper and not yet on the air, followed by those in its message
port.

### Sizes, headers and pilots (`FrameSizes`)

The operators are the code's formulas with its integer divisions, 16-bit counts
and 9-bit length. The state machine lets a client send any PSDU size up to
1528 (1500 bytes and 28 of `mac.cc`'s header and FCS) at any MCS, so that TLC
enumerates all of them. `SignalField` has the 36 bits of the header and its
CRC, with the first four bits and the result inverted as in `compute_crc`;
`parse_signal` is applied to what a disturbed Viterbi decoder returns, a burst
of up to four wrong bits. `Pilots` has one period, 254 pairs, of the 683 pairs in
the flowgraph's list of pilots, the rule by which GNU Radio's
carrier allocator goes through it, and the receiver's computation.

### The coding chain (`CodedFrames`)

`BitCoding` has one operator per function of `utils.cc`, on sequences of bits
indexed from 0 as the C++ arrays are. A constellation point is a pair of odd
multiples of half the distance between neighbours, so decisions compare
integers. `decided_16qam` and `decided_64qam` are the noise test of
`utils/constellations.py`: every point, moved by anything below half a distance
on both axes.

In `ViterbiDecoder` an action (`DecodeStep`) is one round of the loop in
`decode`: two butterflies over 64 states with metrics and paths in eight bits,
and, every fourth round, a renormalisation and a byte from the ring of stored
paths. `d_store_pos` is not reset between frames and taken modulo the
traceback length of the frame's rate. `reset` has a case for every encoding but
`QAM64_5_6`, for which the decoder would go on with the parameters of the frame
before it. No transmitter of this repository sends such a frame, as
`chunks_to_symbols` throws at it, so the frames here have the other encodings
(`Decodable`). `d_depunctured` has no initialiser; `LEFT` is
the set of bits it may hold, zeros in these runs. `CodedFrames` adds the mapper's side
(`Send`), the air, which may turn one point over an axis, and `decode_mac`
(`Collect`, `Descramble`), whose bit buffer is written as far as a frame reaches
and read farther.

### The link (`MacLink`)

A frame is its type, a class of lengths, its sender, its number and its
fragment number. `AppIn` gives it the low 12 bits of a 16-bit counter and
fragment 0. Stations that run other software (`Foreign`) number management and
data frames alike, send further fragments of a frame under its number, send
control frames without a number, and repeat frames: this receiver never
acknowledges. A frame
is lost or decoded; a decoded one goes into the queues of three handlers, each
in its block's thread: `parse` (`Parse`), `from_halow` (`FromHalow`) and mac's
`phy_in` (`PhyIn`). An exception in a handler ends its block's thread, here for
a payload that is too large (`AppInTooLarge`) and for a frame shorter than a
header (`PhyIn`). `ether_encap` reads the number of such a frame from behind its
end: any of `Beyond`. `d_last_seq` starts from 123 (`FIRST_SEQ`), which is
number 7, fragment 11. A QoS frame of 33 bytes (size class `stub`) passes
`ether_encap`'s test of its length, and 34 bytes are stripped from it: the
`memcpy` of a `size_t` of -1 ends the receiving process (`alive`).

### The docstrings of the bindings (`UpdatePydoc`)

`DoxySchema` has one definition per generated class: the attributes it keeps,
its single and repeated fields and the class each is built as, and whether it
keeps its content in document order (`Mixed`). `Build` is `factory` and `build`
of them all. A second table has what each constructor gives a fresh object; an
element without a child keeps that. In `Doxyxml`, an object of `doxyindex.py`
is a record of its class, its name, its text and its members; `Unparsed` stands
for one whose file expat could not read. The actions of `UpdatePydoc` are the
rounds of `get_docstrings_dict`'s loops, in their order, then `sub` or `copy`. A
name is a sequence of components, a component a sequence of the bits between
underscores, since both `make_name` and the placeholders join and split them.

## What the runs check

| run | distinct states | checks |
|---|---|---|
| `SyncShort` | 1 505 | `ImplementsFrameStream` (refinement), `TagOnlyOnPlateau`, `NoPlateauDropped`, `CopiedSinceTag`, `TypeOK` |
| `SyncLong` | 161 523 | `NoThrow`, `TagsAligned`, `WindowFromTag`, `SymbolsIntact`, `CompleteUpToDelay`, `OneTagPerFrame`, `FrequencyOfFrame`, `FrameAnnounced` (liveness), `TypeOK` |
| `MCRxFrames` | 7 192 659 | `WholeFramePublished`, `OwnMetadata`, `TagsOnFirstSymbol`, `OwnChannel`, `AtMostOneStray`, `TypeOK` |
| `MCTxFrames` | 12 375 | `ImplementsTxQueue` (refinement), `OneEncodingTag`, `EverySent` (liveness), `TypeOK` |
| `FrameSizes` | 13 761 | `SymbolBufferExact`, `DecoderFits`, `OnlyLongestRefused`, `OnlyLongestCut`, `SigErrorsFound`, `PilotsExpected`, `SymbolsHold` |
| `MacLink` | 2 367 408 | `LostCountsNumbers`, `FilterExact`, `TypeOK` |
| `MCCodedFrames` | 2 298 | `Decodes`, `SlicedAsSent`, `DecidesWithinLevel`, `TypeOK` |
| `MCUpdatePydoc` | 21 470 | `NothingLost`, `PlaceholdersFilled` |

Four more runs check one property each that a comment, a declaration or an
example of the repository states and the code violates; see *Findings*.

**Bounds.** `SyncShort`: the plateau length is the real one (2); `MIN_GAP` 4 and
`MAX_SAMPLES` 9 keep their order and leave room for a plateau before, at and
after both; 20 samples hold two frames of full length and a third start, so a
plateau can span the end of a frame. `SyncLong`: symbols of 3 samples with 1 of
guard interval, a search of 4 samples (two peaks fit, and `SYNC_LENGTH` is not a
multiple of the symbol), a delay as long as the search as in the code, calls of
at most 6 samples and 3 outputs, so that a search takes several calls and a
symbol is cut by calls in every way; 32 samples hold three to four cut frames,
or one of full length and one more. `MIN_GAP` is exactly `2 * SYNC_LENGTH`, the
least the assumption allows. `MCRxFrames`: three frames (an old one, one that is
cut or refused, and one that must survive both), of 1 to 3 data symbols with
`MAX_SYM` 2, so that frames are refused and a frame follows a longer one or
none; 2 training symbols and 1 SIG symbol instead of 4 and 6 keep the first, the
later and the last of each field apart (with one SIG symbol the first is the
last: the count's reset, not its length, is what matters); two symbols behind
each frame, so that one stray symbol and its successor can be told apart; a FIFO
of 1, which keeps the order of symbols as a longer one does (the theorems hold
for any; `TooLargeDropped` is found with 2). `MCTxFrames`: three messages (one
in pieces on the stream, one coded and waiting, one in the queue); sizes that
are no PDU, that fit at every encoding and that are too large at one of them; a
seed that wraps within them; a buffer of 3 symbols for frames of 1 or 2, so that
pieces of two frames meet in it; one encoding of half the rate, one that
`chunks_to_symbols` does not list. `FrameSizes` has the real numbers and all
inputs; bursts of errors are tried on every 37th length at every MCS, at every
place of the header. `MacLink`: two sequence numbers instead of 4096 and a
counter that wraps with them, three frames per station, so that numbers are used
again; two fragments of 16; a `d_last_seq` that a second fragment may match at
first; one station with mac.cc and one without; queues of one frame, so that
handlers can be a frame apart. `MCCodedFrames`: two frames of 2 to 5 bytes out
of six, at rates 1/2, 2/3 and 3/4 and every constellation, short enough for the
decoder to read beyond the first frame's bits; the puncturing of 3/4 and the
traceback ring wrap within them. Whether any one error is corrected depends on
the place and the data: these are examples, the argument for all is the code's
free distance. `MCUpdatePydoc`: eleven compounds of every kind the script treats
differently, a class with overloads, an operator and a parameter, a header and a
namespace that share a function, docstrings that begin with two octal digits,
with another digit, or hold a bracket; every index of up to four of these
compounds, in Doxygen's order, and any one file broken.

**Fairness.** `SyncLong` assumes weak fairness of `Work`, one call of
`sync_long`; `MCTxFrames` of `Map`, `ChunksToSymbols`, `GenerateHeader` and
`Mux`, one step of each block. A GNU Radio block has a thread that calls it again whenever its
forecast is met and there is room downstream, which is what `Work`'s guards
say; room appears because everything downstream consumes. Nothing is assumed of
the environment: the air may stop at any sample, clients need not post
nor ever change the encoding. `FrameAnnounced` is stated as
"infinitely often all frames whose training fields arrived are announced",
which survives a stream that keeps growing. `EverySent` ends when
`chunks_to_symbols` has thrown: its thread does not come back.

`EverySent` rests on `BufferAssumption`: the mapper's output buffer holds a
whole frame, which the repository's `README.md:86` asks for (683 symbols of 24
bytes are far below GNU Radio's default buffer).

`CHECK_DEADLOCK FALSE` is set in every configuration since a recording ends,
the stream of the model is finite, and a receiver without input has nothing
to do.

## Findings

* `TooLargeDropped`: refusing a frame in `decode_mac.cc:92` leaves the frame
  before it active. If that one was cut, as in the run's trace after the first of
  its two symbols, the refused frame's symbols fill it up and it is decoded. No
  wrong frame is published only because its checksum will not match.
* `LengthAnnounced`: the mapper sends PSDUs of 512 octets and more, with their
  length modulo 512 in the SIG field.
* `EveryEncodingSent`: `chunks_to_symbols` has no case for MCS 7, which
  `halow_tx.grc` offers as "64QAM 5/6"; the transmitter stops at the first
  frame sent with it (`puncturing` has no case for it either, and leaves its
  output zero).
* `NoiseFreeDecodes`: `decode_mac.cc:273` clears the bit buffer once. The
  decoder reads beyond a frame's own bits before it gives its last byte; behind
  a longer frame it finds that frame's bits there, and a frame received without
  error comes out wrong. `Decodes` shows that with zeros there it does not.

Where the code differs from what it seems to intend and a property says exactly
how far:

* One symbol after the last data symbol is equalised and sent on
  (`frame_equalizer_impl.cc:158`), never two: `AtMostOneStray`.
* `MAX_SYM` truncates where `frame_param` takes a ceiling; of the PSDUs
  `utils.h:47` allows exactly 511 octets at MCS 10 are refused:
  `OnlyLongestRefused`.
* `sync_short`'s `MAX_SAMPLES` leaves out the service and tail bits; exactly a
  frame of 510 octets at MCS 10 is cut: `OnlyLongestCut`.
* The list of pilots in `halow_phy_hier.grc` ends with the 683rd symbol, while
  the SIG field's six symbols go through the same carrier allocator: frames
  from 507 octets on at MCS 10 end with pilots the receiver does not expect:
  `PilotsExpected`.
* MCS 5 is sliced as 16QAM (`utils.cc:83`) and cannot be received:
  `SlicedAsSent`.
* `update_pydoc.py:288` puts a docstring right behind the group reference `\1`.
  If it starts with two octal digits, as "16QAM" does, `re` reads `\116`, the
  character `N`: the substitution succeeds, and the declaration is gone from the
  generated header. These docstrings, and no others, do that:
  `PlaceholdersFilled`.

Observations without a property of their own:

* What `in_delayed` still holds when the next tag arrives is lost
  (`CompleteUpToDelay` bounds it by the delay, 238 samples), so that the last
  symbols of a frame are lost if the next frame's plateau is closer than that.
* The `default` label of `ofdm_param`'s switch is misspelt (`utils.cc:110`), so its
  `assert` is never reached.
* The comment at `viterbi_decoder_generic.cc:412`, "Initialize starting metrics to
  prefer 0 state", describes metrics that all start at 0.
* `parse_mac` reports 4095 lost frames for a repeated one, counts skipped
  numbers of management frames as lost, and mixes senders (`parse_mac.cc:343`).
  `ether_encap`'s filter mixes senders too: the first frames of two
  transceivers that both start from 0 count as one "already seen"
  (`ether_encap_impl.cc:56`), and a repetition behind a frame of another station
  passes. The premises of `LostCountsNumbers` and `FilterExact` name these cases.
* In `halow_transceiver.grc` (1246-1260) neither ether_encap's "from halow" nor
  mac's "app out" is connected.
* A header or namespace whose XML is malformed ends the `scrape`: the parsed
  data are used before `_error` is looked at (`doxyindex.py:198`, `:219`). A class's
  costs only itself. An unknown kind in the index, a friend `make_...` without a
  parsed function, and an ambiguous make function or header end it as well; a
  missing header does not (`update_pydoc.py:167`), a second one does.
* Of overloaded functions only the first is kept (`base.py:176` takes the class of
  the element, which is always the same). Text in bold, in lists and in
  `@return` is dropped, and all parameter lists appear under "Args".
* A docstring that begins with a digit, but not with two octal ones ("8PSK"), is
  not substituted: `\18` is no group (`update_pydoc.py:288`), the error is caught
  and the placeholder stays blank. Nor is one for a placeholder whose text
  already holds a `)`.
* `ether_encap` tests for 33 bytes (`ether_encap_impl.cc:63`) and strips 34 from a
  QoS frame (`:92`): a QoS frame of exactly 33 crashes the receiver. `FilterExact`
  says that no other frame does.
* `ether_encap` skips the first frame it hears if that has number 7 and
  fragment 11, the 123 that `d_last_seq` starts from. `parse_mac` ignores
  fragment numbers and reports 4095 lost frames for a further fragment.
* The SIG field's 36 bits are coded by routines that run over the 40 bits and 80
  coded bits of whole bytes, four and eight beyond its buffers
  (`signal_field_impl.cc:47`). What is read there reaches none of the bits sent, but a build with
  assertions stops if it is not a bit (`utils.cc:205`).

## What is proved

The theorems hold for every value of the constants that the named assumptions
allow.

* `SyncLongProofs.StreamApart`: tags of a `FrameStream` are more than
  `MIN_GAP` apart. The lemma about one step is what `SyncLongProofs` uses of its
  environment.
* `SyncShortProofs`: the inductive invariant adds to `TypeOK` and
  `CopiedSinceTag` that a block outside a frame has copied either nothing or
  `MAX_SAMPLES` (without it a tag after the end of a frame could be too early),
  and ties `d_plateau` to the samples themselves: it never exceeds the run of
  samples above the threshold just consumed, and while it is not full it equals
  that run, or counts from the frame's tag. From it follow the refinement
  (`Implementation`), `NoFalseStart`, `NoMissedStart` and `CopiedCounts`.
* `SyncLongProofs`: the invariant says where the block is between calls. In SYNC
  every tag is at or after the start of the search, so with tags `2 *
  SYNC_LENGTH` apart the next tag cannot lie in it (`NeverThrows`,
  `SearchesOwnFrame`); outside SYNC `d_cor` is empty; `written - d_count` is a
  whole number of symbols, and so is `written` whenever a frame starts
  (`FramesAligned`); the two frequency estimates belong to the tag the block
  last passed (`OwnFrequency`). `TypeCorrect` is part of it. `PaddingFills` is
  the arithmetic of padding.
* `SyncLongFramesProofs`: what was written of each frame, for every way the
  scheduler cuts the stream. The invariant adds to that of `SyncLongProofs` where
  the block stands in the frame at hand (`CurrentPlace`), that `d_count` is the
  number of its samples kept so far (`Counted`), that an output tag stands where
  its frame's first sample is and tags are in order (`TagPlaces`, `InOrder`), and
  that every earlier frame has its tag (`Announced`). From it follow
  `FramesIntact`, `FramesComplete` and `EachFrameTagged`. The number of samples
  kept is a cardinality in the model; its closed form is proved by a bijection,
  since induction is not available.
* `RxFramesProofs`: two invariants joined by the stream. On the equalizer's side
  the counters follow the symbols of the frame up to its end and stop there, the
  header of a frame is known as soon as its last SIG symbol was seen, the
  estimate is the training symbols so far, and waiting tags are this frame's or
  will never be sent. In the stream each symbol is the successor of the one
  before it, or the first of a later frame once the earlier one ended
  (`Contiguous`); on `decode_mac`'s side, `copied` and the buffer are what the
  symbols taken of the last frame make them (`Following`), so that a frame whose
  header was decoded replaces whatever was incomplete before it. The buffers
  only gain bits, so a longer frame's are behind a frame from then on
  (`StaysBehind`): one they are not behind when it is complete never had them
  there, and is published. This gives
  `WholePublished`, `MetadataOwn`, `TagsOnFirst`, `OwnChannelUsed`, `OneStray` and
  `TypeCorrect`, for any number of frames, sizes, buffer and uninitialised values.
* `TxFramesProofs`: the stream of the mapper is a *log* of the frames begun: there
  is a sequence of entries (message, encoding, seed, place) that lie one behind
  the other, whose symbols and tags are the stream's; `chunks_to_symbols` and
  the header generator have each taken the first so many. The log is not a
  variable, so the invariant says that one exists and each step either keeps it
  or adds an entry. Since both readers stand where frames begin, the window of a
  `packet_len` holds exactly one frame's tags (`OneTag`), and header and payload
  number k are of the same frame: every step is one of `TxQueue`, or none
  (`Implementation`).
* `MacLinkProofs`: a handler's memory is the number of the frame before the next
  in its queue (`ParseRemembers`, `EncapRemembers`), and each queue is a run of
  decoded frames without a gap (`NoGap`). The frames of a station arrive in the
  order of their numbers and, under one number, of their fragments, and only
  the newest is repeated or continued (`LastSent`, `Newest`, `Past`, `Continues`), so
  two frames less than a cycle apart with the same 16 bits are one frame
  (`SameSequenceNumber`). `FIRST_SEQ` is any number. `LowBits` says that the wrap of the 16-bit
  counter does not show in the 12 bits, as 2^12 divides 2^16. `CountsLosses`,
  `FiltersRepeats`, `TypeCorrect`.
* `FrameSizesProofs`: integer arithmetic at each of the nine rates, for PSDUs of
  any size, where the run stops at 1528: `BuffersExact`, `DecoderAlwaysFits`,
  `LongestRefused`, `LongestCut`, `SymbolsAlwaysHold`.
  `SigAlwaysFound` is about the CRC of the SIG field: a step of its shift register
  maps different registers to different ones (`StepKeeps`), so two headers whose
  registers once differ keep differing until wrong bits meet again; a burst of at
  most four bits that begins with a wrong one leaves a difference
  (`BurstShows`, `BurstStays`), and one that reaches the CRC itself cannot
  make up for it. It holds for every PSDU and every burst, where the run tries
  bursts on every 37th length. `PilotsAlwaysExpected` compares the list of the
  flowgraph with the receiver's rule over one common period of positions and
  polarities (`PilotTable`): the two agree up to the list's last symbol
  (`PilotsMatch`), and of the next two, for which the allocator begins the list
  again, one has the wrong sign (`PilotsTurned`).
* `CodedFramesProofs`: the invariant `CodingInv`, for frames of any number, size
  and contents, with any bits in the buffers behind them:
    * *Metrics.* Two butterflies over 64 states add at most four to a metric. A
      state reaches any other in six trellis steps, and the decoder renormalises
      every eight; so the least metric then is at most 16 below the greatest, and
      the next eight steps start from 0 to 16 again. `Metrics` says after each of
      the byte's four rounds how far the states reached from the best one still
      keep up with it, and no metric exceeds 32 of the byte's 255 (`TrellisStep`).
    * *Buffers.* The decoder has read no more than `2 * n_data_bits` symbols and
      those of the bytes in its traceback (`Counting`, `ReadsWithin`), and the
      bits `decode_mac` wrote are bits since interleaving permutes a symbol's
      (`InterleavingPermutes`). With them `CodingTypeCorrect`.
    * *Decisions.* A point is a number of bits (`Bits`), and each axis is
      decided by comparisons with its distance from 0: `DecisionsHold` for noise,
      `SlicedRight` for the points that the mapper sends, which are numbers of
      the right size (`ModulatedIs`). At MCS 5 the constellation of the receiver
      has 16 points for the sender's 64, and `SlicesOther` computes which of
      them survive.

Assumptions, each with the module that declares it:

| assumption | says |
|---|---|
| `GapAssumption` (`FrameStream`) | gap and lengths are natural numbers |
| `PlateauAssumption` (`SyncShort`) | the same of the plateau and `MAX_SAMPLES` |
| `LengthAssumption` (`SyncLong`) | symbol, guard and search lengths fit each other |
| `SpacingAssumption` (`SyncLong`) | `MIN_GAP >= 2 * SYNC_LENGTH`; 640 and 476 in `halow_phy_hier` |
| `DelayAssumption` (`SyncLong`) | the delay is the search length: the flowgraph gives both blocks `sync_length - min_plateau` |
| `ChannelAssumption`, `FieldAssumption`, `DecodeMacAssumption` (`RxFrames` and its parts) | at least one frame, fields and buffers of at least a symbol; uninitialised counters are natural numbers; `LEAVES` is any relation between numbers |
| `TxAssumption`, `CapacityAssumption`, `BufferAssumption` (`TxFrames` and its parts) | sizes of messages are numbers, a frame may have a symbol, the buffer holds a longest frame |
| `MacLinkAssumption` (`MacLink`) | the counter's range is a multiple of the field's, which has two values at least; 16 fragments at most |
| `SentAssumption` (`FrameSizes`) | the largest PSDU is a number |
| `FramesAssumption` (`CodedFrames`) | frames are bytes at one of the encodings but `QAM64_5_6`, no longer than `utils.h` allows |
| `ViterbiAssumption` (`ViterbiDecoder`) | what the uninitialised `d_depunctured` holds at first are bits: a fresh page holds zeros; with other bytes the metrics may pass 255 at a frame's last bits |
| `WindowAssumption` (`CodedFrames`) | the modelled part of the buffers holds a frame's bits and what `decode` reads behind them; the code's own have 81760 |

TLC evaluates them in the runs above, and with them the assumptions of the
modules nothing is proved about; one of these, `SchemaAssumption` of
`MCUpdatePydoc`, says that the generated classes fit together (`SchemaClosed`).

Of the 40 properties of the runs that pass, 35 are proved. Model-checked only:

* `FrameAnnounced` and `EverySent`: liveness under fairness is out of the prover's
  reach.
* `Decodes` of `CodedFrames`: what the coding chain makes of a PSDU is computed by
  folds over its bits, and a statement about it needs induction over data. What
  can be said without is proved: the types and bounds of every step, the
  permutation of the interleaver, the slicing of each point.
* `NothingLost` and `PlaceholdersFilled` of `UpdatePydoc`: its modules follow XML
  elements and names into their parts with recursive operators, which the prover
  does not take.

## Not modelled

Sample arithmetic (correlations, frequency correction, phase tracking, SNR) and
the rounding of floats; the `comb`, `lms` and `sta` equalizers; the SSE version
of the Viterbi decoder; `extract_csi`, which keeps nothing; logging and
printing; the decoding of a frame at MCS 7 from a foreign sender, for which the
Viterbi decoder keeps the parameters of the frame before it; a file that the
Doxygen index names and that does not exist (a broken one is malformed XML);
the assertion of `python/utils.py:50`, that a number of symbols holds more than a
header and FCS (`SymbolsHold` is about the formulas, for every payload);
bindings, GRC descriptions, shell scripts and build files. The
simulations run the transceiver and plot what it did; `utils/channels.py` and the
other table generators print C++ source. GNU Radio's own blocks (delay, FFT,
`stream_to_vector`, header generator, carrier allocator, tagged stream mux)
appear only through how the blocks use them. `frame_equalizer`'s `set_bandwidth`
and `set_frequency` only scale arithmetic that is not modelled. Of the generated
documentation classes, `export`, `exportLiteral` and `hasContent_`, which make up
most of their text, are called by nothing in the repository.

## What is left

* An argument for `Decodes` at frames of any length would need induction over the
  trellis: that the path of the frame sent is the one of greatest metric.
* The recursive operators of `DoxySchema` and `Doxyxml` could become recursive
  functions over the bounded depth of an XML tree; theorems about what `sub`
  substitutes would then be within reach.
* The arithmetic on samples (peaks, frequency estimates, phase tracking) is left
  out throughout, see *Not modelled*.
