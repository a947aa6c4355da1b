------------------------------ MODULE MacLink ------------------------------
(***************************************************************************)
(* The blocks above the physical layer and the link between two of them:   *)
(* ether_encap and mac of a sending transceiver, and parse_mac,            *)
(* ether_encap and mac of a receiving one.  The link loses frames, other   *)
(* stations send frames of other types and repeat theirs, and the three    *)
(* receiving handlers, each in the thread of its block, take the decoded   *)
(* frames from a queue of their own.                                       *)
(*                                                                         *)
(* Two blocks make something of the sequence numbers: parse_mac counts the *)
(* numbers that were skipped, ether_encap takes a repeated number, and     *)
(* fragment number, for a repeated frame.  Neither looks at the sender.    *)
(***************************************************************************)
EXTENDS Integers, Sequences

CONSTANTS
  Stations,   \* those that can be heard
  Foreign,    \* stations of other makes; the others run mac.cc
  SEQ,        \* number of sequence numbers in a header (4096)
  SEQ_NR,     \* number of values of d_seq_nr (65536)
  FIRST_SEQ,  \* ether_encap's d_last_seq at first (123: number 7, fragment 11)
  Beyond,     \* what may be read as the number of a frame too short for one
  Receiver,   \* the receiving transceiver
  MAX_SENT,   \* bound: numbers used by a station
  MAX_FRAGMENT, \* bound: fragments after the first of a frame (of 15)
  QUEUE       \* bound: frames in the queue of a handler

ASSUME MacLinkAssumption ==
  /\ Foreign \subseteq Stations
  /\ SEQ \in Nat /\ SEQ > 1
  /\ SEQ_NR \in Nat /\ SEQ_NR > 0 /\ SEQ_NR % SEQ = 0
  /\ FIRST_SEQ \in Nat
  /\ Beyond \subseteq Nat
  /\ Receiver \notin Stations
  /\ MAX_FRAGMENT \in 0 .. 15
  /\ MAX_SENT \in Nat /\ MAX_SENT > 0 /\ QUEUE \in Nat

VARIABLES
  d_seq_nr,      \* mac: the next sequence number, per station that runs mac.cc
  running,       \* mac: its thread has not been ended by an exception
  number,        \* history: how many frames a station has numbered
  onAir,         \* the frame being transmitted, or Nothing
  last,          \* the last frame a foreign station sent, or Nothing
  heard,         \* history: the last frame decoded, or Nothing
  counted,       \* history: the last frame decoded that parse_mac counts
  alive,         \* the receiving process has not crashed
  inbox,         \* per receiving handler, the frames not yet handled
  d_last_seq_no, \* parse_mac
  d_last_seq,    \* ether_encap
  lost,          \* parse_mac: its report on the last frame, or Nothing
  filtered       \* ether_encap: what became of the last frame, or Nothing

receiver == <<alive, inbox, d_last_seq_no, d_last_seq, lost, filtered>>
sender == <<d_seq_nr, running, number, last>>
history == <<heard, counted>>
vars == <<sender, onAir, history, receiver>>

Nothing == [kind |-> "nothing"]
Handlers == {"parse", "from_halow", "phy_in"}
Own == Stations \ Foreign

-----------------------------------------------------------------------------
(* Frames: what of a frame the handlers tell apart.  "size" is a class of  *)
(* lengths without FCS: "short" < 24, "bare" 24 to 32, "stub" a QoS frame  *)
(* of 33, a byte less than its headers, "full" every other from 33 on.     *)
(* n is the frame's number before it is reduced to the header's 12 bits    *)
Frame(s, kind, size, n, nr, fragment) ==
  [kind |-> kind, size |-> size, from |-> s, n |-> n,
   seq_nr |-> 16 * nr + fragment]

(* What stations of other makes send.  Management and data frames share    *)
(* one numbering; control frames have none, and end before the field       *)
ForeignShapes ==
  {<<"data", "full">>, <<"qos", "stub">>, <<"qos", "full">>,
   <<"null", "bare">>, <<"management", "full">>, <<"control", "short">>}

IsData(f) == f.kind \in {"data", "qos", "null"}

(* mac_header::seq_nr as a handler reads it *)
seq_nr(f) == IF f.size = "short" THEN Beyond ELSE {f.seq_nr}

-----------------------------------------------------------------------------
Init ==
  /\ d_seq_nr = [s \in Own |-> 0]
  /\ running = [s \in Own \cup {Receiver} |-> TRUE]
  /\ number \in [Stations -> {0, 1}]
  /\ \A s \in Own : number[s] = 0
  /\ onAir = Nothing
  /\ last = [s \in Foreign |-> Nothing]
  /\ heard = Nothing
  /\ counted = Nothing
  /\ alive = TRUE
  /\ inbox = [h \in Handlers |-> <<>>]
  /\ d_last_seq_no = -1
  /\ d_last_seq = FIRST_SEQ
  /\ lost = Nothing
  /\ filtered = Nothing

Transmit(s, f, numbered) ==
  /\ onAir = Nothing
  /\ onAir' = f
  /\ last' = [t \in Foreign |-> IF t = s THEN f ELSE last[t]]
  /\ number' = [number EXCEPT ![s] = IF numbered THEN @ + 1 ELSE @]
  /\ UNCHANGED <<history, receiver>>

(* generate_mac_data_frame: the low 12 bits of d_seq_nr *)
DataFrame(s, size) ==
  Frame(s, "data", size, number[s], d_seq_nr[s] % SEQ, 0)

(* Mutant: the sequence number is not reduced to its 16 bits *)
AppIn_NoWrap(s) ==
  /\ running[s]
  /\ number[s] < MAX_SENT
  /\ \E size \in {"bare", "full"} : Transmit(s, DataFrame(s, size), TRUE)
  /\ d_seq_nr' = [d_seq_nr EXCEPT ![s] = @ + 1]
  /\ UNCHANGED running

(* app_in, with a message that fits a frame: a string of a few bytes, or a  *)
(* packet behind the 8 bytes that from_tap puts before it                  *)
AppIn(s) ==
  /\ running[s]
  /\ number[s] < MAX_SENT
  /\ \E size \in {"bare", "full"} : Transmit(s, DataFrame(s, size), TRUE)
  /\ d_seq_nr' = [d_seq_nr EXCEPT ![s] = (@ + 1) % SEQ_NR]
  /\ UNCHANGED running

(* app_in, with more than MAX_PAYLOAD_SIZE bytes: the exception leaves the *)
(* handler, and GNU Radio ends the thread of the block                     *)
AppInTooLarge(s) ==
  /\ running[s]
  /\ running' = [running EXCEPT ![s] = FALSE]
  /\ UNCHANGED <<d_seq_nr, number, last, onAir, history, receiver>>

(* A station of another make sends its next frame *)
SendForeign(s) ==
  /\ number[s] < MAX_SENT
  /\ \E shape \in ForeignShapes :
       Transmit(s, Frame(s, shape[1], shape[2], number[s], number[s] % SEQ, 0),
                shape[1] # "control")
  /\ UNCHANGED <<d_seq_nr, running>>

(* It goes on with the next fragment of its last frame, under that number *)
SendFragment(s) ==
  /\ last[s] # Nothing
  /\ last[s].kind \in {"data", "qos", "management"}
  /\ last[s].seq_nr % 16 < MAX_FRAGMENT
  /\ Transmit(s, [last[s] EXCEPT !.seq_nr = @ + 1], FALSE)
  /\ UNCHANGED <<d_seq_nr, running>>

(* A station of another make missed the acknowledgement, which this        *)
(* transceiver never sends, and repeats its frame under its number         *)
Repeat(s) ==
  /\ last[s] # Nothing
  /\ last[s].kind # "control"
  /\ Transmit(s, last[s], FALSE)
  /\ UNCHANGED <<d_seq_nr, running>>

-----------------------------------------------------------------------------
(* A block whose thread has ended handles nothing any more *)
Handling(h) == h = "phy_in" => running[Receiver]

(* The frame is decoded: decode_mac publishes it to the three handlers.    *)
(* Each entry of a queue remembers, as history, what was decoded before    *)
Hear ==
  /\ alive
  /\ onAir # Nothing
  /\ \A h \in Handlers : Handling(h) => Len(inbox[h]) < QUEUE
  /\ inbox' = [h \in Handlers |-> IF ~Handling(h) THEN <<>> ELSE
       Append(inbox[h], [frame |-> onAir, after |-> heard,
                         afterData |-> counted])]
  /\ heard' = onAir
  /\ counted' = IF IsData(onAir) THEN onAir
                ELSE counted
  /\ onAir' = Nothing
  /\ lost' = Nothing
  /\ filtered' = Nothing
  /\ UNCHANGED <<sender, alive, d_last_seq_no, d_last_seq>>

(* The frame is not decoded *)
Lose ==
  /\ onAir # Nothing
  /\ onAir' = Nothing
  /\ UNCHANGED <<sender, history, receiver>>

Taken(h) == Head(inbox[h])
Take(h) ==
  /\ alive
  /\ inbox[h] # <<>>
  /\ inbox' = [inbox EXCEPT ![h] = Tail(@)]
  /\ UNCHANGED <<onAir, history, d_seq_nr, number, last>>

(* Mutant: a number below the last one is taken for no loss *)
lost_frames_NoWrap(seq_no) ==
  LET skipped == seq_no - d_last_seq_no - 1
  IN  IF skipped < 0 THEN 0 ELSE skipped

(* parse_data: numbers skipped since the last data frame *)
lost_frames(seq_no) ==
  LET skipped == seq_no - d_last_seq_no - 1
  IN  IF skipped < 0 THEN skipped + SEQ ELSE skipped

(* parse: only data frames of a whole header are counted *)
Parse ==
  /\ Take("parse")
  /\ LET f == Taken("parse").frame
     IN  IF f.size = "short" \/ ~IsData(f)
         THEN UNCHANGED <<d_last_seq_no, lost>>
         ELSE LET seq_no == f.seq_nr \div 16
              IN  /\ lost' = [kind |-> "report", of |-> Taken("parse"),
                              lost_frames |-> lost_frames(seq_no)]
                  /\ d_last_seq_no' = seq_no
  /\ UNCHANGED <<alive, running, d_last_seq, filtered>>

(* ether_encap's from_halow: what becomes of a frame.  33 bytes pass the   *)
(* test of its length, and 34 are stripped from a QoS frame: of one of 33  *)
(* bytes, memcpy copies a size_t of -1                                     *)
Verdict(f, nr) ==
  IF nr = d_last_seq THEN "seen"
  ELSE IF f.size = "stub" THEN "crash"
  ELSE IF f.kind \in {"data", "qos"} /\ f.size = "full" THEN "to tap"
  ELSE "ignored"

(* Mutant: only the number of a frame that is passed on is remembered *)
FromHalow_OnlyPassed ==
  /\ Take("from_halow")
  /\ \E nr \in seq_nr(Taken("from_halow").frame) :
       LET kind == Verdict(Taken("from_halow").frame, nr)
       IN  /\ d_last_seq' = IF kind = "to tap" THEN nr ELSE d_last_seq
           /\ filtered' = [kind |-> kind, of |-> Taken("from_halow")]
           /\ alive' = (kind # "crash")
  /\ UNCHANGED <<running, d_last_seq_no, lost>>

FromHalow ==
  /\ Take("from_halow")
  /\ \E nr \in seq_nr(Taken("from_halow").frame) :
       LET kind == Verdict(Taken("from_halow").frame, nr)
       IN  /\ d_last_seq' = nr
           /\ filtered' = [kind |-> kind, of |-> Taken("from_halow")]
           /\ alive' = (kind # "crash")
  /\ UNCHANGED <<running, d_last_seq_no, lost>>

(* mac's phy_in: 24 bytes are stripped from every frame.  Of a shorter one  *)
(* the length left is negative in a size_t: the exception of the allocation *)
(* ends the block's thread, and with it what it sends                       *)
PhyIn ==
  /\ running[Receiver]
  /\ Take("phy_in")
  /\ running' = [running EXCEPT
       ![Receiver] = Taken("phy_in").frame.size # "short"]
  /\ UNCHANGED <<alive, d_last_seq_no, d_last_seq, lost, filtered>>

Next ==
  \/ \E s \in Own : AppIn(s) \/ AppInTooLarge(s)
  \/ \E s \in Foreign : SendForeign(s) \/ SendFragment(s) \/ Repeat(s)
  \/ Hear
  \/ Lose
  \/ Parse
  \/ FromHalow
  \/ PhyIn

Spec == Init /\ [][Next]_vars

-----------------------------------------------------------------------------
(* Types, and the ranges of the two counters *)
Frames == [kind : {"data", "qos", "null", "management", "control"},
           size : {"short", "bare", "stub", "full"}, from : Stations,
           n : 0 .. MAX_SENT, seq_nr : 0 .. 16 * SEQ - 1]
TypeOK ==
  /\ d_seq_nr \in [Own -> 0 .. SEQ_NR - 1]
  /\ running \in [Own \cup {Receiver} -> BOOLEAN]
  /\ number \in [Stations -> 0 .. MAX_SENT]
  /\ {onAir, heard, counted} \subseteq Frames \cup {Nothing}
  /\ alive \in BOOLEAN
  /\ \A h \in Handlers : Len(inbox[h]) <= QUEUE
  /\ d_last_seq_no \in -1 .. SEQ - 1
  /\ d_last_seq \in {FIRST_SEQ} \cup Beyond \cup 0 .. 16 * SEQ - 1
  /\ lost # Nothing => lost.lost_frames \in 0 .. SEQ - 1

(* The number of lost frames that parse_mac reports is right: for a data    *)
(* frame that comes after another of the same station it is the number of  *)
(* numbers that station used in between, as long as they are fewer than    *)
(* there are; for the first data frame of a mac.cc it is the number of      *)
(* frames before it.  (Not so for a repeated frame or a further fragment,  *)
(* after another station's frame, and where a management frame came between) *)
LostCountsNumbers ==
  lost # Nothing =>
    LET f == lost.of.frame
        p == lost.of.afterData
    IN  /\ (p # Nothing /\ p.from = f.from /\ f.n - p.n \in 1 .. SEQ) =>
              lost.lost_frames = f.n - p.n - 1
        /\ (p = Nothing /\ f.from \in Own /\ f.n < SEQ) =>
              lost.lost_frames = f.n

(* ether_encap passes what it should: of frames of one station heard one   *)
(* after the other, less than a cycle of numbers apart, it skips exactly    *)
(* those that repeat the one before, of any type, and no further fragment; *)
(* the first frame heard it skips only under the number and fragment that  *)
(* d_last_seq has from the start; of the others every data frame reaches   *)
(* the tap, but a QoS frame of 33 bytes, and only that, crashes it         *)
FilterExact ==
  filtered # Nothing =>
    LET f == filtered.of.frame
        p == filtered.of.after
        seen == IF p = Nothing THEN f.seq_nr = FIRST_SEQ ELSE p = f
    IN  (f.size # "short" /\ (p = Nothing \/
           (p.size # "short" /\ p.from = f.from /\ f.n - p.n < SEQ))) =>
          /\ (filtered.kind = "seen") = seen
          /\ (filtered.kind = "to tap") =
               (~seen /\ f.size = "full" /\ f.kind \in {"data", "qos"})
          /\ (filtered.kind = "crash") = (~seen /\ f.size = "stub")
=============================================================================
