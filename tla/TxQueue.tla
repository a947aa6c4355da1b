------------------------------ MODULE TxQueue ------------------------------
(***************************************************************************)
(* What the transmitter promises its clients: PDUs go on the air in the    *)
(* order in which they were posted, each at most once and whole, coded,    *)
(* mapped and announced with one and the same MCS.  Only a message that    *)
(* cannot be sent (no PDU, or too large at an MCS) is refused.             *)
(***************************************************************************)
EXTENDS TxParam, SequencesExt

VARIABLES
    posted,  \* number of messages posted
    inbox,   \* messages not yet sent or refused
    air      \* frames sent

txVars == <<posted, inbox, air>>

TxInit ==
    /\ posted = 0
    /\ inbox = <<>>
    /\ air = <<>>

Post ==
    /\ posted < MSGS
    /\ posted' = posted + 1
    /\ \E size \in SIZES : inbox' = Append(inbox, Message(posted + 1, size))
    /\ UNCHANGED air

\* The next message goes on the air: the header announces its size and the MCS
\* that its symbols are coded and mapped with.
Transmit ==
    /\ inbox # <<>>
    /\ Head(inbox).size > 0
    /\ \E e \in Encodings, seed \in 1..MAX_SEED :
          /\ Fits(Head(inbox), e)
          /\ air' = Append(air, [size   |-> Head(inbox).size,
                                 mcs    |-> e,
                                 mapped |-> e,
                                 data   |-> Coded(Head(inbox), e, seed)])
    /\ inbox' = Tail(inbox)
    /\ UNCHANGED posted

\* A message that is no PDU or that does not fit is dropped from wherever it is.
Refuse ==
    /\ \E i \in 1..Len(inbox) :
          /\ inbox[i].size = 0 \/ \E e \in Encodings : ~Fits(inbox[i], e)
          /\ inbox' = RemoveAt(inbox, i)
    /\ UNCHANGED <<posted, air>>

TxNext == Post \/ Transmit \/ Refuse

TxSpec == TxInit /\ [][TxNext]_txVars

=============================================================================
