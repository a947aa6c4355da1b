------------------------------ MODULE TxParam ------------------------------
(***************************************************************************)
(* The parameters shared by the transmitter's blocks and by what they      *)
(* promise: which messages there are and how many symbols a message takes. *)
(***************************************************************************)
EXTENDS Integers, Sequences

CONSTANTS
    MSGS,       \* bound of the model: messages posted
    SIZES,      \* their sizes in data bits; 0 stands for what is not a PDU
    NDBPS,      \* data bits per symbol, a function on the encodings
    MAX_SYM,    \* utils.h: 683
    MAX_SEED    \* mapper_impl.cc: 127

Encodings == DOMAIN NDBPS

ASSUME TxAssumption ==
    /\ MSGS \in Nat
    /\ SIZES \subseteq Nat
    /\ \A e \in Encodings : NDBPS[e] \in Nat \ {0}
    /\ MAX_SYM \in Nat \ {0}
    /\ MAX_SEED \in Nat \ {0}

Message(id, size) == [id |-> id, size |-> size]

\* frame_param::n_sym
NSym(e, size) == (size + NDBPS[e] - 1) \div NDBPS[e]

Fits(m, e) == NSym(e, m.size) <= MAX_SYM

\* The modulation steps: each symbol of m's frame, with what it carries and
\* how it was coded.
Coded(m, e, seed) ==
    [k \in 1..NSym(e, m.size) |-> [id |-> m.id, enc |-> e, seed |-> seed, k |-> k]]

=============================================================================
