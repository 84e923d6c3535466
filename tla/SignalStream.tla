---------------------------- MODULE SignalStream -----------------------------
(***************************************************************************)
(* CounterStream with the frames' bits: the node writes its counter and    *)
(* one signal where the DBC puts them, the parser finds both with          *)
(* extract_raw_signal (CanMessage::validateRollingCounter, parse and       *)
(* Signal::update in src/src/can_parser.cpp).                              *)
(***************************************************************************)
EXTENDS CounterStream, SignalCodec

CONSTANTS CounterLength,    \* rolling_counter_length_
          CounterStarts,    \* where the counter may be
          Patterns          \* the rest of the frames

ASSUME StreamAssumption ==
    /\ CounterLength \in 1 .. 8 /\ Modulus = 2 ^ CounterLength
    /\ CounterStarts \subseteq 0 .. Width - CounterLength
    /\ Patterns \subseteq Payloads

VARIABLES
    counter_start,  \* rolling_counter_start_
    sg,             \* the signal, as the DBC has it
    agrees          \* history: the value read from the last accepted frame is
                    \* the one the node wrote

layout == <<counter_start, sg>>
signalVars == <<streamVars, layout, agrees>>
-----------------------------------------------------------------------------
BitsOf(s) == {Walk(s)[i] : i \in 0 .. s.length - 1}

CounterBits(start) == start .. start + CounterLength - 1

\* The value the node wrote there.
Meant(data, s) ==
    LET number(k) == Walk(s)[Place(s, k)]
        bit(k) == data[number(k) \div ByteBits][number(k) % ByteBits]
    IN  [k \in Bit |-> IF k < s.length THEN bit(k) ELSE s.is_signed /\ bit(s.length - 1)]

\* A frame with the counter next in it.
Frame(pattern) ==
    [i \in 0 .. Bytes - 1 |-> [b \in 0 .. ByteBits - 1 |->
        LET n == i * ByteBits + b
        IN  IF n \in CounterBits(counter_start)
              THEN (next \div 2 ^ (n - counter_start)) % 2 = 1
              ELSE pattern[i][b]]]
-----------------------------------------------------------------------------
SignalInit ==
    /\ Init
    /\ counter_start \in CounterStarts
    /\ sg \in {s \in Configs :
                  BitsOf(s) \subseteq Bit \ CounterBits(counter_start)}
    /\ agrees = TRUE

\* The number in a word, cut to a uint8_t.
Value(word) ==
    LET bit(k) == IF k \in Bit /\ word[k] THEN 2 ^ k ELSE 0
    IN  bit(0) + bit(1) + bit(2) + bit(3) + bit(4) + bit(5) + bit(6) + bit(7)

\* What the parser reads as the counter.
CounterOf(data) ==
    Value(extract_raw_signal(data, [start_bit |-> counter_start, length |-> CounterLength,
                                    is_big_endian |-> FALSE, is_signed |-> FALSE]))

\* handleFrame: an accepted frame updates the signal, a rejected one does not.
Deliver(data) ==
    \/ /\ Accept(CounterOf(data))
       /\ \E raw \in Extractions(data, Registered(sg)) : agrees' = (raw = Meant(data, sg))
       /\ UNCHANGED layout
    \/ /\ Reject(CounterOf(data))
       /\ UNCHANGED <<layout, agrees>>

SignalNext ==
    \/ \E pattern \in Patterns : Deliver(Frame(pattern))
    \/ Lose /\ UNCHANGED <<layout, agrees>>

SignalSpec ==
    SignalInit /\ [][SignalNext]_signalVars
        /\ WF_signalVars(\E pattern \in Patterns : Deliver(Frame(pattern)))
-----------------------------------------------------------------------------
(***************************************************************************)
(* Properties.                                                             *)
(***************************************************************************)

\* Wherever the DBC puts a signal, of any length and in either byte order, the
\* value shown is the one the node wrote into the last accepted frame: the code
\* generator's start bit, the extraction and its sign extension fit together
\* (dbc_codegen.py:103, protocol.cpp:28), and no shift is undefined.
ShownAsMeant == agrees

\* Wherever the counter is, the parser reads the number the node wrote: seen
\* without its bits, this is CounterStream.
IsCounterStream == Spec
=============================================================================
