---------------------------- MODULE CounterRule -----------------------------
(***************************************************************************)
(* How CanMessage checks the rolling counter of a message                  *)
(* (validateRollingCounter in src/src/can_parser.cpp).  The raw counter    *)
(* has rolling_counter_length_ bits and is cut to uint8_t; lengths up to   *)
(* eight are modelled, where the cut changes nothing.                      *)
(***************************************************************************)
EXTENDS Integers

CONSTANTS Modulus,    \* 1 << rolling_counter_length_
          Increment   \* expected_increment_

ASSUME CounterAssumption == Modulus \in 1 .. 256 /\ Increment \in 0 .. 255

Counters == 0 .. Modulus - 1

\* "Invalid initial value" of last_rolling_counter_.
NoCounter == 255

\* Mutant: the wrap is forgotten.
ExpectedUnwrapped(last) == last + Increment

ExpectedAfter(last) == (last + Increment) % Modulus

\* Mutant: a repeated counter is accepted.
CounterRepeatable(last, counter) ==
    last = NoCounter \/ counter \in {last, ExpectedAfter(last)}

CounterValid(last, counter) == last = NoCounter \/ counter = ExpectedAfter(last)
=============================================================================
