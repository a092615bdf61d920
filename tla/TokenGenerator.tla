--------------------------- MODULE TokenGenerator ---------------------------
(***************************************************************************)
(* TokenGenerator of ouch.hpp: a prefix and a counter in a fixed number of *)
(* digits.  A repeated token is dropped by the exchange without a word, so *)
(* the generator must say so in time.                                      *)
(***************************************************************************)
EXTENDS Integers, Sequences

CONSTANTS Base, TokenLen,     \* 36 and kTokenLen in the code
          CounterWord,        \* one more than the largest counter, 2^64 in the code
          MaxTokens           \* bound: tokens issued

ASSUME TokenAssumption == /\ Base \in Nat /\ Base >= 2 /\ TokenLen \in Nat
                          /\ CounterWord \in Nat /\ CounterWord >= 2

VARIABLES prefix_len, counter, overflowed, issued

tokenVars == <<prefix_len, counter, overflowed, issued>>

\* v *= 36, d times.
Power[d \in 0..TokenLen] == IF d = 0 THEN 1 ELSE Base * Power[d - 1]

\* pow36: 0 once it no longer fits a word, which means unbounded.
Pow36(d) ==
    IF \A i \in 0..d - 1 : Power[i] <= (CounterWord - 1) \div Base THEN Power[d] ELSE 0

Width == TokenLen - prefix_len   \* digits_
TokenCapacity == Pow36(Width)

\* The divide loop: the digits behind the prefix, the highest first.
Digits(v) == [i \in 1..Width |-> (v \div Power[Width - i]) % Base]

TokenInit ==
    /\ prefix_len \in 0..TokenLen
    /\ counter \in 0..1
    /\ overflowed = 0
    /\ issued = <<>>

\* Fault: the check comes one too late.
ExceedsByOne(v) == TokenCapacity # 0 /\ v > TokenCapacity

Exceeds(v) == TokenCapacity # 0 /\ v >= TokenCapacity

NextToken ==
    /\ counter < CounterWord - 1 /\ Len(issued) < MaxTokens
    /\ overflowed' = IF Exceeds(counter) THEN overflowed + 1 ELSE overflowed
    /\ issued' = Append(issued, Digits(IF Exceeds(counter) THEN counter % TokenCapacity ELSE counter))
    /\ counter' = counter + 1
    /\ UNCHANGED prefix_len

TokenSpec == TokenInit /\ [][NextToken]_tokenVars

\* The order of the bytes of two tokens.
Less(a, b) == \E i \in DOMAIN a : a[i] < b[i] /\ \A j \in 1..(i - 1) : a[j] = b[j]

(***************************************************************************)
(* Every token sorts after the one sent before it, whatever the prefix     *)
(* leaves for the counter, until exhausted() says otherwise.               *)
(***************************************************************************)
TokensAscendUntilExhausted ==
    overflowed = 0 => \A i \in 1..(Len(issued) - 1) : Less(issued[i], issued[i + 1])
=============================================================================
