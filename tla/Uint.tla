-------------------------------- MODULE Uint --------------------------------
(***************************************************************************)
(* The unsigned integers that number files and anchors: uint64, with the   *)
(* width as a parameter.                                                   *)
(***************************************************************************)
EXTENDS Integers

CONSTANT W        \* 2^64 in the code

ASSUME WAssumption == W \in Nat \ {0, 1}

Uint == 0 .. W - 1

Plus(a, b)  == (a + b) % W
Minus(a, b) == (a - b) % W

\* Mutant: a number out of range wraps around.
ParseUintWrapped(n) == n % W

\* seq, _ := strconv.ParseUint(...): the error is dropped, so text that is not
\* a number reads as 0 (negative here) and a number out of range as W - 1.
ParseUint(n) == IF n < 0 THEN 0 ELSE IF n < W THEN n ELSE W - 1
=============================================================================
