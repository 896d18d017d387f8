------------------------------ MODULE Protocol ------------------------------
(***************************************************************************)
(* The line protocol of the TCP gateway (protocol.cpp): what parse_request *)
(* makes of a line.  A line is a sequence of tokens, white space being     *)
(* gone, and a token is a word or a number with its digits.  Of an error   *)
(* only that it is one is kept, of a reply only its first word.            *)
(***************************************************************************)
EXTENDS Integers, Sequences, SequencesExt

CONSTANT Width         \* of the integers: 64 in the code

ASSUME ProtocolAssumption == Width \in Nat \ {0}

Word(w) == [word |-> w, neg |-> FALSE, digits |-> << >>]
Number(ds) == [word |-> "number", neg |-> FALSE, digits |-> ds]
Negative(ds) == [word |-> "number", neg |-> TRUE, digits |-> ds]

Commands == {"PING", "QUOTE", "NEW", "CANCEL", "MODIFY"}

(* The arguments a command needs: unsigned ones, and one with a sign.      *)
Fields(cmd) ==
    CASE cmd = "PING" -> << >>
      [] cmd = "QUOTE" -> << "u64" >>
      [] cmd = "NEW" -> << "u64", "u64", "u64", "u64", "u64" >>
      [] cmd = "CANCEL" -> << "u64", "u64" >>
      [] cmd = "MODIFY" -> << "u64", "u64", "u64", "i64" >>

(* The static_cast of an unsigned number to a signed one; the overflow of  *)
(* parse_i64, which is undefined, wraps as well.                           *)
Signed(x) ==
    LET u == x % 2 ^ Width
    IN  IF u < 2 ^ (Width - 1) THEN u ELSE u - 2 ^ Width

(* Mutant: the digits are taken from the right.                            *)
ParseU64Reversed(ds) == FoldRight(LAMBDA d, x : (x * 10 + d) % 2 ^ Width, ds, 0)

(* parse_u64: digit by digit, and wraps without saying so.                 *)
ParseU64(ds) == FoldLeft(LAMBDA x, d : (x * 10 + d) % 2 ^ Width, 0, ds)

(* A token is read as a field of this kind.                                *)
Reads(kind, token) == token.word = "number" /\ (token.neg => kind = "i64")

(* The number a field is given to the engine as.  Prices and quantities    *)
(* are signed; an id keeps its value, and is not told from it here.        *)
ReadField(token) ==
    LET x == ParseU64(token.digits)
    IN  Signed(IF token.neg THEN - x ELSE x)

(* parse_request: tokens after the last argument are not looked at, but    *)
(* for the time in force of NEW.                                           *)
ParseRequest(line) ==
    LET cmd == line[1].word
        n == Len(Fields(cmd))
    IN  IF /\ line # << >>
           /\ cmd \in Commands
           /\ Len(line) > n
           /\ \A k \in 1 .. n : Reads(Fields(cmd)[k], line[k + 1])
           /\ cmd = "NEW" /\ Len(line) >= 7 => line[7].word \in {"GTC", "IOC", "FOK"}
        THEN [command |-> cmd, args |-> [k \in 1 .. n |-> ReadField(line[k + 1])]]
        ELSE [command |-> "ERR", args |-> << >>]

-----------------------------------------------------------------------------
(* For reference: what a number means in decimal notation.                 *)

Value(token) ==
    LET ds == token.digits
        n == Len(ds)
        v == FoldLeft(LAMBDA s, k : s + ds[k] * 10 ^ (n - k), 0, [k \in 1 .. n |-> k])
    IN  IF token.neg THEN - v ELSE v

(* ... and whether it can be represented.                                  *)
Fits(token) == Value(token) < 2 ^ (Width - 1) /\ - Value(token) < 2 ^ (Width - 1)
=============================================================================
