------------------------------- MODULE LogTail -------------------------------
(***************************************************************************)
(* TailLog of src/src/daemon.rs: the last bytes of a log, cut anywhere and *)
(* decoded by String::from_utf8_lossy.                                     *)
(*                                                                         *)
(* A log is a sequence of bytes.  What matters of a byte is the part that  *)
(* it can have in a character, and each of these classes is named after    *)
(* its first byte: "E1" are the bytes E1 to EF without ED, "FF" those that *)
(* no character has (C0, C1, F5 to FF), and the others end before the next *)
(* that is named here.  In a text a character is the sequence of its       *)
(* bytes, and the empty one stands for the replacement character U+FFFD.   *)
(***************************************************************************)
EXTENDS Integers, Sequences, FiniteSets

Continuation == {"80", "90", "A0"}
Byte == {"00", "C2", "E0", "E1", "ED", "F0", "F1", "F4", "FF"} \cup Continuation

Char == {c \in Seq(Byte) : Len(c) <= 4}
Replacement == << >>

\* How many bytes the character has that begins with byte; none does with the others.
Length(byte) ==
  CASE byte = "00" -> 1
    [] byte = "C2" -> 2
    [] byte \in {"E0", "E1", "ED"} -> 3
    [] byte \in {"F0", "F1", "F4"} -> 4
    [] OTHER -> 0

\* What its k-th byte may be: no character is written longer than it has to be, none
\* is a surrogate, and none lies behind the last one.
Follows(byte, k) ==
  CASE byte = "E0" /\ k = 2 -> {"A0"}
    [] byte = "ED" /\ k = 2 -> {"80", "90"}
    [] byte = "F0" /\ k = 2 -> {"90", "A0"}
    [] byte = "F4" /\ k = 2 -> {"80"}
    [] OTHER -> Continuation

\* The first n bytes are a character or the beginning of one.
Fits(bytes, n) ==
  /\ n <= Len(bytes) /\ n <= Length(bytes[1])
  /\ \A k \in 2 .. n : bytes[k] \in Follows(bytes[1], k)

\* How many bytes at the head of bytes make one character of the text: a whole
\* character, or as much of one as there is.
Width(bytes) ==
  IF Fits(bytes, 4) THEN 4
  ELSE IF Fits(bytes, 3) THEN 3
  ELSE IF Fits(bytes, 2) THEN 2 ELSE 1

CharOf(bytes) ==
  LET w == Width(bytes)
  IN  IF w = Length(bytes[1]) THEN SubSeq(bytes, 1, w) ELSE Replacement

from_utf8_lossy(bytes) ==
  LET n == Len(bytes)
      from[i \in 1 .. n + 1] ==
        IF i = n + 1 THEN << >>
        ELSE LET rest == SubSeq(bytes, i, n)
             IN  <<CharOf(rest)>> \o from[i + Width(rest)]
  IN  from[1]

\* Mutant: the first byte that fits is left out.
tail_log_off_by_one(bytes, max_bytes) ==
  LET start == IF Len(bytes) > max_bytes THEN Len(bytes) - max_bytes + 1 ELSE 0
  IN  [text      |-> from_utf8_lossy(SubSeq(bytes, start + 1, Len(bytes))),
       truncated |-> Len(bytes) > max_bytes]

\* saturating_sub, the slice, and its text.
tail_log(bytes, max_bytes) ==
  LET start == IF Len(bytes) > max_bytes THEN Len(bytes) - max_bytes ELSE 0
  IN  [text      |-> from_utf8_lossy(SubSeq(bytes, start + 1, Len(bytes))),
       truncated |-> Len(bytes) > max_bytes]
-----------------------------------------------------------------------------
\* What a tail has to be: at most three replacement characters for a character that
\* was cut, then a suffix of the text; all of it, if it is not said to be truncated;
\* and not longer than the limit, nor shorter if there is more, but for the
\* replacement characters, which take three bytes and stand for one to three.
Count(text, n) == Cardinality({i \in DOMAIN text : Len(text[i]) = n})
Size(text, replacement) ==
  Count(text, 1) + 2 * Count(text, 2) + 3 * Count(text, 3) + 4 * Count(text, 4)
    + replacement * Count(text, 0)
IsTail(bytes, max_bytes, tail) ==
  LET whole == from_utf8_lossy(bytes)
      len   == Len(tail.text)
  IN  /\ ~tail.truncated => tail.text = whole
      /\ \E cut \in 0 .. 3 :
           /\ cut <= len
           /\ \A i \in 1 .. cut : tail.text[i] = Replacement
           /\ len - cut <= Len(whole)
           /\ SubSeq(tail.text, cut + 1, len) =
                SubSeq(whole, Len(whole) - (len - cut) + 1, Len(whole))
      /\ Size(tail.text, 1) <= max_bytes
      /\ tail.truncated => Size(tail.text, 3) >= max_bytes
=============================================================================
