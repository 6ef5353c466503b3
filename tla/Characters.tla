------------------------------ MODULE Characters ------------------------------
(***************************************************************************)
(* Bytes that mean something to the protocols of kdesu, and what is done   *)
(* with arrays of bytes everywhere: left(), remove(), and the conversion   *)
(* of a char array that ends with a NUL.                                   *)
(***************************************************************************)
EXTENDS Integers, Sequences, SequencesExt

Nul == 0
Newline == 10
Space == 32
Quote == 34
Minus == 45
Slash == 47
Zero == 48
At == 64
Backslash == 92
Caret == 94
Delete == 127

Bytes == Seq(0 .. 255)

IsControl(c) == c < 32 \/ c = Delete

FirstOf(bytes, n) == SubSeq(bytes, 1, IF n < Len(bytes) THEN n ELSE Len(bytes))
After(bytes, n) == SubSeq(bytes, n + 1, Len(bytes))

\* indexOf(): the first place of a character, 0 when there is none.
IndexOf(bytes, char) == SelectInSeq(bytes, LAMBDA c : c = char)

UpToNul(bytes) ==
    IF IndexOf(bytes, Nul) = 0 THEN bytes ELSE FirstOf(bytes, IndexOf(bytes, Nul) - 1)
===============================================================================
