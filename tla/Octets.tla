------------------------------- MODULE Octets -------------------------------
(***************************************************************************)
(* Bytes and texts, for the readers and writers of wire formats.  A byte   *)
(* is a string of length one, a text a string; the bytes a model text can  *)
(* hold are TAB, LF and the printable ones (but for the grave accent,      *)
(* whose place Ascii fills with "?").                                      *)
(***************************************************************************)
EXTENDS Integers, Sequences, SequencesExt

Ascii == " !\"#$%&'()*+,-./0123456789:;<=>?@ABCDEFGHIJKLMNOPQRSTUVWXYZ[\\]^_?abcdefghijklmnopqrstuvwxyz{|}~"

Code == {9, 10} \cup ((32 .. 126) \ {96})

\* From a byte's code to the byte, and back.
Chr == [n \in Code |-> CASE n = 9  -> "\t"
                         [] n = 10 -> "\n"
                         [] OTHER  -> SubSeq(Ascii, n - 31, n - 31)]

Ord == [c \in {Chr[n] : n \in Code} |-> CHOOSE n \in Code : Chr[n] = c]

Coded(S) == {Chr[n] : n \in S \cap Code}

Byte  == Coded(Code)
Digit == Coded(48 .. 57)
Upper == Coded(65 .. 90)
Lower == Coded(97 .. 122)
Hex   == Digit \cup Coded(65 .. 70) \cup Coded(97 .. 102)

\* The byte of s at p, "" past its end.
At(s, p) == IF p \in 1 .. Len(s) THEN SubSeq(s, p, p) ELSE ""

\* Where a loop "while *p is in C, p++" that starts at p stops.
EndOf(s, p, C) == Min({q \in p .. Len(s) + 1 : At(s, q) \notin C})

\* Where a loop that looks for a byte of C from p on stops.
FindAny(s, p, C) == EndOf(s, p, Byte \ C)

Concat(texts) == FoldLeft(\o, "", texts)

\* The texts with a separator in between.
Join(texts, sep) ==
    Concat([i \in DOMAIN texts |-> IF i = 1 THEN texts[i] ELSE sep \o texts[i]])

ToLower(c) == IF c \in Upper THEN Chr[Ord[c] + 32] ELSE c

Lowercase(s) == Concat([i \in 1 .. Len(s) |-> ToLower(At(s, i))])

HexVal(c) == IF c \in Digit THEN Ord[c] - 48 ELSE Ord[ToLower(c)] - 87

HexDigit(n) == SubSeq("0123456789ABCDEF", n + 1, n + 1)
=============================================================================
