--------------------------- MODULE MCRadixDecimal ---------------------------
(* A small instance of RadixDecimal. *)
EXTENDS RadixDecimal

MCRadixes == [p \in {"0x", "0o"} |-> IF p = "0x" THEN 4 ELSE 2]
MCChunkDigits == [r \in {4, 2} |-> IF r = 4 THEN 2 ELSE 3]
MCMaxSuffix == [r \in {4, 2} |-> IF r = 4 THEN 3 ELSE 4]

(* Thirty binary digits whose halves are products of five limbs with a     *)
(* coefficient above the modulus.                                          *)
MCWide == <<1, 1, 0, 0, 1, 1, 0, 1, 0, 0, 0, 0, 0, 1, 1>>
          \o <<0, 0, 0, 0, 0, 0, 0, 0, 1, 0, 0, 1, 1, 0, 1>>

(* Literals of the same length that differ in a short or a long suffix, in *)
(* the radix alone, or in a character that is no digit; products of two    *)
(* long halves; a difference that takes a leading digit away.              *)
MCLong ==
    {<<"0x", [i \in 1..15 |-> 3]>>, <<"0x", [i \in 1..15 |-> IF i < 7 THEN 3 ELSE 2]>>,
     <<"0x", [i \in 1..14 |-> IF i % 3 = 0 THEN 0 ELSE 3]>>,
     <<"0x", [i \in 1..14 |-> IF i % 3 = 0 \/ i = 13 THEN 0 ELSE 3]>>,
     <<"0x", <<0, 0, 0, 0, 1, 0, 0, 0>>>>, <<"0x", <<0, 0, 0, 0, 1, 0, 0, 1>>>>,
     <<"0o", <<0, 0, 0, 0, 1, 0, 0, 0>>>>, <<"0o", <<0, 0, 0, 0, 0, 1, 1, 1>>>>,
     <<"0o", MCWide>>, <<"0x", <<0, 0, 0, 0, 1, 0, 9, 0>>>>, <<"0x", <<1, 0, 0, 0, 0, 3, 2, 1>>>>}

MCLiterals ==
    {[sign |-> "", prefix |-> l[1], digits |-> l[2]] : l \in MCLong}
    \cup {[sign |-> "", prefix |-> "0x", digits |-> d] : d \in {<<>>, <<0, 2, 1>>}}
    \cup {[sign |-> s, prefix |-> "", digits |-> d] :
            s \in {"", "-"}, d \in {<<>>, <<0, 0>>, <<0, 2, 1>>, <<9>>}}
    \cup {[sign |-> "-", prefix |-> "0x", digits |-> <<1>>]}
=============================================================================
