---------------------------- MODULE BitwiseWords ----------------------------
(***************************************************************************)
(* The word operators against the community module of bitwise operators,   *)
(* as facts about sample words: 37 is prime to the width of every field,   *)
(* so that each field takes all of its values.  No run can come to its     *)
(* first state while one of them is false.                                 *)
(***************************************************************************)
EXTENDS Word16

LOCAL Bits == INSTANCE Bitwise

Samples == {37 * k : k \in 0 .. 1771}
Edges   == {0, 1, 255, 256, 21845, 32767, 32768, 43690, 65535}

\* The number a word stands for in two's complement.
Value(w) == IF w < 32768 THEN w ELSE w - 65536

\* The ALU's AND and NOT are bitwise; adding a word and its complement plus
\* one gives zero; addition is that of two's complement.
ASSUME OperatorsAreBitwise ==
    \A a \in Samples, b \in Edges :
        /\ And(a, b) = Bits!&(a, b)
        /\ Complement(a) = Bits!^^(a, 65535)
        /\ Plus(a, Plus(Complement(a), 1)) = 0
        /\ Plus(a, b) = (Value(a) + Value(b)) % 65536

\* Each sign-extended field is the number its bits stand for, and the
\* condition codes are the sign of a word.
ASSUME FieldsKeepTheirValue ==
    \A a \in Samples \cup Edges :
        /\ Value(IRSEXT5(a))  = Bits!&(a, 15) - Bits!&(a, 16)
        /\ Value(IRSEXT6(a))  = Bits!&(a, 31) - Bits!&(a, 32)
        /\ Value(IRSEXT9(a))  = Bits!&(a, 255) - Bits!&(a, 256)
        /\ Value(IRSEXT11(a)) = Bits!&(a, 1023) - Bits!&(a, 1024)
        /\ CCOf(a) = {c \in Flag : CASE c = "n" -> Value(a) < 0
                                     [] c = "z" -> Value(a) = 0
                                     [] c = "p" -> Value(a) > 0}
=============================================================================
