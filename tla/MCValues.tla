------------------------------ MODULE MCValues ------------------------------
(***************************************************************************)
(* Literals for Values: of one and of more digits, negative, hexadecimal,  *)
(* unsigned, out of range, and a float.                                    *)
(***************************************************************************)
EXTENDS Values

Lit(number, digits, tag) ==
  [hex |-> FALSE, negative |-> FALSE, number |-> number, digits |-> digits, tag |-> tag]
Negative(lit) == [lit EXCEPT !.negative = TRUE]
Hex(lit) == [lit EXCEPT !.hex = TRUE]

(* 9i8 is 57 and 7i8 is 55; 1ui8 is refused, or a zero of type UINT8. *)
MCLiterals ==
  {Lit(9, 1, CATK_INT8), Lit(7, 1, CATK_INT8), Lit(12, 2, CATK_INT8), Negative(Lit(1, 1, CATK_INT8)),
   Lit(1, 1, CATK_UINT8), Lit(0, 1, CATK_INT16), Negative(Lit(2, 1, CATK_INT16)),
   Lit(40000, 5, CATK_INT16), Hex(Lit(255, 2, CATK_INT16)), Lit(1, 1, CATK_FLOAT32)}
=============================================================================
