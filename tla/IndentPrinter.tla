--------------------------- MODULE IndentPrinter ---------------------------
(***************************************************************************)
(* What catk::io::FmtStream promises: characters appear in the order they  *)
(* are put, and the first character of every line is preceded by the       *)
(* margin in force when that character was put.  Nothing is said about     *)
(* buffers and flushes, which a caller need not know of.                   *)
(***************************************************************************)
EXTENDS Integers, Sequences

CONSTANTS Chars,       \* the characters a caller puts
          Symbols,     \* the indent symbols a margin is made of
          Blank,       \* the symbol a stream starts with
          LineFeed     \* the line delimiter a stream starts with

VARIABLES printed,     \* the text as a reader will see it
          indent, symbol, delim,
          fresh        \* the next character starts a line

printerVars == <<printed, indent, symbol, delim, fresh>>

Margin == IF indent > 0 THEN [i \in 1 .. indent |-> symbol] ELSE <<>>

PrinterInit ==
  /\ printed = <<>>
  /\ indent = 0
  /\ symbol = Blank
  /\ delim = LineFeed
  /\ fresh = TRUE

PutChar(c) ==
  /\ printed' = printed \o (IF fresh THEN Margin ELSE <<>>) \o <<c>>
  /\ fresh' = (c = delim)
  /\ UNCHANGED <<indent, symbol, delim>>

ChangeIndent ==
  /\ indent' \in Int
  /\ UNCHANGED <<printed, symbol, delim, fresh>>

ChangeSymbol ==
  /\ symbol' \in Symbols
  /\ UNCHANGED <<printed, indent, delim, fresh>>

ChangeDelim ==
  /\ delim' \in Chars
  /\ UNCHANGED <<printed, indent, symbol, fresh>>

PrinterNext ==
  \/ \E c \in Chars : PutChar(c)
  \/ ChangeIndent \/ ChangeSymbol \/ ChangeDelim

PrinterSpec == PrinterInit /\ [][PrinterNext]_printerVars
=============================================================================
