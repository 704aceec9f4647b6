----------------------------- MODULE FmtStream -----------------------------
(***************************************************************************)
(* catk::io::FmtStream (src/catk/io): a boost stream that collects         *)
(* characters in a buffer and hands them, a chunk at a time, to FmtDevice, *)
(* which breaks the chunk into lines and writes a margin before each line. *)
(* Where chunks end depends on the buffer and on the caller's flushes; the *)
(* text must not.                                                          *)
(***************************************************************************)
EXTENDS Integers, Sequences, FiniteSetsExt

CONSTANTS Chars,       \* the characters a caller puts
          Symbols,     \* the indent symbols
          Blank,       \* indent_symbol_ of a new device
          LineFeed,    \* line_delim_ of a new device
          Margins,     \* the arguments of set_indent, add_indent and sub_indent
          BufferSize,  \* the put area of the boost stream
          MaxIndent,   \* bound: the value of indent_, either way
          MaxChars     \* bound: characters put in a behaviour

ASSUME StreamAssumption ==
  /\ Blank \in Symbols /\ LineFeed \in Chars /\ Chars \cap Symbols = {}
  /\ Margins \subseteq Nat
  /\ BufferSize \in Nat \ {0}
  /\ MaxIndent \in Nat /\ MaxChars \in Nat

VARIABLES buffer,   \* put but not yet handed to the device
          out,      \* out_, what the device has written
          state,    \* state_, "DirectPrint" or "NeedIndent"
          indent, symbol, delim,
          puts      \* characters put so far, for the bound

vars == <<buffer, out, state, indent, symbol, delim, puts>>
-----------------------------------------------------------------------------
(* FmtDevice::write, for a chunk s. *)

(* write_indent: the loop does not run for a negative indent_. *)
WriteIndent == IF indent > 0 THEN [i \in 1 .. indent |-> symbol] ELSE <<>>

(* last_beg when character i is written: how many characters the lines      *)
(* before its line have.  line_delim_poss are the places of the delimiter.  *)
LastBeg(s, i) == Max({0} \cup {j \in 1 .. i - 1 : s[j] = delim})

(* The first i characters of a chunk as out_.write gets them: each line     *)
(* with its delimiter, and at the end what follows the last delimiter.      *)
Lines(s) ==
  LET lines[i \in 0 .. Len(s)] ==
        IF i = 0 THEN << >>
        ELSE LET b == LastBeg(s, i) IN
             lines[b] \o (IF b > 0 THEN WriteIndent ELSE << >>) \o SubSeq(s, b + 1, i)
  IN  lines

(* A wrong end of write, which indents the line that has not begun as well. *)
WrittenWithMargins(s) ==
  (IF state = "NeedIndent" THEN WriteIndent ELSE << >>) \o Lines(s)[Len(s)]
    \o (IF s[Len(s)] = delim THEN WriteIndent ELSE << >>)

(* The text of a chunk: the first line has a margin if the last chunk ended *)
(* a line, the others always have one, and behind the last delimiter there  *)
(* is none unless something follows.                                        *)
Written(s) ==
  (IF state = "NeedIndent" THEN WriteIndent ELSE << >>) \o Lines(s)[Len(s)]

(* need_indent at the end of write. *)
StateAfter(s) ==
  IF Len(s) > 0 /\ s[Len(s)] = delim THEN "NeedIndent" ELSE "DirectPrint"

Write(s) ==
  /\ out' = out \o Written(s)
  /\ state' = StateAfter(s)
-----------------------------------------------------------------------------
(* boost::iostreams::stream. *)

Init ==
  /\ buffer = <<>>
  /\ out = <<>>
  /\ state = "NeedIndent"
  /\ indent = 0
  /\ symbol = Blank
  /\ delim = LineFeed
  /\ puts = 0

(* A full buffer is written before the character is stored. *)
Put(c) ==
  /\ puts < MaxChars
  /\ puts' = puts + 1
  /\ IF Len(buffer) = BufferSize
     THEN Write(buffer) /\ buffer' = <<c>>
     ELSE buffer' = Append(buffer, c) /\ UNCHANGED <<out, state>>
  /\ UNCHANGED <<indent, symbol, delim>>

(* flush(): write is not called when there is nothing to write. *)
FlushBuffer ==
  IF buffer = <<>> THEN UNCHANGED <<buffer, out, state>>
  ELSE Write(buffer) /\ buffer' = <<>>

Flush == FlushBuffer /\ UNCHANGED <<indent, symbol, delim, puts>>

(* A wrong manipulator, which does not flush. *)
ManipulatorNoFlush == UNCHANGED <<buffer, out, state>>

(* operator<< of an Indent flushes before it changes the device. *)
ManipulatorFlushes == FlushBuffer

SetIndent(n) ==
  ManipulatorFlushes /\ indent' = n /\ UNCHANGED <<symbol, delim, puts>>

AddIndent(n) ==
  /\ indent + n <= MaxIndent
  /\ ManipulatorFlushes
  /\ indent' = indent + n
  /\ UNCHANGED <<symbol, delim, puts>>

SubIndent(n) ==
  /\ indent - n >= -MaxIndent
  /\ ManipulatorFlushes
  /\ indent' = indent - n
  /\ UNCHANGED <<symbol, delim, puts>>

SetIndentSymbol(s) ==
  ManipulatorFlushes /\ symbol' = s /\ UNCHANGED <<indent, delim, puts>>

(* A wrong manipulator, which sets the symbol of the margin. *)
SetDelimForSymbol(c) ==
  ManipulatorFlushes /\ symbol' = c /\ UNCHANGED <<indent, delim, puts>>

SetLineDelim(c) ==
  ManipulatorFlushes /\ delim' = c /\ UNCHANGED <<indent, symbol, puts>>

Next ==
  \/ \E c \in Chars : Put(c) \/ SetLineDelim(c)
  \/ Flush
  \/ \E n \in Margins : SetIndent(n) \/ AddIndent(n) \/ SubIndent(n)
  \/ \E s \in Symbols : SetIndentSymbol(s)

Spec == Init /\ [][Next]_vars
-----------------------------------------------------------------------------
TypeOK ==
  /\ buffer \in Seq(Chars) /\ Len(buffer) <= BufferSize
  /\ out \in Seq(Chars \cup Symbols)
  /\ state \in {"DirectPrint", "NeedIndent"}
  /\ indent \in Int /\ symbol \in Symbols /\ delim \in Chars
  /\ puts \in 0 .. MaxChars

(* What characters will look like once they are written, one at a time.    *)
Shown(s, fresh, margin, d) ==
  LET shown[i \in 0 .. Len(s)] ==
        IF i = 0 THEN << >>
        ELSE shown[i - 1]
               \o (IF IF i = 1 THEN fresh ELSE s[i - 1] = d THEN margin ELSE << >>)
               \o <<s[i]>>
  IN  shown[Len(s)]

Pending == Shown(buffer, state = "NeedIndent", WriteIndent, delim)
PendingFresh == IF buffer = << >> THEN state = "NeedIndent" ELSE buffer[Len(buffer)] = delim

Printer == INSTANCE IndentPrinter WITH
             printed <- out \o Pending, fresh <- PendingFresh

(* The chunks cannot be told from the text: for a caller the stream is the  *)
(* printer that writes each character at once with the margin of the        *)
(* moment, wherever buffers fill up and flushes fall, and whenever the      *)
(* indentation, its symbol or the delimiter change.                         *)
StreamIsPrinter == Printer!PrinterSpec

(* The device never leaves a margin without its line: what it has written   *)
(* is empty or ends with a character of the caller.                         *)
NoDanglingMargin == out # << >> => out[Len(out)] \in Chars
=============================================================================
