------------------------------- MODULE Formats -------------------------------
(***************************************************************************)
(* xprintf.c: what vsprintf writes for each conversion of a format.        *)
(*                                                                         *)
(* A conversion is its flags, size and letter; the text between is copied. *)
(* struct format_arg_info lives through a call, and fmt_defaults does not  *)
(* set all of it.  Width and precision never change, hence neither padding *)
(* nor sign is ever printed, and pad and sign_pad are left out.  An        *)
(* argument is the 8 bytes of its slot; what lies above an int there is    *)
(* whatever was there.  A byte has ByteBits bits.                          *)
(***************************************************************************)
EXTENDS Integers, SequencesExt

CONSTANTS
  ByteBits,
  Conversion,  \* conversions used: [flags, size, letter], of size "int" when none is given
  Argument     \* slots used

Bits(bytes) == 2 ^ (ByteBits * bytes)

(* The last conjunct says of powers of two what follows from the first.    *)
ASSUME FormatsAssumption ==
  /\ ByteBits \in Nat \ {0} /\ Argument # {} /\ Argument \subseteq 0 .. Bits(8) - 1
  /\ \A c \in Conversion : c.size \in {"int", "h", "hh", "l", "ll", "L", "z", "t", "j"}
  /\ \A bytes \in {1, 2, 4, 8} : Bits(bytes) \in Nat \ {0}

VARIABLES
  farg,     \* alternate_form, align = RIGHT and size, as fmt_defaults sets them
  szt, ptd, \* the flags that it does not set
  printed,  \* the last conversion: what it was, what it wrote, the arguments taken
  pastEnd   \* the format was read past its terminator

formatVars == <<farg, szt, ptd, printed, pastEnd>>

Nothing == [letter |-> "none"]

\* Fault: the size of the conversion before stays.
FaultyFmtDefaults(f) == [alternate |-> FALSE, right |-> FALSE, size |-> f.size]
FmtDefaults(f) == [alternate |-> FALSE, right |-> FALSE, size |-> 0]

(* vsprintf at its first conversion: szt and ptd are not initialised *)
Vsprintf ==
  /\ farg' = FmtDefaults([size |-> 0])
  /\ szt' \in BOOLEAN /\ ptd' \in BOOLEAN
  /\ printed' = Nothing /\ pastEnd' = FALSE

FormatsInit ==
  /\ farg = FmtDefaults([size |-> 0])
  /\ szt \in BOOLEAN /\ ptd \in BOOLEAN
  /\ printed = Nothing /\ pastEnd = FALSE

(* the next conversion of the same format *)
NextConversion ==
  /\ printed # Nothing /\ ~pastEnd
  /\ farg' = FmtDefaults(farg)
  /\ printed' = Nothing
  /\ UNCHANGED <<szt, ptd, pastEnd>>

(* read_format: size 4 is for the conversions that name it; d is not one.  *)
(* The flag 0 goes on into the case of the flag -.                         *)
SizeRead(size) == CASE size = "l" -> 8 [] size = "ll" -> 16 [] size = "h" -> 2 [] size = "hh" -> 1
                    [] size \in {"z", "t"} -> 8 [] size = "L" -> 16 [] OTHER -> farg.size
ReadFormat(c) ==
  [alternate |-> farg.alternate \/ "#" \in c.flags \/ c.letter = "p",
   right |-> farg.right \/ c.flags \cap {"0", "-"} # {},
   size |-> IF SizeRead(c.size) = 0 /\ c.letter \in {"u", "x", "X", "o", "p", "i"}
            THEN 4 ELSE SizeRead(c.size)]

Base(letter) == CASE letter \in {"x", "X", "p"} -> 16 [] letter = "o" -> 8 [] OTHER -> 10

Glyphs(upper) == <<"0", "1", "2", "3", "4", "5", "6", "7", "8", "9">> \o
  IF upper THEN <<"A", "B", "C", "D", "E", "F">> ELSE <<"a", "b", "c", "d", "e", "f">>
Numeral(v, base, upper) ==
  LET digits[n \in Nat] == IF n < base THEN <<Glyphs(upper)[n + 1]>>
                           ELSE Append(digits[n \div base], Glyphs(upper)[(n % base) + 1])
  IN  digits[v]

(* The value that write_int reads, as an unsigned number of 8 bytes: an int *)
(* of 4 is sign-extended.  Size 0 reads no argument and leaves the variable *)
(* as it was.                                                              *)
ValuesRead(size, arg) ==
  CASE szt' \/ ptd' \/ size \in {8, 16} -> {arg}
    [] OTHER ->
         CASE size \in {1, 2} -> {arg % Bits(size)}
           [] size = 4 -> {LET int == arg % Bits(4) IN
                           IF 2 * int < Bits(4) THEN int ELSE int + Bits(8) - Bits(4)}
           [] OTHER -> Argument

(* write_int: nothing is written for the alignment RIGHT *)
WriteInt(f, letter, v) ==
  IF f.right THEN <<>>
  ELSE (IF f.alternate /\ Base(letter) = 16 THEN <<"0", "x">> ELSE <<>>)
         \o Numeral(v, Base(letter), letter \in {"X", "p"})

(* read_format and write_format.  The letter "end" is the terminator,      *)
(* which strchr finds among the sizes: the format is read on behind it.    *)
Convert(c, arg) ==
  /\ printed = Nothing /\ ~pastEnd
  /\ farg' = ReadFormat(c)
  /\ szt' = (szt \/ c.size = "z") /\ ptd' = (ptd \/ c.size = "t")
  /\ pastEnd' = (c.letter = "end")
  /\ LET Printed(text, char, taken) ==
           [letter |-> c.letter, conversion |-> c, arg |-> arg, text |-> text, char |-> char,
            taken |-> taken, stale |-> szt \/ ptd]
     IN  CASE c.letter = "c" -> printed' = Printed(<<>>, arg % Bits(1), 1)
           [] c.letter = "s" -> printed' = Printed(<<>>, arg, 1)
           [] c.letter = "%" -> printed' = Printed(<<"%">>, -1, 0)
           [] OTHER -> \E v \in ValuesRead(farg'.size, arg) :
                         printed' = Printed(WriteInt(farg', c.letter, v), -1,
                                            IF szt' \/ ptd' \/ farg'.size > 0 THEN 1 ELSE 0)

FormatsNext ==
  \/ Vsprintf
  \/ NextConversion
  \/ \E c \in Conversion, arg \in Argument : Convert(c, arg)

FormatsSpec == FormatsInit /\ [][FormatsNext]_formatVars

-----------------------------------------------------------------------------

(* What C prints for an integer. *)
CBytes(size) == CASE size = "int" -> 4 [] size = "h" -> 2 [] size = "hh" -> 1 [] OTHER -> 8
CPrints(c, arg) ==
  LET n == arg % Bits(CBytes(c.size))
      v == IF c.letter \in {"d", "i"} /\ 2 * n >= Bits(CBytes(c.size)) THEN n - Bits(CBytes(c.size)) ELSE n
  IN  (IF v < 0 THEN <<"-">> ELSE <<>>)
        \o (IF "#" \in c.flags /\ c.letter = "x" /\ v # 0 THEN <<"0", "x">> ELSE <<>>)
        \o Numeral(IF v < 0 THEN -v ELSE v, Base(c.letter), c.letter = "X")

(* Where vsprintf can be relied upon: without flags, or with # and x for   *)
(* a number other than 0; i and, with a size, d for numbers that are not   *)
(* negative; unsigned letters for what fits an int or for a longer or      *)
(* shorter size.  No z or t may come before a shorter size.                *)
Reliable(c, arg, stale) ==
  LET bytes == CBytes(c.size)
      n == arg % Bits(bytes)
  IN
  /\ c.flags = {} \/ (c.flags = {"#"} /\ c.letter = "x" /\ n # 0)
  /\ stale => bytes = 8
  /\ c.size = "j" => ~stale /\ 2 * arg < Bits(4)
  /\ \/ c.letter \in {"u", "x", "X", "o"} /\ (bytes = 4 => 2 * n < Bits(4))
     \/ c.letter = "i" /\ 2 * n < Bits(bytes)
     \/ c.letter = "d" /\ c.size \notin {"int", "j"} /\ 2 * n < Bits(bytes)

(* A conversion prints what C prints wherever Reliable says so, whatever   *)
(* conversions came before; and it takes the argument that C takes, so     *)
(* that the later ones find theirs, except for %d: without a size it takes *)
(* none and prints a number from the stack.                                *)
PrintsAsC ==
  printed # Nothing =>
    LET c == printed.conversion IN
    /\ c.letter = "%" => printed.text = <<"%">> /\ printed.taken = 0
    /\ c.letter = "c" => printed.char = printed.arg % Bits(1) /\ printed.taken = 1
    /\ Reliable(c, printed.arg, printed.stale) =>
         printed.text = CPrints(c, printed.arg) /\ printed.taken = 1
    /\ c.letter \in {"i", "u", "x", "X", "o", "p"} => printed.taken = 1
    /\ c.letter = "d" /\ c.size \in {"int", "j"} /\ ~printed.stale => printed.taken = 0
=============================================================================
