-------------------------------- MODULE Printf --------------------------------
(***************************************************************************)
(* printf (printf.cpp of the loader and of the kernel, which differ in one *)
(* line): vsprintf walks over the format, one step per flag and per part   *)
(* of a directive, takes its arguments one after the other, and number     *)
(* puts out integers of one word.  The result goes to Video::Write.        *)
(*                                                                         *)
(* A call is what its writer means: a sequence of characters to be printed *)
(* as they are and of directives with their values.  The format and the    *)
(* arguments are made from it; the code under test sees only those.        *)
(***************************************************************************)
EXTENDS LibC

CONSTANTS
  Word,            \* how many ints there are; 2^32
  PointerDigits,   \* how many digits a pointer has; 8
  Ascii,           \* the characters there are
  Calls            \* the calls: program and items

Directive(item) == "conversion" \in DOMAIN item
Flags == {"-", "+", " ", "#", "0"}
Numeric == {"o", "p", "x", "X", "d", "i", "u"}

(* Mutant of Takers: %n is not counted among them. *)
TakersButN == Numeric \cup {"c", "s"}

Takers == Numeric \cup {"c", "s", "n"}      \* conversions that take an argument

VARIABLES
  work,        \* the call: program, items
  format, pos,
  args,        \* those not yet taken
  flags, field_width, precision,
  stage,       \* what vsprintf looks for next
  out,         \* what it has put out, piece by piece
  stored       \* by the last %n

directive == <<flags, field_width, precision>>
printf == <<work, format, pos, args, directive, stage, out, stored>>

NoWork == [program |-> "none", items |-> <<>>]

PrintfInit ==
  /\ work = NoWork
  /\ format = <<>> /\ pos = 1
  /\ args = <<>>
  /\ flags = {} /\ field_width = -1 /\ precision = -1
  /\ stage = "idle"
  /\ out = <<>>
  /\ stored = 0

-----------------------------------------------------------------------------
(* Numbers. *)

Digits == <<"0", "1", "2", "3", "4", "5", "6", "7", "8", "9", "A", "B", "C", "D", "E", "F">>
SmallDigits == [Digits EXCEPT ![11] = "a", ![12] = "b", ![13] = "c", ![14] = "d", ![15] = "e",
                              ![16] = "f"]

(* What repeated do_div yields, in the order in which it is put out. *)
InBase(base, digits, n) ==
  LET do[k \in 0 .. n] == IF k < base THEN <<digits[k + 1]>>
                          ELSE Append(do[k \div base], digits[(k % base) + 1])
  IN  do[n]

(* Mutant of Magnitude: the division is a signed one. *)
MagnitudeSigned(num, negative) == IF num >= Word \div 2 THEN Word - num ELSE num

(* -num, of an int that divl takes for unsigned. *)
Magnitude(num, negative) == IF negative THEN Word - num ELSE num

Sign(negative, type) ==
  IF negative THEN <<"-">>
  ELSE IF "+" \in type THEN <<"+">> ELSE IF " " \in type THEN <<" ">> ELSE <<>>

Prefix(base, type) ==
  IF "#" \notin type \/ base = 10 THEN <<>>
  ELSE IF base = 8 THEN <<"0">> ELSE <<"0", IF "SMALL" \in type THEN "x" ELSE "X">>

(* number: an argument, cut down to an int. *)
Number(value, base, size, digits_wanted, type) ==
  LET num == value % Word
      negative == "SIGN" \in type /\ num >= Word \div 2
      zeropad == "0" \in type /\ "-" \notin type
      digits == InBase(base, IF "SMALL" \in type THEN SmallDigits ELSE Digits,
                       Magnitude(num, negative))
      zeros == Times("0", digits_wanted - Len(digits))
      head == Sign(negative, type) \o Prefix(base, type)
      pad == size - Len(head \o zeros \o digits)
  IN  (IF zeropad \/ "-" \in type THEN <<>> ELSE Times(" ", pad))
        \o head \o (IF zeropad THEN Times("0", pad) ELSE <<>>) \o zeros \o digits
        \o (IF "-" \in type THEN Times(" ", pad) ELSE <<>>)

(* What digits stand for, and what they are worth together. *)
Worth(digits, c) == CHOOSE n \in 0 .. 15 : digits[n + 1] = c
ReadIn(base, digits, s) ==
  LET read[k \in 0 .. Len(s)] ==
        IF k = 0 THEN 0 ELSE base * read[k - 1] + Worth(digits, s[k])
  IN  read[Len(s)]

(* Characters, padded on the side that the flags say. *)
Padded(s) ==
  LET pad == Times(" ", field_width - Len(s))
  IN  IF "-" \in flags THEN s \o pad ELSE pad \o s

-----------------------------------------------------------------------------
(* The format and the arguments of a call. *)

Given(part) == IF part.form = "star" THEN <<"*">>
               ELSE IF part.form = "none" \/ part.value = 0 THEN <<>>    \* "." is ".0"
               ELSE InBase(10, Digits, part.value)
Passed(part) == IF part.form = "star" THEN <<part.value>> ELSE <<>>

Written(item) ==
  IF ~Directive(item) THEN <<item.char>>
  ELSE <<"%">> \o SetToSeq(item.flags) \o Given(item.width)
         \o (IF item.precision.form = "none" THEN <<>> ELSE <<".">> \o Given(item.precision))
         \o item.qualifier \o (IF item.conversion = NUL THEN <<>> ELSE <<item.conversion>>)

Taken(item) ==
  CASE item.conversion \in Numeric -> <<item.value>>
    [] item.conversion \in {"s", "n"} -> <<item.text>>
    [] item.conversion = "c" -> <<item.text[1]>>
    [] OTHER -> <<>>

Arguments(item) ==
  IF ~Directive(item) THEN <<>>
  ELSE Passed(item.width) \o Passed(item.precision) \o Taken(item)

(* What can be written.  A '0' before a width is a flag; what ends a        *)
(* directive is none of its parts; and it ends without a conversion only    *)
(* where the format ends.                                                   *)
Qualifiers == {"h", "l", "L"}
Conversions == Ascii \ (Flags \cup {Digits[i] : i \in 1 .. 10} \cup Qualifiers \cup {"*", "."})
Parts(values) ==
  [form : {"none"}] \cup [form : {"digits"}, value : values] \cup [form : {"star"}, value : Int]
Items ==
  [char : Ascii \ {"%", NUL}]
  \cup [flags : SUBSET Flags, width : Parts(Nat \ {0}), precision : Parts(Nat),
         qualifier : {<<>>} \cup {<<q>> : q \in Qualifiers}, conversion : Numeric, value : Int]
  \cup [flags : SUBSET Flags, width : Parts(Nat \ {0}), precision : Parts(Nat),
         qualifier : {<<>>} \cup {<<q>> : q \in Qualifiers},
         conversion : Conversions \ Numeric, text : Strings]

ASSUME PrintfAssumption ==
  /\ Word \in Nat \ {0} /\ Word % 2 = 0
  /\ PointerDigits \in Nat
  /\ Alphabet \cup Flags \cup Qualifiers \cup Takers \cup {"%", ".", "*"} \subseteq Ascii
  /\ \A i \in 1 .. 16 : Digits[i] \in Ascii /\ SmallDigits[i] \in Ascii
  /\ \A c \in Calls :
       /\ c.program \in {"loader", "kernel"} /\ c.items \in Seq(Items)
       /\ \A k \in 1 .. (Len(c.items) - 1) :
            Directive(c.items[k]) => c.items[k].conversion # NUL

Call ==
  /\ stage = "idle"
  /\ \E c \in Calls :
       /\ work' = c
       /\ format' = FlattenSeq([k \in DOMAIN c.items |-> Written(c.items[k])])
       /\ args' = FlattenSeq([k \in DOMAIN c.items |-> Arguments(c.items[k])])
  /\ stage' = "text"
  /\ UNCHANGED <<pos, directive, out, stored>>

-----------------------------------------------------------------------------
(* vsprintf *)

CharAt(p) == IF p <= Len(format) THEN format[p] ELSE NUL
Char == CharAt(pos)
IsDigit(c) == \E i \in 1 .. 10 : Digits[i] = c

(* skip_atoi at p: where it stops, and what it has read. *)
After(p) == CHOOSE q \in p .. (Len(format) + 1) :
              ~IsDigit(CharAt(q)) /\ \A i \in p .. (q - 1) : IsDigit(format[i])
Atoi(p) == ReadIn(10, Digits, SubSeq(format, p, After(p) - 1))

Text ==
  /\ stage = "text" /\ Char \notin {"%", NUL}
  /\ out' = Append(out, <<Char>>)
  /\ pos' = pos + 1
  /\ UNCHANGED <<work, format, args, directive, stage, stored>>

Percent ==
  /\ stage = "text" /\ Char = "%"
  /\ flags' = {} /\ pos' = pos + 1
  /\ stage' = "flags"
  /\ UNCHANGED <<work, format, args, field_width, precision, out, stored>>

Flag ==
  /\ stage = "flags" /\ Char \in Flags
  /\ flags' = flags \cup {Char} /\ pos' = pos + 1
  /\ UNCHANGED <<work, format, args, field_width, precision, stage, out, stored>>

(* The loader skips the '*' of a width, the kernel does not; neither does   *)
(* that of a precision.                                                     *)
FieldWidth(star) ==
  /\ stage = "flags" /\ Char \notin Flags
  /\ IF IsDigit(Char) THEN
       field_width' = Atoi(pos) /\ pos' = After(pos) /\ UNCHANGED <<flags, args>>
     ELSE IF Char = "*" THEN
       /\ field_width' = IF Head(args) < 0 THEN -Head(args) ELSE Head(args)
       /\ flags' = IF Head(args) < 0 THEN flags \cup {"-"} ELSE flags
       /\ args' = Tail(args)
       /\ pos' = pos + star
     ELSE field_width' = -1 /\ UNCHANGED <<flags, args, pos>>
  /\ stage' = "precision"
  /\ UNCHANGED <<work, format, precision, out, stored>>

Precision ==
  /\ stage = "precision"
  /\ IF Char # "." THEN precision' = -1 /\ UNCHANGED <<args, pos>>
     ELSE IF IsDigit(CharAt(pos + 1)) THEN
       precision' = Atoi(pos + 1) /\ pos' = After(pos + 1) /\ UNCHANGED args
     ELSE IF CharAt(pos + 1) = "*" THEN
       /\ precision' = IF Head(args) < 0 THEN 0 ELSE Head(args)
       /\ args' = Tail(args)
       /\ pos' = pos + 1
     ELSE precision' = 0 /\ pos' = pos + 1 /\ UNCHANGED args
  /\ stage' = "qualifier"
  /\ UNCHANGED <<work, format, flags, field_width, out, stored>>

(* It has no effect. *)
Qualifier ==
  /\ stage = "qualifier"
  /\ pos' = IF Char \in Qualifiers THEN pos + 1 ELSE pos
  /\ stage' = "convert"
  /\ UNCHANGED <<work, format, args, directive, out, stored>>

Base == CASE Char = "o" -> 8 [] Char \in {"p", "x", "X"} -> 16 [] OTHER -> 10

(* The flags for number; %p is filled up with zeros to PointerDigits. *)
Type == flags \cup (IF Char = "x" THEN {"SMALL"} ELSE {})
              \cup (IF Char \in {"d", "i"} THEN {"SIGN"} ELSE {})
              \cup (IF Char = "p" /\ field_width = -1 THEN {"0"} ELSE {})
Size == IF Char = "p" /\ field_width = -1 THEN PointerDigits ELSE field_width

(* As many characters of a string as the precision says. *)
Cut(s) == SubSeq(s, 1, IF precision < 0 \/ Strlen(s) <= precision THEN Strlen(s) ELSE precision)

Piece ==
  CASE Char \in Numeric -> Number(Head(args), Base, Size, precision, Type)
    [] Char = "c" -> Padded(<<Head(args)>>)
    [] Char = "s" -> Padded(Cut(Head(args)))
    [] Char = "n" -> <<>>
    [] Char = "%" -> <<"%">>
    [] Char = NUL -> <<"%">>
    [] OTHER -> <<"%", Char>>

Convert ==
  /\ stage = "convert"
  /\ out' = Append(out, Piece)
  /\ args' = IF Char \in Takers THEN Tail(args) ELSE args
  /\ stored' = IF Char = "n" THEN Len(FlattenSeq(out)) ELSE stored
  /\ pos' = IF Char = NUL THEN pos ELSE pos + 1
  /\ stage' = "text"
  /\ UNCHANGED <<work, format, directive>>

(* Video::Write(buf) *)
WriteOut ==
  /\ stage = "text" /\ Char = NUL
  /\ stage' = "written"
  /\ UNCHANGED <<work, format, pos, args, directive, out, stored>>

Vsprintf == Text \/ Percent \/ Flag \/ Precision \/ Qualifier \/ Convert \/ WriteOut
LoaderVsprintf == work.program = "loader" /\ (Vsprintf \/ FieldWidth(1))
KernelVsprintf == work.program = "kernel" /\ (Vsprintf \/ FieldWidth(0))

PrintfNext == Call \/ LoaderVsprintf \/ KernelVsprintf

(* Directives that vsprintf reads as they are meant, up to item k. *)
Handled(program, item) ==
  Directive(item) => /\ item.precision.form # "star"
                     /\ program = "kernel" => item.width.form # "star"
InStep(k) == \A i \in 1 .. k : Handled(work.program, work.items[i])

PrintfTypeOK ==
  /\ stage \in {"idle", "text", "flags", "precision", "qualifier", "convert", "written"}
  /\ pos \in 1 .. (Len(format) + 1)
  /\ flags \subseteq Flags
  /\ InStep(Len(work.items)) =>      \* else arguments are taken for what they are not
       /\ field_width \in Int /\ precision \in Int
       /\ \A k \in DOMAIN out : Len(out[k]) > 0 => out[k] \in Seq(Ascii)
       /\ stored \in Nat

-----------------------------------------------------------------------------
(* What a caller can expect of each directive. *)

Least(part) == IF part.form = "none" THEN 0 ELSE part.value

(* The width and side; a negative width from the arguments means left. *)
Plain(item) == item.conversion = "p" /\ item.width.form = "none"
Wanted(item) == CASE Plain(item) -> PointerDigits
                  [] Least(item.width) < 0 -> -Least(item.width)
                  [] OTHER -> Least(item.width)
Left(item) == "-" \in item.flags \/ Least(item.width) < 0
Zeros(item) == ~Left(item) /\ ("0" \in item.flags \/ Plain(item))

(* The int that is meant, and what has to stand in front of its digits. *)
Meant(item) ==
  LET n == item.value % Word
  IN  IF item.conversion \in {"d", "i"} /\ n >= Word \div 2 THEN n - Word ELSE n
Lead(item) ==
  (IF Meant(item) < 0 THEN <<"-">> ELSE IF "+" \in item.flags THEN <<"+">>
   ELSE IF " " \in item.flags THEN <<" ">> ELSE <<>>)
  \o (IF "#" \notin item.flags THEN <<>>
      ELSE CASE item.conversion = "o" -> <<"0">>
             [] item.conversion = "x" -> <<"0", "x">>
             [] item.conversion \in {"X", "p"} -> <<"0", "X">>
             [] OTHER -> <<>>)

(* What a reader makes of digits. *)
Radix(item) == CASE item.conversion = "o" -> 8 [] item.conversion \in {"d", "i", "u"} -> 10
                 [] OTHER -> 16
Symbols(item) == IF item.conversion = "x" THEN SmallDigits ELSE Digits
Readable(item, digits) ==
  \A i \in DOMAIN digits : \E n \in 0 .. (Radix(item) - 1) : digits[i] = Symbols(item)[n + 1]
Reads(item, digits) == ReadIn(Radix(item), Symbols(item), digits)

RaisedTo(base, k) ==
  LET power[i \in 0 .. k] == IF i = 0 THEN 1 ELSE base * power[i - 1] IN power[k]

NumberRight(item, text) ==
  LET magnitude == IF Meant(item) < 0 THEN -Meant(item) ELSE Meant(item)
      fewest == CHOOSE k \in 1 .. Word :
                  /\ RaisedTo(Radix(item), k) > magnitude
                  /\ k > 1 => RaisedTo(Radix(item), k - 1) <= magnitude
      needed == Max({fewest, Least(item.precision)})
  IN  \E first, last \in 1 .. Len(text) :
        LET digits == SubSeq(text, first, last)
            before == first - 1 - Len(Lead(item))
            after == Len(text) - last
        IN  /\ text = Times(" ", before) \o Lead(item) \o digits \o Times(" ", after)
            /\ Readable(item, digits) /\ Reads(item, digits) = magnitude
            /\ IF Left(item) THEN before = 0 ELSE after = 0
            /\ IF Zeros(item) THEN before = 0 ELSE Len(digits) = needed
            /\ Len(text) = Max({Wanted(item), Len(Lead(item)) + needed})

(* The characters of a string that are printed. *)
Shown(item) ==
  IF item.conversion = "c" THEN <<item.text[1]>>
  ELSE IF item.precision.form = "none" THEN Front(item.text)
  ELSE SubSeq(item.text, 1, Min({Len(item.text) - 1, item.precision.value}))
TextRight(item, text) ==
  LET blanks == Times(" ", Wanted(item) - Len(Shown(item)))
  IN  text = IF Left(item) THEN Shown(item) \o blanks ELSE blanks \o Shown(item)

PieceRight(item, piece) ==
  IF ~Directive(item) THEN piece = <<item.char>>
  ELSE CASE item.conversion \in Numeric -> NumberRight(item, piece)
         [] item.conversion \in {"c", "s"} -> TextRight(item, piece)
         [] item.conversion = "n" -> piece = <<>>
         [] item.conversion \in {"%", NUL} -> piece = <<"%">>
         [] OTHER -> piece = <<"%", item.conversion>>

(* Every number can be read back: as many digits as asked for and no others *)
(* than zeros before it, its sign and base in front, filled up on the right *)
(* side to the width asked for, and not cut; the least int included.  Texts *)
(* and what is no directive come out as they are.                           *)
FieldsRight == \A k \in DOMAIN out : InStep(k) => PieceRight(work.items[k], out[k])

(* Each directive takes the arguments that were passed for it: when all is  *)
(* written, one piece has come of every item, and no argument is left over. *)
ArgumentsInStep ==
  (stage = "written" /\ InStep(Len(work.items))) => Len(out) = Len(work.items) /\ args = <<>>
=============================================================================
