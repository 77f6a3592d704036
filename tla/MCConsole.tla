------------------------------ MODULE MCConsole ------------------------------
(* Instance of Printing for TLC. *)
EXTENDS Printing

(* Overlaps by less and by more than an access, and blocks that are apart.   *)
MCDistances == {-21, -5, -3, -2, -1, 0, 1, 2, 3, 5, 21}

(* All that a format is made of, and two characters that mean nothing.       *)
MCAscii ==
  Alphabet \cup Flags \cup Numeric \cup Qualifiers \cup {"c", "s", "n", "%", ".", "*", "?", "t"}
    \cup {Digits[i] : i \in 1 .. 16} \cup {SmallDigits[i] : i \in 1 .. 16}

None == [form |-> "none"]
Digit(n) == [form |-> "digits", value |-> n]
Star(n) == [form |-> "star", value |-> n]

Field(f, w, p, c, v) ==
  [flags |-> f, width |-> w, precision |-> p, qualifier |-> <<>>, conversion |-> c, value |-> v]
Phrase(f, w, p, c, t) ==
  [flags |-> f, width |-> w, precision |-> p, qualifier |-> <<>>, conversion |-> c, text |-> t]

(* Every flag and part with every conversion; of 256 ints, 128 is the least  *)
(* int, 255 is -1, and 321 does not fit.                                     *)
Numbers ==
  {Field(f, w, p, c, v) :
     f \in SUBSET Flags, w \in {None, Digit(6), Star(6), Star(-6)},
     p \in {None, Digit(0), Digit(4), Star(2)}, c \in Numeric, v \in {0, 128, 255, 321}}
Texts ==
  {Phrase(f, w, p, "s", t) :
     f \in SUBSET {"-", "0"}, w \in {None, Digit(1), Digit(10), Star(-3)},
     p \in {None, Digit(0), Digit(1), Digit(12)}, t \in Strings \ {<<"b", NUL>>}}
Others ==
  {Phrase(f, w, None, c, <<"a", NUL>>) : f \in SUBSET {"-", "0"}, w \in {None, Digit(3)},
                               c \in {"c", "n", "%", "?", NUL}}

(* Some after each other; what is read out of step are numbers only.         *)
Simple ==
  {[char |-> "t"], Field({}, None, None, "p", 1), Field({}, None, None, "p", 160),
   Field({}, Star(3), None, "d", 7), Field({}, None, Star(3), "d", 7),
   [Field({}, None, None, "u", 200) EXCEPT !.qualifier = <<"l">>],
   Phrase({}, None, None, "s", <<"a", "b", NUL>>), Phrase({}, None, None, "n", <<NUL>>),
   Phrase({}, None, None, "%", <<NUL>>)}
ReadAsNumbers(who, items) ==
  \A i, j \in DOMAIN items :
    (i < j /\ ~Handled(who, items[i]) /\ Directive(items[j])) => items[j].conversion \notin {"s", "n"}

MCCalls ==
  [program : {"loader", "kernel"}, items : {<<f>> : f \in Numbers \cup Texts \cup Others}]
  \cup {c \in [program : {"loader", "kernel"}, items : [1 .. 3 -> Simple]] :
          ReadAsNumbers(c.program, c.items)}
=============================================================================
