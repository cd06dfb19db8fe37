----------------------------- MODULE JsonWriter -----------------------------
(***************************************************************************)
(* The native JSON writer a handler drives call by call (JsonWriter.cpp):  *)
(* one comma flag, a growable buffer that is written through a raw cursor  *)
(* after one reservation, and the texts of integers, doubles and strings.  *)
(*                                                                         *)
(* What is written is a sequence of pieces, each the characters of one     *)
(* token.  The handler makes legal calls: stack is where it is in its      *)
(* document and called the tokens it has asked for.  A double is its       *)
(* shortest digits and its exponent, which to_chars (external) gives.      *)
(***************************************************************************)
EXTENDS Integers, Sequences, FiniteSets, SequencesExt

CONSTANTS Values,      \* [type, and under the type's name the value]: int, double, string, raw, rows
          Inner,       \* the values put into containers
          Keys,        \* strings of characters
          FirstCap,    \* 256: the first allocation
          Width,       \* 64: the bits of an integer
          MaxCalls

VARIABLES
  written,    \* the pieces, in order
  needComma, len, cap, \* of NitroJsonWriter
  stack,      \* the handler's open containers: "{", "[", and ":" after a key
  called      \* the tokens it asked for since the last reset

jsonVars == <<written, needComma, len, cap, stack, called>>

Size(ps) == FoldLeft(LAMBDA n, p : n + Len(p), 0, ps)

(***************************************************************************)
(* Texts                                                                   *)
(***************************************************************************)
\* The digits of n, most significant first.
RECURSIVE Decimal(_)
Decimal(n) == IF n < 10 THEN <<ToString(n)>> ELSE Append(Decimal(n \div 10), ToString(n % 10))

\* writeInt negates as an unsigned number of the same width.
IntText(v) ==
  IF v >= 0 THEN Decimal(v) ELSE <<"-">> \o Decimal((2 ^ Width - (v % 2 ^ Width)) % 2 ^ Width)

\* The characters with a letter of their own; "ctl" is any other control character.
Short == {"quote", "escape", "backspace", "feed", "newline", "return", "tab"}
Escape(c) == IF c = "ctl" THEN <<"escape", "u", "0", "0", "hex", "hex">>
             ELSE IF c \in Short THEN <<"escape", c>> ELSE <<c>>
Escaped(s) == <<"quote">> \o FlattenSeq([i \in 1 .. Len(s) |-> Escape(s[i])]) \o <<"quote">>

Zeros(n) == [i \in 1 .. n |-> "0"]
Fixed(ds, n) == <<"0", ".">> \o Zeros(-n) \o ds

\* writeDouble, of [neg, digits, e]: digits[1].digits[2..] times 10^e; no digits is zero.
DoubleText(d) ==
  LET k == Len(d.digits)
      n == d.e + 1
      sign == IF d.neg THEN <<"-">> ELSE <<>>
      exp == n - 1
  IN sign \o
     (IF k = 0 THEN <<"0", ".", "0">>
      ELSE IF k <= n /\ n <= 21 THEN d.digits \o Zeros(n - k) \o <<".", "0">>
      ELSE IF 0 < n /\ n <= 21 THEN SubSeq(d.digits, 1, n) \o <<".">> \o SubSeq(d.digits, n + 1, k)
      ELSE IF -6 < n /\ n <= 0 THEN Fixed(d.digits, n)
      ELSE <<d.digits[1]>> \o (IF k > 1 THEN <<".">> \o Tail(d.digits) ELSE <<>>)
           \o <<"e", IF exp >= 0 THEN "+" ELSE "-">> \o Decimal(IF exp >= 0 THEN exp ELSE -exp))

\* The pieces of a value.  "rows" is emit_template: the rows are filled in by
\* the engine, each from constant segments around its columns.
Row(v, r) == FlattenSeq([c \in 1 .. Len(v.cols) |-> v.segs[c] \o IntText(v.cols[c][r])]) \o Last(v.segs)
Pieces(v) ==
  CASE v.type = "int" -> <<IntText(v.int)>>
    [] v.type = "double" -> <<DoubleText(v.double)>>
    [] v.type = "string" -> <<Escaped(v.string)>>
    [] v.type = "raw" -> <<v.raw>>
    [] v.type = "rows" ->
         << <<"[">> >> \o FlattenSeq([r \in 1 .. v.n |-> (IF r = 1 THEN <<>> ELSE << <<",">> >>) \o <<Row(v, r)>>])
         \o << <<"]">> >>

(***************************************************************************)
(* The buffer                                                              *)
(***************************************************************************)
RECURSIVE Doubled(_, _)
Doubled(c, need) == IF c >= need THEN c ELSE Doubled(2 * c, need)
Ensured(l, c, extra) == IF l + extra > c THEN Doubled(2 * c, l + extra) ELSE c

\* A string's room taken for what it is before escaping.
SlipRoom(v) == IF v.type = "string" THEN Len(v.string) + 2 ELSE Size(Pieces(v))

\* What is reserved before the raw writes of a value; the other pieces are put
\* with a reservation of their own size.
Room(v) == IF v.type = "string" THEN 6 * Len(v.string) + 2 ELSE Size(Pieces(v))

\* sep, then the pieces ps for which room is reserved, then `after`.
Writes(ps, room, after) ==
  LET comma == IF needComma THEN << <<",">> >> ELSE <<>>
      atValue == Ensured(len, cap, Len(comma))
      start == len + Len(comma)
      atEnd == Ensured(start, atValue, room)
  IN /\ written' = written \o comma \o ps \o after
     /\ len' = start + Size(ps) + Size(after)
     /\ cap' = IF after = <<>> THEN atEnd ELSE Ensured(start + Size(ps), atEnd, Size(after))

(***************************************************************************)
(* The calls                                                               *)
(***************************************************************************)
Calls(token) == Len(called) < MaxCalls /\ called' = Append(called, token)
\* A value may come: at the top once, in an array, after a key.
ValueDue == IF stack = <<>> THEN called = <<>> ELSE Last(stack) \in {"[", ":"}
\* A value uses up the key before it.
Used(s) == IF s # <<>> /\ Last(s) = ":" THEN Front(s) ELSE s

JsonInit == /\ written = <<>> /\ needComma = FALSE /\ len = 0 /\ cap = FirstCap
            /\ stack = <<>> /\ called = <<>>

\* jw_reset: the buffer is kept.
Reset == /\ called # <<>>
         /\ written' = <<>> /\ len' = 0 /\ needComma' = FALSE
         /\ stack' = <<>> /\ called' = <<>> /\ UNCHANGED cap
Begin(c) == /\ ValueDue /\ Calls([type |-> "mark", mark |-> c]) /\ Writes(<< <<c>> >>, 1, <<>>)
            /\ needComma' = FALSE /\ stack' = Append(Used(stack), c)
\* end_object, end_array: no comma before it.
End(c) == /\ stack # <<>> /\ Last(stack) = (IF c = "}" THEN "{" ELSE "[") /\ Calls([type |-> "mark", mark |-> c])
          /\ written' = Append(written, <<c>>) /\ len' = len + 1 /\ cap' = Ensured(len, cap, 1)
          /\ needComma' = TRUE /\ stack' = Front(stack)
Key(k) == /\ stack # <<>> /\ Last(stack) = "{" /\ Calls([type |-> "key", key |-> k])
          /\ Writes(<<Escaped(k)>>, 6 * Len(k) + 2, << <<":">> >>)
          /\ needComma' = FALSE /\ stack' = Append(stack, ":")
Put(v) == /\ ValueDue /\ Calls(v) /\ Writes(Pieces(v), Room(v), <<>>)
          /\ needComma' = TRUE /\ stack' = Used(stack)

JsonNext == \/ Reset
            \/ \E c \in {"{", "["} : Begin(c)
            \/ \E c \in {"}", "]"} : End(c)
            \/ \E k \in Keys : Key(k)
            \/ \E v \in (IF stack = <<>> THEN Values ELSE Inner) : Put(v)

(***************************************************************************)
(* Properties                                                              *)
(***************************************************************************)
Is(piece, c) == piece = <<c>>
Punctuation == {<<"{">>, <<"}">>, <<"[">>, <<"]">>, <<",">>, <<":">>}
IsString(p) == Len(p) > 1 /\ p[1] = "quote"
\* The grammar of JSON over pieces.
RECURSIVE IsValue(_), AreItems(_, _)
IsValue(t) ==
  \/ Len(t) = 1 /\ t[1] \notin Punctuation
  \/ /\ Len(t) >= 2
     /\ \/ Is(t[1], "{") /\ Is(Last(t), "}") /\ (Len(t) = 2 \/ AreItems(SubSeq(t, 2, Len(t) - 1), TRUE))
        \/ Is(t[1], "[") /\ Is(Last(t), "]") /\ (Len(t) = 2 \/ AreItems(SubSeq(t, 2, Len(t) - 1), FALSE))
AreItems(t, keyed) ==
  \E n \in (IF keyed THEN 3 ELSE 1) .. Len(t) :
    /\ IF keyed THEN IsString(t[1]) /\ Is(t[2], ":") /\ IsValue(SubSeq(t, 3, n)) ELSE IsValue(SubSeq(t, 1, n))
    /\ n = Len(t) \/ (Is(t[n + 1], ",") /\ AreItems(SubSeq(t, n + 2, Len(t)), keyed))

\* A finished document is JSON, however its containers are nested and empty
\* ones among them: the one flag puts a comma exactly between siblings (the
\* comma discipline of the jw_ calls).
WellFormed == stack = <<>> /\ called # <<>> => IsValue(written)

\* Nothing is written past the allocation: what is reserved before a value is
\* written through the raw cursor is never less than the value takes (ensure,
\* grow, writeEscaped, putN).
NoOverrun == len = Size(written) /\ len <= cap

\* A string read back by the rules of JSON is the string that was given.
RECURSIVE Unescaped(_)
Unescaped(t) ==
  IF t = <<>> THEN <<>>
  ELSE IF t[1] # "escape" THEN <<t[1]>> \o Unescaped(Tail(t))
  ELSE IF t[2] = "u" THEN <<"ctl">> \o Unescaped(SubSeq(t, 7, Len(t)))
  ELSE <<t[2]>> \o Unescaped(SubSeq(t, 3, Len(t)))
\* A number read back: its sign, its digits without the zeros around them and
\* the power of ten of the first.
Digit == [c \in {ToString(n) : n \in 0 .. 9} |-> CHOOSE n \in 0 .. 9 : ToString(n) = c]
Natural(t) == FoldLeft(LAMBDA n, c : 10 * n + Digit[c], 0, t)
Place(t, c) == LET at == {i \in DOMAIN t : t[i] = c} IN IF at = {} THEN Len(t) + 1 ELSE CHOOSE i \in at : TRUE
NumberRead(text) ==
  LET neg == text[1] = "-"
      t == IF neg THEN Tail(text) ELSE text
      e == Place(t, "e")
      mantissa == SubSeq(t, 1, e - 1)
      point == Place(mantissa, ".")
      exp == IF e > Len(t) THEN 0
             ELSE Natural(SubSeq(t, e + 2, Len(t))) * (IF t[e + 1] = "-" THEN -1 ELSE 1)
      digits == SelectSeq(mantissa, LAMBDA c : c # ".")
      real == {i \in DOMAIN digits : digits[i] # "0"}
      first == CHOOSE i \in real : \A j \in real : i <= j
      last == CHOOSE i \in real : \A j \in real : i >= j
  IN [neg |-> neg, digits |-> IF real = {} THEN <<>> ELSE SubSeq(digits, first, last),
      e |-> IF real = {} THEN 0 ELSE exp + point - 1 - first]

\* Every value read back by the rules of JSON is the one that was given: at
\* the ends of the integers' range, on either side of the exponents where a
\* double changes its notation, and for every character that is escaped
\* (writeInt, writeDouble, writeEscaped).
ReadsBack ==
  \A i \in DOMAIN called :
    LET v == called[i] IN
    /\ v.type = "int" =>
         LET digits == SelectSeq(IntText(v.int), LAMBDA c : c # "-")
         IN digits # <<>> /\ Natural(digits) * (IF v.int < 0 THEN -1 ELSE 1) = v.int
    /\ v.type = "double" => NumberRead(DoubleText(v.double)) = v.double
                            /\ ToSet(DoubleText(v.double)) \cap {".", "e"} # {}
    /\ v.type = "string" => Unescaped(SubSeq(Escaped(v.string), 2, Len(Escaped(v.string)) - 1)) = v.string

\* The text is one JSON document, written within the buffer, that reads back as
\* the values given.
DocumentExact == WellFormed /\ NoOverrun /\ ReadsBack
=============================================================================
