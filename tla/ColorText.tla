------------------------------- MODULE ColorText -------------------------------
(***************************************************************************)
(* A color from its hexadecimal digits (parse_color_hex of                 *)
(* imageflow_helpers/src/colors.rs).  A text is a sequence of characters.  *)
(***************************************************************************)
EXTENDS Integers, Sequences

CONSTANT Texts   \* the texts that are looked at

TextsAssumption == Texts \subseteq Seq(STRING)

VARIABLES text, result   \* what is parsed; {} before, then an outcome

Digit == [x \in {"0", "2", "f"} |-> CASE x = "0" -> 0 [] x = "2" -> 2 [] x = "f" -> 15]
Value(s) == IF Len(s) = 1 THEN Digit[s[1]] ELSE 16 * Digit[s[1]] + Digit[s[2]]   \* of two digits at most

(* from_str_radix: a plus sign may go first, and zeros as well.            *)
Unsigned(s) == IF s # <<>> /\ Head(s) = "+" THEN Tail(s) ELSE s
Significant(s) == IF \E n \in DOMAIN s : s[n] # "0"
                  THEN SubSeq(s, CHOOSE n \in DOMAIN s : s[n] # "0" /\ \A m \in 1..(n - 1) : s[m] = "0", Len(s)) ELSE <<>>
IsNumber(s, digits) ==
  /\ Unsigned(s) # <<>> /\ \A n \in DOMAIN Unsigned(s) : Unsigned(s)[n] \in DOMAIN Digit
  /\ Len(Significant(Unsigned(s))) <= digits

(* The bytes of a color: of one digit each, which counts twice, or two.    *)
OnceOnly(s) == Value(Unsigned(s))   \* variant: one digit is not repeated
Byte(s) == IF Len(s) = 1 THEN 17 * Value(s) ELSE Value(Unsigned(s))
Bytes(s) == LET n == IF Len(s) < 5 THEN 1 ELSE 2 IN [k \in 1..(Len(s) \div n) |-> SubSeq(s, n * (k - 1) + 1, n * k)]

Digits(s) == IF Head(s) = "#" THEN Tail(s) ELSE s
Color(s) ==
  IF ~IsNumber(s, 8) THEN "not_hexadecimal"
  ELSE IF Len(s) \notin {3, 4, 6, 8} THEN "format_incorrect"
  ELSE IF \E n \in DOMAIN Bytes(s) : ~IsNumber(Bytes(s)[n], 2) THEN "panic"
  ELSE "color"
Channels(s) == [n \in 1..4 |-> IF n \in DOMAIN Bytes(s) THEN Byte(Bytes(s)[n]) ELSE 255]

(* A text is sliced after its first byte; the empty one cannot be.         *)
Outcome(what, rgba) == [is |-> what, rgba |-> rgba]
Parse ==
  /\ result = {}
  /\ result' = IF text = <<>> THEN {Outcome("panic", <<>>)}
               ELSE {Outcome(Color(Digits(text)), IF Color(Digits(text)) = "color" THEN Channels(Digits(text)) ELSE <<>>)}
  /\ UNCHANGED text

(* to_rrggbbaa_string, of bytes that the digits here can show.             *)
Hex(b) == LET D(v) == CHOOSE x \in DOMAIN Digit : Digit[x] = v IN <<D(b \div 16), D(b % 16)>>
Written(rgba) == Hex(rgba[1]) \o Hex(rgba[2]) \o Hex(rgba[3]) \o Hex(rgba[4])

Init == text \in Texts /\ result = {}
Spec == Init /\ [][Parse]_<<text, result>>

-----------------------------------------------------------------------------
(* #RGB and #RGBA are short for #RRGGBB and #RRGGBBAA, with and without #  *)
(* (colors.rs:26), and without a fourth byte the color is opaque.          *)
Twice(s) == [n \in 1..(2 * Len(s)) |-> s[(n + 1) \div 2]]
Plain == text # <<>> /\ \A n \in DOMAIN Digits(text) : Digits(text)[n] \in DOMAIN Digit
Long == LET d == Digits(text)
            l == IF Len(d) \in {3, 4} THEN Twice(d) ELSE d IN IF Len(l) = 6 THEN l \o <<"f", "f">> ELSE l
ColorsAreMeant ==
  \A r \in result : Plain /\ Len(Long) = 8 => r.is = "color" /\ \A n \in 1..4 : r.rgba[n] = Value(SubSeq(Long, 2 * n - 1, 2 * n))

(* A color that is written is read as itself, whatever form it had.        *)
ColorsSurvive == \A r \in result : r.is = "color" => Channels(Written(r.rgba)) = r.rgba

=============================================================================
