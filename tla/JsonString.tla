----------------------------- MODULE JsonString -----------------------------
(***************************************************************************)
(* dhat_json/writer.rs write_json_string: a Rust string, a sequence of     *)
(* Unicode scalar values, becomes a JSON string literal.  Every key, frame *)
(* text and path of the document is written by it.                         *)
(***************************************************************************)
EXTENDS Integers, Sequences

CONSTANT Strings   \* strings to write, as sequences of scalar values

LastScalar == 1114111
Scalars == 0 .. LastScalar
ASSUME StringAssumption == Strings \subseteq Seq(Scalars)

Quote == 34
Backslash == 92

\* The digit's character in format {:x}.
Hex(d) == IF d < 10 THEN 48 + d ELSE 87 + d

\* Mutant: only the escapes that have a letter.
EscapeLettered(c) ==
    CASE c = Quote     -> <<Backslash, Quote>>
      [] c = Backslash -> <<Backslash, Backslash>>
      [] c = 10        -> <<Backslash, 110>>
      [] c = 13        -> <<Backslash, 114>>
      [] c = 9         -> <<Backslash, 116>>
      [] OTHER         -> <<c>>

\* One character: \", \\, \n, \r, \t, \u00XX below 0x20, anything else as it is.
Escape(c) ==
    CASE c = Quote     -> <<Backslash, Quote>>
      [] c = Backslash -> <<Backslash, Backslash>>
      [] c = 10        -> <<Backslash, 110>>
      [] c = 13        -> <<Backslash, 114>>
      [] c = 9         -> <<Backslash, 116>>
      [] c < 32 /\ c \notin {9, 10, 13} ->
            <<Backslash, 117, 48, 48, Hex(c \div 16), Hex(c % 16)>>
      [] OTHER         -> <<c>>

\* The opening quote, each character in turn, and the closing quote.
write_json_string(s) ==
    LET text[i \in 0 .. Len(s)] ==
            IF i = 0 THEN <<Quote>> ELSE text[i - 1] \o Escape(s[i])
    IN Append(text[Len(s)], Quote)

-----------------------------------------------------------------------------
(* A reader of JSON (RFC 8259, section 7), one character at a time.          *)

HexDigit(c) == CASE c \in 48 .. 57  -> c - 48
                 [] c \in 97 .. 102 -> c - 87
                 [] c \in 65 .. 70  -> c - 55
                 [] OTHER           -> -1

Letters == [c \in {Quote, Backslash, 110, 114, 116} |->
              CASE c = 110 -> 10 [] c = 114 -> 13 [] c = 116 -> 9 [] OTHER -> c]

\* chars is what has been read; in an escape \u, left digits are to come after
\* those of code.
Reader == [mode : {"before", "plain", "escape", "hex", "after", "malformed"},
           left : Int, code : Nat, chars : Seq(Int)]

At(mode, chars) == [mode |-> mode, left |-> 0, code |-> 0, chars |-> chars]
Reject(r)       == At("malformed", r.chars)

HexAt(left, code, chars) ==
    [mode |-> "hex", left |-> left, code |-> code, chars |-> chars]

ReadHex(r, digit) ==
    LET code == 16 * r.code + digit
    IN IF r.left = 1 THEN At("plain", Append(r.chars, code))
                     ELSE HexAt(r.left - 1, code, r.chars)

ReadChar(r, c) ==
    CASE r.mode = "before" /\ c = Quote     -> At("plain", r.chars)
      [] r.mode = "plain" /\ c = Quote      -> At("after", r.chars)
      [] r.mode = "plain" /\ c = Backslash  -> At("escape", r.chars)
      [] r.mode = "plain" /\ c >= 32 /\ c \notin {Quote, Backslash} ->
            At("plain", Append(r.chars, c))
      [] r.mode = "escape" /\ c = 117       -> HexAt(4, 0, r.chars)
      [] r.mode = "escape" /\ c \in DOMAIN Letters ->
            At("plain", Append(r.chars, Letters[c]))
      [] r.mode = "hex" /\ HexDigit(c) >= 0 -> ReadHex(r, HexDigit(c))
      [] OTHER -> Reject(r)

\* What the literal stands for: its last character has to be the closing quote.
Malformed == <<-1>>
read_json_string(text) ==
    LET r[i \in 0 .. Len(text)] ==
            IF i = 0 THEN At("before", << >>) ELSE ReadChar(r[i - 1], text[i])
        end == r[Len(text)]
    IN IF end.mode = "after" THEN end.chars ELSE Malformed

Misread == {s \in Strings : read_json_string(write_json_string(s)) # s}
=============================================================================
