----------------------------- MODULE SerialText -----------------------------
(***************************************************************************)
(* What the serial module does to bytes (pkg/module/serial/engine.go,       *)
(* step.go): the filter for terminal escape sequences, the search for an    *)
(* expected text, and the parsing of a script.  A byte is named by its      *)
(* character, or by its role if it has none; characters that the code does  *)
(* not tell apart are represented by one of them.                           *)
(***************************************************************************)
EXTENDS Integers, Sequences, SequencesExt

CONSTANTS
  MaxRemainder,   \* maxRemainder
  MatchWindow     \* matchWindow

ASSUME SerialTextAssumption == MaxRemainder \in Nat /\ MatchWindow \in Nat

(* Names of bytes.  "MARK" is the name of a status line, which is no byte.   *)
Byte == STRING \ {"MARK"}

(* The ranges of ECMA-48.  "[", "]", "P" and "\\" are in the range of the    *)
(* final bytes too.                                                         *)
Param == {"0"}
Inter == {" "}
Final == {"a", "b", "m", "r", "x", "[", "]", "P", "\\"}
StringIntroducer == {"P", "]"}

csiEnd(data, esc) ==
  LET past(from, Class) == Min({p \in from..(Len(data) + 1) : p > Len(data) \/ data[p] \notin Class})
      pos == past(past(esc + 2, Param), Inter)
  IN IF pos > Len(data) THEN 0 ELSE IF data[pos] \in Final THEN pos ELSE pos - 1

stringSeqEnd(data, esc) ==
  LET body == (esc + 2)..Len(data)
      ends == {p \in body : data[p] = "ST" \/ (data[p] = "BEL" /\ data[esc + 1] = "]")}
              \cup {p + 1 : p \in {q \in body : q < Len(data) /\ data[q] = "ESC" /\ data[q + 1] = "\\"}}
  IN IF ends = {} THEN 0 ELSE Min(ends)

(* The last byte of the sequence that begins at esc, 0 if it is incomplete.  *)
seqEnd(data, esc) ==
  CASE esc = Len(data) -> 0
    [] esc < Len(data) /\ data[esc + 1] \in StringIntroducer -> stringSeqEnd(data, esc)
    [] esc < Len(data) /\ data[esc + 1] = "[" -> csiEnd(data, esc)
    [] OTHER -> esc + 1

(* The visible bytes, and an incomplete sequence at the end.                *)
stripEscapes(data) ==
  LET from[i \in 1..(Len(data) + 1)] ==
        IF i > Len(data) THEN [out |-> <<>>, remainder |-> <<>>]
        ELSE IF data[i] # "ESC" THEN [from[i + 1] EXCEPT !.out = <<data[i]>> \o @]
        ELSE IF seqEnd(data, i) = 0 THEN [out |-> <<>>, remainder |-> SubSeq(data, i, Len(data))]
        ELSE from[seqEnd(data, i) + 1]
  IN from[1]

(* Mutant: each read is filtered on its own.                                *)
cleanAlone(remainder, chunk) == [stripEscapes(chunk) EXCEPT !.remainder = <<>>]

clean(remainder, chunk) ==
  LET s == stripEscapes(remainder \o chunk) IN
  [s EXCEPT !.remainder = IF Len(@) > MaxRemainder THEN <<>> ELSE @]

(* FindIndex for a pattern that is a plain text: where the first occurrence  *)
(* ends, -1 if there is none.                                               *)
FindEnd(pattern, buf) ==
  LET ends == {e \in Len(pattern)..Len(buf) : SubSeq(buf, e - Len(pattern) + 1, e) = pattern}
  IN IF ends = {} THEN -1 ELSE Min(ends)

(* Mutant: the trimming keeps the oldest bytes.                             *)
capBufferHead(buf) ==
  IF Len(buf) > MatchWindow THEN SubSeq(buf, 1, MatchWindow) ELSE buf

capBuffer(buf) ==
  IF Len(buf) > MatchWindow THEN SubSeq(buf, Len(buf) - MatchWindow + 1, Len(buf)) ELSE buf

-----------------------------------------------------------------------------
(* Scripts.  An argument is a sequence of characters. *)

Invalid == [ok |-> FALSE, value |-> <<>>]

(* The value of two hexadecimal digits.                                     *)
HexByte == [h \in {"0", "a", "b"} \X {"0", "a", "b"} |->
  CASE h = <<"0", "0">> -> "NUL" [] h = <<"0", "a">> -> "\n" [] h = <<"0", "b">> -> "VT"
    [] OTHER -> "8bit"]

decodeEscapes(s) ==
  LET Plain == [r |-> "\r", n |-> "\n", t |-> "\t"]
      put(b, rest) == [rest EXCEPT !.value = <<b>> \o @]
      from[i \in 1..(Len(s) + 1)] ==
        IF i > Len(s) THEN [ok |-> TRUE, value |-> <<>>]
        ELSE IF s[i] # "\\" THEN put(s[i], from[i + 1])
        ELSE IF i = Len(s) THEN Invalid
        ELSE CASE s[i + 1] \in DOMAIN Plain -> put(Plain[s[i + 1]], from[i + 2])
               [] s[i + 1] = "\\" -> put("\\", from[i + 2])
               [] s[i + 1] = "x" ->
                    IF i + 3 <= Len(s) /\ SubSeq(s, i + 2, i + 3) \in DOMAIN HexByte
                    THEN put(HexByte[SubSeq(s, i + 2, i + 3)], from[i + 4]) ELSE Invalid
               [] OTHER -> Invalid
  IN from[1]

resolveEOL == [cr |-> <<"\r">>, lf |-> <<"\n">>, crlf |-> <<"\r", "\n">>, none |-> <<>>]

(* Each verb takes the next argument; what is no verb, lacks its argument or *)
(* has a bad one makes the script invalid.  A pattern that is not a regular  *)
(* expression is represented by <<"(">>.                                    *)
parseSteps(tokens, eol) ==
  LET verb(k) == tokens[2 * k - 1]
      count == (Len(tokens) + 1) \div 2
      data(k) == decodeEscapes(tokens[2 * k])
      valid(k) == /\ verb(k) \in {"expect", "send", "send-raw"} /\ 2 * k <= Len(tokens)
                  /\ IF verb(k) = "expect" THEN tokens[2 * k] # <<"(">> ELSE data(k).ok
      step(k) == CASE verb(k) = "expect" -> [kind |-> "expect", text |-> tokens[2 * k]]
                   [] verb(k) = "send" -> [kind |-> "send", text |-> data(k).value \o eol]
                   [] verb(k) = "send-raw" -> [kind |-> "send", text |-> data(k).value]
  IN IF \A k \in 1..count : valid(k) THEN [ok |-> TRUE, value |-> [k \in 1..count |-> step(k)]] ELSE Invalid

parseArgs(args) ==
  IF args.eol \in DOMAIN resolveEOL THEN parseSteps(args.tokens, resolveEOL[args.eol]) ELSE Invalid

-----------------------------------------------------------------------------
(* The reference: a terminal that takes one byte at a time. *)

(* Whether a byte does not belong to the control sequence that is open, so   *)
(* that it is taken as if there were none.                                  *)
Outside(mode, b) ==
  \/ mode = "ground"
  \/ mode = "csi" /\ b \notin Param \cup Inter \cup Final
  \/ mode = "csiInter" /\ b \notin Inter \cup Final

(* What the terminal is in the middle of after one more byte.               *)
Mode(mode, b) ==
  IF Outside(mode, b) THEN IF b = "ESC" THEN "esc" ELSE "ground"
  ELSE IF mode = "esc"
       THEN IF b = "[" THEN "csi" ELSE IF b = "]" THEN "osc" ELSE IF b = "P" THEN "dcs" ELSE "ground"
  ELSE IF mode \in {"csi", "csiInter"}
       THEN IF b \in Param THEN "csi" ELSE IF b \in Inter THEN "csiInter" ELSE "ground"
  ELSE LET string == IF mode \in {"osc", "oscEsc"} THEN "osc" ELSE "dcs" IN
       IF b = "ST" \/ (b = "BEL" /\ string = "osc") \/ (b = "\\" /\ mode \in {"oscEsc", "dcsEsc"})
       THEN "ground"
       ELSE IF b = "ESC" THEN IF string = "osc" THEN "oscEsc" ELSE "dcsEsc"
       ELSE string

Terminal(t, b) ==
  [mode |-> Mode(t.mode, b),
   out |-> IF Outside(t.mode, b) /\ b # "ESC" THEN Append(t.out, b) ELSE t.out]

Ground == [mode |-> "ground", out |-> <<>>]

(* What a terminal shows of a stream of bytes.                              *)
Visible(raw) ==
  LET after[i \in 0..Len(raw)] == IF i = 0 THEN Ground ELSE Terminal(after[i - 1], raw[i])
  IN  after[Len(raw)].out
=============================================================================
