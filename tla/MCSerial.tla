------------------------------ MODULE MCSerial ------------------------------
(* Monitoring of short outputs with every mixture of escape bytes, and       *)
(* scripts against a device that says a's and b's.                          *)
EXTENDS Serial

Args(tokens, eol, timeout, keep, delay) ==
  [tokens |-> tokens, eol |-> eol, timeout |-> timeout, keepEscapes |-> keep, delay |-> delay]
With(args, output) == args @@ [output |-> output]

Escaped == BoundedSeq({"ESC", "[", "]", "0", "\\", "a"}, 3) \cup {
  <<"a", "ESC", "[", "0", " ", "m", "a">>, <<"ESC", "[", " ", "0", "a">>,
  <<"ESC", "]", "a", "ESC", "\\", "a">>, <<"ESC", "]", "ESC", "BEL", "a">>,
  <<"ESC", "P", "BEL", "ST", "a">>, <<"ESC", "[", "0", "\n", "a">>,
  <<"ESC", "[", "0", "ESC", "[", "m", "a">>, <<"ESC", "[", "0", "0", "0", "m", "a">>}

Monitors == {With(Args(<<>>, "cr", TRUE, FALSE, FALSE), o) : o \in Escaped}
            \cup {With(Args(<<>>, "cr", FALSE, TRUE, FALSE), <<"ESC", "[", "m">>)}

Scripts == {
  Args(<<"expect", <<"a", "b">>>>, "cr", FALSE, FALSE, TRUE),
  Args(<<"expect", <<"a">>, "send", <<"x">>, "expect", <<"a">>>>, "crlf", TRUE, FALSE, TRUE),
  Args(<<"expect", <<"a">>, "expect", <<"a", "b">>>>, "cr", TRUE, FALSE, TRUE),
  Args(<<"expect", <<"a", "b", "a">>, "send-raw", <<>>>>, "none", FALSE, FALSE, FALSE),
  Args(<<"send", <<"\\", "x", "0", "a">>, "send-raw", <<"a", "b">>>>, "lf", TRUE, FALSE, FALSE)}

Invalids == {
  Args(<<"expect">>, "cr", FALSE, FALSE, TRUE), Args(<<"wait", <<"a">>>>, "cr", FALSE, FALSE, TRUE),
  Args(<<"send", <<"\\", "x", "0">>>>, "cr", FALSE, FALSE, TRUE), Args(<<>>, "nl", FALSE, FALSE, TRUE)}

MCScenarios ==
  Monitors \cup {With(args, o) : args \in Scripts, o \in BoundedSeq({"a", "b"}, 4)}
  \cup {With(args, <<"a">>) : args \in Invalids}
==============================================================================
