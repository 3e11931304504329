----------------------------- MODULE CommandText -----------------------------
(***************************************************************************)
(* The text of a command: Device::send_command (src/thinq/device.cpp) puts *)
(* a backslash before every quote of a parameter's value, in place and     *)
(* from left to right, and ApiClient::send_command refuses a body that is  *)
(* not JSON.                                                               *)
(*                                                                         *)
(* A value is a sequence of symbols: those JSON treats alike are one.  "n" *)
(* is a letter that means something else behind a backslash, and "control" *)
(* is a control character, a line end or a tab as it stands, which has no  *)
(* place in a JSON string.                                                 *)
(***************************************************************************)
EXTENDS Places, SequencesExt

CONSTANT Value  \* the values of parameters

Symbol == {"quote", "backslash", "n", "control", "other"}

ASSUME ValueAssumption == Value \subseteq Seq(Symbol)

VARIABLES
  value,          \* the parameter's value
  escaped_value,
  pos

textVars == <<value, escaped_value, pos>>

TextInit == value = <<>> /\ escaped_value = <<>> /\ pos = 1

TakeValue(v) == value' = v /\ escaped_value' = v /\ pos' = 1
-----------------------------------------------------------------------------
\* Mutant for EscapedSoFar: the quote just escaped is found again.
StepOverOne(i) == pos' = i + 1
-----------------------------------------------------------------------------
\* The places of escaped_value.find('"', pos).
QuotesLeft == {i \in pos .. Len(escaped_value) : escaped_value[i] = "quote"}

StepOver(i) == pos' = i + 2

EscapeNext ==
  \E i \in QuotesLeft :
    /\ \A j \in QuotesLeft : i <= j
    /\ escaped_value' = InsertAt(escaped_value, i, "backslash")
    /\ StepOver(i)
    /\ UNCHANGED value

\* Mutant for ParameterArrives: only the first quote is escaped.
EscapedOnce == QuotesLeft = {} \/ pos > 1

Escaped == QuotesLeft = {}
-----------------------------------------------------------------------------
\* How a JSON reader takes the next symbol of a string; a quote without a
\* backslash ends the string before the body does.
ReadSymbol(r, c) ==
  CASE r.escape /\ c = "n" -> [r EXCEPT !.escape = FALSE, !.text = Append(@, "newline")]
    [] r.escape /\ c = "other" -> [r EXCEPT !.ok = FALSE]
    [] r.escape /\ c \in {"quote", "backslash"} ->
         [r EXCEPT !.escape = FALSE, !.text = Append(@, c)]
    [] ~r.escape /\ c = "backslash" -> [r EXCEPT !.escape = TRUE]
    [] ~r.escape /\ c = "quote" -> [r EXCEPT !.ok = FALSE]
    [] c = "control" -> [r EXCEPT !.ok = FALSE]
    [] OTHER -> [r EXCEPT !.text = Append(@, c)]

Reading(text) ==
  LET r[i \in 0 .. Len(text)] ==
        IF i = 0 THEN [ok |-> TRUE, escape |-> FALSE, text |-> <<>>]
                 ELSE ReadSymbol(r[i - 1], text[i])
  IN  r

ReadString(text) == Reading(text)[Len(text)]
BodyIsJson == ReadString(escaped_value).ok /\ ~ReadString(escaped_value).escape
-----------------------------------------------------------------------------
Quotes == {i \in DOMAIN value : value[i] = "quote"}

\* Where symbol i of the value is once the quotes up to it are escaped.
Place(i) == i + Rank(Quotes, i)

EscapedUpTo(n) ==
  /\ Len(escaped_value) = Len(value) + Rank(Quotes, n)
  /\ \A i \in 1 .. n :
        /\ escaped_value[Place(i)] = value[i]
        /\ i \in Quotes => escaped_value[Place(i) - 1] = "backslash"
  /\ \A i \in n + 1 .. Len(value) : escaped_value[i + Rank(Quotes, n)] = value[i]

\* The loop looks for quotes in the text it inserts quotes into: before pos the
\* value is escaped once, and from pos on it is untouched.
EscapedSoFar == \E n \in 0 .. Len(value) : pos = Place(n) + 1 /\ EscapedUpTo(n)
=============================================================================
