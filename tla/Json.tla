-------------------------------- MODULE Json --------------------------------
(***************************************************************************)
(* webview.h, 481-770: the two halves of JSON that the webview library     *)
(* has of its own.  json_parse takes one member out of the message that a  *)
(* page posts, json_escape makes the answer a literal of the script that   *)
(* settles the promise.                                                    *)
(*                                                                         *)
(* A text is a sequence of characters, which are strings: the ones named   *)
(* below, and any other for a run of characters that nothing here tells    *)
(* apart.  BS, NUL and US stand for characters that TLA+ cannot write,     *)
(* LEAD1 to LEAD3 for the first byte of a UTF-8 sequence with so many      *)
(* bytes to follow, CONT for those, F7 for a byte that UTF-8 never has.    *)
(***************************************************************************)
EXTENDS Integers, Sequences
LOCAL INSTANCE SequencesExt

Quote     == "\""
Backslash == "\\"
Blank     == {" ", "\t", "\n", "\r", ",", ":"}
Opening   == {"{", "["}
Closing   == {"}", "]"}
Literals  == {"true", "false", "null"} \union {"0", "1", "2", "3", "4"}
Follow    == [LEAD1 |-> 1, LEAD2 |-> 2, LEAD3 |-> 3]

\* The control characters that have no letter, and how \u spells them.
Hex == [NUL |-> "0000", US |-> "001f"]

\* Characters with a letter, <<character, letter>>.
Letters ==
  {<<Quote, Quote>>, <<Backslash, Backslash>>, <<"BS", "b">>, <<"\f", "f">>,
   <<"\n", "n">>, <<"\r", "r">>, <<"\t", "t">>}

is_json_special_char(c) == \E l \in Letters : l[1] = c

LetterOf(c) == (CHOOSE l \in Letters : l[1] = c)[2]

is_ascii_control_char(c) ==
  c \in DOMAIN Hex \union {"BS", "\f", "\n", "\r", "\t"}

\* One character as json_escape writes it.
escaped(c) ==
  IF is_json_special_char(c) THEN <<Backslash, LetterOf(c)>>
  ELSE IF is_ascii_control_char(c) THEN <<Backslash, "u", Hex[c]>>
  ELSE <<c>>

json_escape(s) ==
  <<Quote>> \o FlattenSeq([i \in DOMAIN s |-> escaped(s[i])]) \o <<Quote>>

-----------------------------------------------------------------------------
(***************************************************************************)
(* json_parse_c.  The record r is its local variables; a position is 0     *)
(* where the code has nullptr.                                             *)
(***************************************************************************)
Fail(r) == [r EXCEPT !.return = "-1"]

Opens(action)  == action \in {"start", "start_struct"}
Closes(action) == action \in {"end", "end_struct"}

\* What the action of the character at p does at depth 1, in the object or
\* array that is searched.
AtMember(r, action, s, key, p) ==
  IF Opens(action)
  THEN IF r.index = 0 THEN [r EXCEPT !.value = p]
       ELSE IF key # <<>> /\ r.index = 1 THEN [r EXCEPT !.k = p]
       ELSE [r EXCEPT !.index = @ - 1]
  ELSE IF Closes(action)
  THEN IF r.value # 0 /\ r.index = 0
       THEN [r EXCEPT !.size = p + 1 - r.value, !.return = "0"]
       ELSE IF key # <<>> /\ r.k # 0
       THEN [r EXCEPT !.index = IF SubSeq(s, r.k + 1, p - 1) = key THEN 0 ELSE 2,
                      !.k = 0]
       ELSE r
  ELSE r

Act(r, action, s, key, p) ==
  LET d  == IF action = "end_struct" THEN r.depth - 1 ELSE r.depth
      r1 == [r EXCEPT !.depth = d]
      r2 == IF d = 1 THEN AtMember(r1, action, s, key, p) ELSE r1
  IN  IF action = "start_struct" THEN [r2 EXCEPT !.depth = d + 1] ELSE r2

To(r, state) == [r EXCEPT !.state = state]

\* JSON_STATE_VALUE
InValue(r, s, key, p) ==
  LET c == s[p]
  IN  IF c \in Blank THEN r
      ELSE IF c = Quote THEN Act(To(r, "string"), "start", s, key, p)
      ELSE IF c \in Opening THEN Act(r, "start_struct", s, key, p)
      ELSE IF c \in Closing THEN Act(r, "end_struct", s, key, p)
      ELSE IF c \in Literals THEN Act(To(r, "literal"), "start", s, key, p)
      ELSE Fail(r)

\* JSON_STATE_ESCAPE
InEscape(r, s, key, p) ==
  IF s[p] \in {Quote, Backslash, "/", "b", "f", "n", "r", "t", "u"}
  THEN To(r, "string")
  ELSE Fail(r)

\* JSON_STATE_STRING
InString(r, s, key, p) ==
  LET c == s[p]
  IN  IF is_ascii_control_char(c) \/ c \in {"DEL", "CONT"} THEN Fail(r)
      ELSE IF c = Quote THEN Act(To(r, "value"), "end", s, key, p)
      ELSE IF c = Backslash THEN To(r, "escape")
      ELSE IF c \in DOMAIN Follow THEN [To(r, "utf8") EXCEPT !.utf8_bytes = Follow[c]]
      ELSE r

\* JSON_STATE_LITERAL, which falls through to the checks of a string.  What
\* ends a literal is read again as the start of a value.
InLiteral(r, s, key, p) ==
  LET c == s[p]
  IN  IF c \in Blank \union Closing
      THEN IF is_ascii_control_char(c) THEN Fail(r)
           ELSE LET ended == Act(To(r, "value"), "end", s, key, p - 1)
                IN  IF ended.return = "none" THEN InValue(ended, s, key, p) ELSE ended
      ELSE IF c \in DOMAIN Follow \union {"F7"} THEN Fail(r)
      ELSE InString(r, s, key, p)

\* JSON_STATE_UTF8
InUtf8(r, s, key, p) ==
  IF s[p] # "CONT" THEN Fail(r)
  ELSE [r EXCEPT !.utf8_bytes = @ - 1,
                 !.state = IF r.utf8_bytes = 1 THEN "string" ELSE "utf8"]

Step(r, s, key, p) ==
  CASE r.return # "none"    -> r
    [] r.state = "value"   -> InValue(r, s, key, p)
    [] r.state = "literal" -> InLiteral(r, s, key, p)
    [] r.state = "string"  -> InString(r, s, key, p)
    [] r.state = "escape"  -> InEscape(r, s, key, p)
    [] r.state = "utf8"    -> InUtf8(r, s, key, p)

json_parse_c(s, key, index) ==
  LET r[p \in 0..Len(s)] ==
        IF p = 0
        THEN [state |-> "value", k |-> 0, depth |-> 0, utf8_bytes |-> 0,
              index |-> IF key = <<>> THEN index ELSE 1,
              value |-> 0, size |-> 0, return |-> "none"]
        ELSE CHOOSE after \in {Step(before, s, key, p) : before \in {r[p - 1]}} : TRUE
  IN  r[Len(s)]

-----------------------------------------------------------------------------
\* The value of the text between two quotes, or "error": \u is not supported.
json_unescape(v) ==
  LET Letter(x) == IF x = "/" THEN x ELSE (CHOOSE l \in Letters : l[2] = x)[1]
      known     == {l[2] : l \in Letters} \union {"/"}
      next(b, c) ==
        IF ~b.ok THEN b
        ELSE IF b.escape
        THEN IF c \in known
             THEN [b EXCEPT !.out = Append(@, Letter(c)), !.escape = FALSE]
             ELSE [b EXCEPT !.ok = FALSE]
        ELSE IF c = Backslash THEN [b EXCEPT !.escape = TRUE]
        ELSE [b EXCEPT !.out = Append(@, c)]
      r[n \in 1..(Len(v) - 1)] ==
        IF n = 1 THEN [out |-> <<>>, escape |-> FALSE, ok |-> TRUE]
        ELSE CHOOSE after \in {next(b, v[n]) : b \in {r[n - 1]}} : TRUE
      last == r[Len(v) - 1]
  IN  IF last.ok /\ ~last.escape THEN last.out ELSE <<>>

\* A string is decoded, any other value is returned as it is written.  The
\* result of json_parse_c is not looked at: a value that it has begun to read
\* when it fails is a value of size 0.
json_parse(s, key, index) ==
  LET r == json_parse_c(s, key, index)
  IN  IF r.value = 0 THEN <<>>
      ELSE IF s[r.value] # Quote THEN SubSeq(s, r.value, r.value + r.size - 1)
      ELSE IF r.size < 2 THEN <<>>
      ELSE json_unescape(SubSeq(s, r.value, r.value + r.size - 1))

-----------------------------------------------------------------------------
\* JSON as its definition has it, and as JavaScript and Go read and write it.

Spelling(c) ==
  IF \E l \in Letters : l[1] = c THEN <<Backslash, LetterOf(c)>>
  ELSE IF c \in DOMAIN Hex THEN <<Backslash, "u", Hex[c]>> ELSE <<c>>

\* The text of a string.
Written(s) ==
  <<Quote>> \o FlattenSeq([i \in DOMAIN s |-> Spelling(s[i])]) \o <<Quote>>

Malformed == <<"malformed">>

\* The string that a text between quotes stands for.
Read(t) ==
  LET after(b, out) == [b EXCEPT !.out = Append(@, out), !.in = "text"]
      to(b, in)     == [b EXCEPT !.in = in]
      next(b, c) ==
        CASE b.in = "text" /\ c = Backslash -> to(b, "escape")
          [] b.in = "text" /\ c # Backslash /\ c # Quote /\ Spelling(c) = <<c>> -> after(b, c)
          [] b.in = "escape" /\ c = "u" -> to(b, "hex")
          [] b.in = "escape" /\ \E l \in Letters : l[2] = c ->
               after(b, (CHOOSE l \in Letters : l[2] = c)[1])
          [] b.in = "hex" /\ \E x \in DOMAIN Hex : Hex[x] = c ->
               after(b, CHOOSE x \in DOMAIN Hex : Hex[x] = c)
          [] OTHER -> to(b, "bad")
      r[n \in 1..Len(t)] ==
        IF n = 1 THEN [out |-> <<>>, in |-> IF t[1] = Quote THEN "text" ELSE "bad"]
        ELSE IF n < Len(t) THEN CHOOSE x \in {next(b, t[n]) : b \in {r[n - 1]}} : TRUE
        ELSE IF t[n] = Quote THEN r[n - 1] ELSE to(r[n - 1], "bad")
  IN  IF Len(t) >= 2 /\ r[Len(t)].in = "text" THEN r[Len(t)].out ELSE Malformed
=============================================================================
