------------------------------- MODULE WireText -------------------------------
(***************************************************************************)
(* The text of the protocol between class Client and kdesud: how a call is *)
(* written on a line (client.cpp), how the lexer takes the line apart      *)
(* (lexer.cpp), what doCommand() makes of the tokens (handler.cpp), and    *)
(* how an answer is written and read back.                                 *)
(*                                                                         *)
(* A text is a sequence of characters 0 .. 255.  A keyword in a line is    *)
(* one character as well, the number of its token.  Bytes above 127 are    *)
(* letters like others, as they are for isspace() and iscntrl() in a UTF-8 *)
(* or C locale.  What is computed from a whole text is a function on texts.*)
(***************************************************************************)
EXTENDS Characters

CONSTANT IntMax    \* the largest int

ASSUME IntMaxAssumption == IntMax \in Nat

\* enum Tokens; lex() returns a newline as itself.
Tok_none == 0
Tok_str == 257
Tok_num == 258
Keywords == 300 .. 315

Tok_exec == 300
Tok_pass == 301
Tok_delCmd == 302
Tok_ping == 303
Tok_stop == 304
Tok_set == 305
Tok_get == 306
Tok_delVar == 307
Tok_delGroup == 308
Tok_host == 309
Tok_prio == 310
Tok_sched == 311
Tok_getKeys == 312
Tok_chkGroup == 313
Tok_delSpecialKey == 314
Tok_exit == 315

IsSpace(c) == c \in (9 .. 13) \cup {Space}
IsDigit(c) == c \in Zero .. Zero + 9

-----------------------------------------------------------------------------
(* What the client writes.  A call is a keyword, strings and numbers.        *)

EscapedSlip(c) ==      \* the backslash itself is not escaped
    IF c < 32 THEN <<Backslash, Caret, c + At>>
    ELSE IF c = Quote THEN <<Backslash, c>> ELSE <<c>>

Escaped(c) ==
    CASE c < 32                  -> <<Backslash, Caret, c + At>>
      [] c \in {Backslash, Quote} -> <<Backslash, c>>
      [] OTHER                   -> <<c>>

Escape(text) ==
    <<Quote>> \o FlattenSeq([i \in DOMAIN text |-> Escaped(text[i])]) \o <<Quote>>

\* setNum(), number(): decimal digits.
Digits == [n \in 0 .. IntMax + 1 |->
    LET digits[k \in 0 .. n] ==
            IF k < 10 THEN <<Zero + k>> ELSE Append(digits[k \div 10], Zero + (k % 10))
    IN  digits[n]]

Decimal(n) == IF n < 0 THEN <<Minus>> \o Digits[-n] ELSE Digits[n]

\* exec() leaves out the options and the environment when both are empty.
Written(call) ==
    IF call.op = Tok_exec /\ Tail(Tail(call.strings)) = << <<>> >>
    THEN SubSeq(call.strings, 1, 2) ELSE call.strings

Line(call) ==
    LET words == [i \in DOMAIN Written(call) |-> Escape(Written(call)[i])]
                 \o [i \in DOMAIN call.numbers |-> Decimal(call.numbers[i])]
    IN  <<call.op>> \o FlattenSeq([i \in DOMAIN words |-> <<Space>> \o words[i]])
        \o <<Newline>>

-----------------------------------------------------------------------------
(* lex(): the token that begins at a position, and where the next one does.  *)
(* A line is followed by the NUL that ends every QByteArray.                 *)

Char(line, i) == IF i <= Len(line) THEN line[i] ELSE Nul

Texts == Seq(0 .. 315)

Token(kind, text, next) == [kind |-> kind, text |-> text, next |-> next]
NoToken(next) == Token(Tok_none, <<>>, next)
Prefixed(c, token) == [token EXCEPT !.text = <<c>> \o @]

\* The first position from i on whose character passes the test; the NUL is one.
FirstFrom(line, i, Test(_)) ==
    CHOOSE j \in i .. Len(line) + 1 :
        Test(Char(line, j)) /\ \A k \in i .. j - 1 : ~Test(Char(line, k))

\* Inside quotes: the rest of a string, from every position.
QuotedSlip(line) ==      \* the end of the line does not end a string
    [i \in 1 .. Len(line) + 1 |->
        LET end == SelectInSubSeq(line, i, Len(line), LAMBDA c : c = Quote)
        IN  IF end = 0 THEN NoToken(Len(line) + 3)
            ELSE Token(Tok_str, SubSeq(line, i, end - 1), end + 1)]

Quoted(line) ==
    LET rest[i \in 1 .. Len(line) + 1] ==
            LET c == Char(line, i)
                d == Char(line, i + 1)
                e == Char(line, i + 2)
            IN  IF c = Quote THEN Token(Tok_str, <<>>, i + 1)
                ELSE IF IsControl(c) THEN NoToken(i + 1)
                ELSE IF c /= Backslash THEN Prefixed(c, rest[i + 1])
                ELSE IF IsControl(d) THEN NoToken(i + 2)
                ELSE IF d /= Caret THEN Prefixed(d, rest[i + 2])
                ELSE IF e = Quote \/ IsControl(e) THEN NoToken(i + 3)
                ELSE Prefixed((e - At) % 256, rest[i + 3])
    IN  rest

\* A run of characters up to the position end, which is read again.
Run(line, from, end) == SubSeq(line, from, end - 1)

Word(line, from) ==
    LET end  == FirstFrom(line, from, LAMBDA c : IsSpace(c) \/ IsControl(c))
        text == Run(line, from, end)
    IN  IF Len(text) = 1 /\ text[1] \in Keywords THEN Token(text[1], text, end)
        ELSE Token(Tok_str, text, end)

Number(line, from) ==
    LET end == FirstFrom(line, from, LAMBDA c : ~IsDigit(c))
    IN  Token(Tok_num, Run(line, from, end), end)

\* Spaces are skipped, a newline after them included.
Lex(line, i) ==
    LET c    == Char(line, i)
        from == IF IsSpace(c) THEN FirstFrom(line, i, LAMBDA d : ~IsSpace(d)) ELSE i
    IN  CASE c = Newline                -> Token(Newline, <<>>, i + 1)
          [] c /= Newline /\ IsControl(c) -> NoToken(i + 1)
          [] OTHER ->
                IF IsDigit(Char(line, from)) THEN Number(line, from)
                ELSE IF Char(line, from) = Quote THEN Quoted(line)[from + 1]
                ELSE Word(line, from)

\* The tokens of a line, up to its end or to a character that is none.
Tokens[line \in Texts] ==
    LET from[i \in 1 .. Len(line) + 2] ==
            LET token == Lex(line, i)
            IN  IF token.kind \in {Newline, Tok_none} THEN <<token>>
                ELSE <<token>> \o from[token.next]
    IN  from[1]

-----------------------------------------------------------------------------
(* doCommand(): what a line has to look like, and the call it is taken for.  *)

\* DELG and DELS do not look at what follows their argument.
Pattern(op) ==
    CASE op = Tok_pass -> <<Tok_str, Tok_num, Newline>>
      [] op = Tok_set -> <<Tok_str, Tok_str, Tok_str, Tok_num, Newline>>
      [] op = Tok_delCmd -> <<Tok_str, Tok_str, Newline>>
      [] op \in {Tok_host, Tok_get, Tok_getKeys, Tok_chkGroup, Tok_delVar} ->
            <<Tok_str, Newline>>
      [] op \in {Tok_prio, Tok_sched} -> <<Tok_num, Newline>>
      [] op \in {Tok_delGroup, Tok_delSpecialKey} -> <<Tok_str>>
      [] op \in {Tok_ping, Tok_exit, Tok_stop} -> <<Newline>>

\* EXEC: command, user, then options and an environment of any length.
IsExec(kinds) ==
    /\ Len(kinds) >= 3
    /\ Last(kinds) = Newline
    /\ \A i \in 1 .. Len(kinds) - 1 : kinds[i] = Tok_str

WellFormed(op, kinds) ==
    IF op = Tok_exec THEN IsExec(kinds) ELSE IsPrefix(Pattern(op), kinds)

\* toInt() is 0 when the number does not fit.
ToInt(digits) ==
    LET value[k \in 0 .. Len(digits)] ==
            IF k = 0 THEN 0 ELSE 10 * value[k - 1] + digits[k] - Zero
    IN  IF value[Len(digits)] <= IntMax THEN value[Len(digits)] ELSE 0

Malformed == [op |-> Tok_none, strings |-> <<>>, numbers |-> <<>>]
Unknown == [op |-> Tok_str, strings |-> <<>>, numbers |-> <<>>]

\* The texts of the tokens of one kind, and options that are not there.
TextsOf(tokens, kind) ==
    FlattenSeq([i \in DOMAIN tokens |->
                   IF tokens[i].kind = kind THEN <<tokens[i].text>> ELSE <<>>])

WithOptions(op, strings) ==
    IF op = Tok_exec /\ Len(strings) = 2 THEN Append(strings, <<>>) ELSE strings

\* The call of a keyword and the tokens behind it.
Understood(op, tokens) ==
    [op      |-> op,
     strings |-> WithOptions(op, TextsOf(tokens, Tok_str)),
     numbers |-> LET nums == TextsOf(tokens, Tok_num)
                 IN  [i \in DOMAIN nums |-> ToInt(nums[i])]]

TokenLists == Seq([kind : Nat, text : Texts, next : Nat])

CallOf[tokens \in TokenLists] ==
    LET op   == tokens[1].kind
        args == Tail(tokens)
    IN  IF op \notin Keywords THEN Unknown
        ELSE IF ~WellFormed(op, [i \in DOMAIN args |-> args[i].kind]) THEN Malformed
        ELSE IF op \in {Tok_delGroup, Tok_delSpecialKey} THEN Understood(op, <<args[1]>>)
        ELSE Understood(op, args)

Parsed(line) == CallOf[Tokens[line]]

-----------------------------------------------------------------------------
(* Answers: respond() and sendExitCode() write them, command() reads them.   *)

Answer(ok, text) == [ok |-> ok, text |-> text]
Ok == Answer(TRUE, <<>>)
No == Answer(FALSE, <<>>)

OkText == <<79, 75>>
NoText == <<78, 79>>

Reply(answer) ==
    (IF answer.ok THEN OkText ELSE NoText)
    \o (IF answer.text = <<>> THEN <<>> ELSE <<Space>> \o answer.text)
    \o <<Newline>>

\* left(2) and mid(3, length - 4).
Reading(bytes) ==
    LET reply == UpToNul(bytes)
    IN  IF IsPrefix(OkText, reply)
        THEN Answer(TRUE, SubSeq(reply, 4, Len(reply) - 1)) ELSE No
===============================================================================
