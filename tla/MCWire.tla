-------------------------------- MODULE MCWire --------------------------------
(***************************************************************************)
(* An instance of Wire.  The strings have every character that means       *)
(* something to one of the conversions; one line just fits into the        *)
(* buffer, one is a byte too long, and one would fit but for its escapes.  *)
(***************************************************************************)
EXTENDS Wire

name == <<97>>
text(c, d) == <<c, d>>
MCCall(op, strings, numbers) == [op |-> op, strings |-> strings, numbers |-> numbers]
SetTo(value) == MCCall(Tok_set, <<name, value, <<103>> >>, <<2>>)

MCCalls ==
    {MCCall(op, <<>>, <<>>) : op \in {Tok_ping, Tok_exit, Tok_stop}}
    \cup {MCCall(op, <<name>>, <<>>) : op \in {Tok_get, Tok_getKeys, Tok_delVar, Tok_delGroup}}
    \cup {SetTo(<<Quote, Backslash>>), SetTo(<<Newline, Caret>>), SetTo(<<Nul, 200>>),
          SetTo(<<Quote, 1>>), SetTo(<<1, 1>>)}
    \cup {MCCall(Tok_prio, <<>>, <<n>>) : n \in {-5, 12}}
    \cup {MCCall(Tok_host, <<t>>, <<>>) : t \in {<<>>, <<Delete>>}}
    \cup {MCCall(Tok_pass, << <<Tok_ping - 200, Zero>> >>, <<0>>)}
    \cup {MCCall(Tok_exec, <<name, <<Caret>>, <<>> >> \o env, <<>>) :
            env \in {<<>>, << <<At>> >>}}

MCMaxCalls == [client |-> 3, pipeline |-> 2, stranger |-> 1]

MCKeyLists == {<<97, 7, 98>>, [i \in 1 .. 16 |-> 97], [i \in 1 .. 17 |-> 97]}

\* Every line of up to four characters of an alphabet that takes the lexer
\* through all of its branches, and some that are longer.
Alphabet == {Tok_prio, Space, Quote, Backslash, Caret, Zero + 9}
MCRawLines ==
    {Append(t, Newline) : t \in UNION {[1 .. n -> Alphabet] : n \in 0 .. 4}}
    \cup {<<Tok_prio, Space, Zero + 1, Zero + 3, Newline>>,
          <<Tok_delGroup, Space, Quote, 97, Quote, 97, Newline>>,
          <<Tok_host, 9, 97, Newline>>,
          <<Tok_get, Space, Quote, Backslash, Caret, At - 1, Quote, Newline>>}
===============================================================================
