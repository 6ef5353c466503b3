----------------------------- MODULE MCPtyProcess -----------------------------
(***************************************************************************)
(* An instance of PtyProcess: lines of two characters, an exit string of   *)
(* two, output that has it at the beginning of a line, inside one, and in  *)
(* two parts, and strings with every character that is written in another  *)
(* way.                                                                    *)
(***************************************************************************)
EXTENDS PtyProcess

MCHeader == <<75, 83>>
MCAskCommand == <<99, 111>>
MCAskEnvironment == <<101, 110>>
MCEnd == <<101, 100>>
MCExitString == <<120, 121>>

MCCommands == {<<Backslash, Slash>>, <<28, Newline, 200>>, <<97, Delete>>}
MCVariables == {<<97, Newline>>, <<Newline>>}
MCNotices == {<<97, Newline>>, <<97, 58, Newline>>}
MCOutputs == {<<120>>, <<121, Newline>>, <<97, 120, 121>>, <<97, Newline, 120, 121, Newline>>}

\* The premise of StubGetsStringsHolds is met here.
ASSUME MCQuietNotices == QuietNotices
===============================================================================
