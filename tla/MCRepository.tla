----------------------------- MODULE MCRepository -----------------------------
(***************************************************************************)
(* An instance of Repository whose keys are texts: a password and three    *)
(* variables that can share a group, of which two have the same name and   *)
(* one has a name that is a part of theirs; clock values 0 .. 2 and        *)
(* time-outs that are due soon, later, never, and beyond the end of the    *)
(* run.                                                                    *)
(***************************************************************************)
EXTENDS Repository, StoreText

CONSTANTS v1

a == 97
b == 98

MCKeys ==
    {MakeKey(0, <<>>, <<a>>, <<b>>),
     MakeKey(1, <<a, Dash, b, Dash, a>>, <<>>, <<>>),
     MakeKey(1, <<a, Dash, b, Dash, b>>, <<>>, <<>>),
     MakeKey(1, <<b, Dash, b>>, <<>>, <<>>)}
NoText == <<>>
MCGroups == {NoText, <<a>>}
MCSpecials == {<<a, Dash, b>>}
MCPrefixOf == Prefixing(MCGroups, MCSpecials)
MCOccursIn == Occurring(MCSpecials, MCKeys)
MCStemmed == WithName(MCKeys)

\* What is listed for each group, whatever was added, deleted and has expired.
KeysListed == \A g \in Groups : ListsKeys(repo, g)
===============================================================================
