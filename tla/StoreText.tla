------------------------------- MODULE StoreText -------------------------------
(***************************************************************************)
(* The texts of the keys of class Repository: makeKey() puts them          *)
(* together, DELS looks for texts inside them, findKeys() lists the names  *)
(* in them, and Client::getKeys() takes the list apart.  Module            *)
(* RepositoryOps has three relations in their place, which are given here. *)
(***************************************************************************)
EXTENDS RepositoryOps
LOCAL INSTANCE Characters

Star == 42
Dash == 45
Bell == 7

\* ConnectionHandler::makeKey() for a namespace below 10.
MakeKey(namespace, s1, s2, s3) ==
    <<Zero + namespace, Star>> \o s1 \o <<Star>> \o s2 \o <<Star>> \o s3

\* indexOf(), contains()
Occurs(s, text) ==
    \E i \in 0 .. Len(text) - Len(s) : SubSeq(text, i + 1, i + Len(s)) = s

Prefixing(groups, specials) == {m \in groups \X specials : IsPrefix(m[1], m[2])}
Occurring(specials, keys) == {m \in specials \X keys : Occurs(m[1], m[2])}

-----------------------------------------------------------------------------
(* GETK                                                                      *)

\* The key up to its last '-', without the namespace; nothing if there is none.
Name(key) ==
    LET last == SelectLastInSeq(key, LAMBDA c : c = Dash)
    IN  After(FirstOf(key, last - 1), 2)

WithName(keys) == {k \in keys : Name(k) /= <<>>}

\* The order of a QMap: the first character that differs, then the length.
Precedes(s, t) ==
    \/ IsStrictPrefix(s, t)
    \/ \E i \in DOMAIN s \cap DOMAIN t :
          s[i] < t[i] /\ \A j \in 1 .. i - 1 : s[j] = t[j]

JoinedSlip(list, name) == list \o <<Bell>> \o name      \* never mind whether it is there

Joined(list, name) ==
    IF Occurs(name, list) THEN list ELSE list \o <<Bell>> \o name

FindKeys(r, group) ==
    FoldLeft(LAMBDA list, key : IF list = <<>> THEN Name(key) ELSE Joined(list, Name(key)),
             <<>>, SetToSortSeq(InGroup(r, group), Precedes))

\* Client::getKeys() of the text of an answer.
GetKeys(reply) ==
    LET bells == {0} \cup {i \in DOMAIN reply : reply[i] = Bell}
        Item(b) == SubSeq(reply, b + 1,
                          Min({c - 1 : c \in {d \in bells : d > b}} \cup {Len(reply)}))
    IN  IF reply = <<>> THEN <<>>
        ELSE LET starts == SetToSortSeq(bells, <)
             IN  [i \in DOMAIN starts |-> Item(starts[i])]

-----------------------------------------------------------------------------
(* Properties of a repository.                                               *)

\* The names of the keys in a group, said without the list: what stands between the
\* namespace and the last '-' of a key.
NamesIn(r, group) ==
    {SubSeq(p[1], 3, p[2] - 1) :
        p \in {q \in InGroup(r, group) \X (4 .. Max({Len(k) : k \in Keys})) :
                  q[2] <= Len(q[1]) /\ IndexOf(After(q[1], q[2] - 1), Dash) = 1
                  /\ IndexOf(After(q[1], q[2]), Dash) = 0}}

\* getKeys() lists names of keys in the group, each once, and leaves out only a name
\* that is a part of another one it lists; it lists something if the daemon says OK,
\* which is what FindsKeys says (repo.cpp:107-136, client.cpp:299-326).
ListsKeys(r, group) ==
    LET listed == GetKeys(FindKeys(r, group))
        names  == NamesIn(r, group)
    IN  /\ IsInjective(listed) /\ ToSet(listed) \subseteq names
        /\ \A n \in names \ ToSet(listed) : \E m \in ToSet(listed) : Occurs(n, m)
        /\ FindsKeys(r, group) <=> listed /= <<>>
===============================================================================
