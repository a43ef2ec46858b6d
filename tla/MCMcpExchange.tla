---------------------------- MODULE MCMcpExchange ----------------------------
(* Places, replies and answers for TLC: the same origin by another path and   *)
(* another origin; answers with and without an id of their own, streams with  *)
(* notes first; every text of up to three characters and some longer ones,    *)
(* alone, and the shortest ahead of one in which the cap falls into a key,    *)
(* beside structured answers that are none, small, too big, cut by a          *)
(* character nobody sees, with keys that become one, or not readable.         *)
EXTENDS McpExchange
CONSTANT MaxText

MCHome == [origin |-> "home", named |-> TRUE]
MCPlaces == {MCHome, [origin |-> "home", named |-> FALSE], [origin |-> "other", named |-> TRUE]}

Event(kind, id) == [kind |-> kind, id |-> id]
Reply(status, type, events) == [status |-> status, type |-> type, events |-> events]
MCReplies ==
  {Reply("sign in", "empty", <<>>), Reply("error", "json", <<Event("result", 1)>>),
   Reply("ok", "empty", <<>>), Reply("ok", "json", <<Event("unreadable", 0)>>)}
  \cup {Reply("ok", "json", <<Event(kind, id)>>) : kind \in {"result", "error"}, id \in 1..2}
  \cup {Reply("ok", "stream", <<Event("note", 0), Event("result", 1), Event("result", 2)>>),
        Reply("ok", "stream", <<Event("note", 0), Event("result", 2)>>),
        Reply("ok", "stream", <<Event("note", 0), Event("note", 0), Event("result", 2)>>)}

Text(classes, part) == [i \in DOMAIN classes |-> [ch |-> classes[i], at |-> <<part, i>>]]
Classes == (Printable \ {"redacted"}) \cup {"hidden"}
Words == UNION {[1..n -> Classes] : n \in 0..MaxText}
Phrases ==
  {<<"b", "blank", "a", "a">>, <<"b", "blank", "mark", "a", "a">>, <<"b", "blank", "hidden", "k", "a">>,
   <<"letter", "b", "blank", "a", "a">>, <<"sign", "filler", "blank", "k", "mark", "filler", "a">>,
   <<"letter", "mark", "sign", "k", "hidden", "mark", "b">>, <<"k", "b", "blank", "a", "k", "blank">>}

Filler == <<"a", "blank", "a", "a", "a", "sign", "a", "a", "a", "a", "blank", "k", "a", "a", "a",
            "letter", "a", "a", "a", "a">>
Entry(key, value, n) == [key |-> Text(key, 10 * n), value |-> Text(value, 10 * n + 1)]
Structured(entries, unreadable) == [entries |-> entries, unreadable |-> unreadable]
Documents ==
  {Structured(<<>>, FALSE), Structured(<<>>, TRUE),
   Structured(<<Entry(<<"a">>, <<"a">>, 1)>>, FALSE),
   Structured(<<Entry(<<"a">>, <<"k", "hidden", "a", "a">>, 1)>>, FALSE),
   Structured(<<Entry(<<"k", "a", "mark">>, <<"k", "filler", "b">>, 1)>>, FALSE),
   Structured(<<Entry(<<"a">>, <<"k", "a">>, 1), Entry(<<"a", "hidden">>, <<"sign">>, 2)>>, FALSE),
   Structured(<<Entry(<<"a">>, <<>>, 1), Entry(<<"b">>, <<"a">>, 2)>>, FALSE)}

Item(kind, classes, part) == [kind |-> kind, text |-> Text(classes, part)]
MCContents ==
  [items : {<<Item("text", word, 1)>> : word \in Words \cup Phrases}, structured : {Structured(<<>>, FALSE)}]
  \cup [items : {<<Item("text", word, 1), Item("image", <<>>, 2), Item("resource", Filler, 3)>> :
                   word \in {w \in Words : Len(w) <= 1} \cup Phrases},
        structured : Documents]
  \cup [items : {<<>>, <<Item("blob", <<>>, 1), Item("audio", <<>>, 2), Item("odd", <<>>, 3),
                         Item("resource_link", <<>>, 4)>>},
        structured : Documents]
===============================================================================
