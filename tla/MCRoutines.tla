------------------------------ MODULE MCRoutines ------------------------------
(* Servers, turns and files for TLC: a server with two good names, a repeated *)
(* one and a bad one on two pages, one that turns in circles, one with more   *)
(* pages than are asked for, one that does not speak; a turn with a server's  *)
(* tool; a file listed out of order that carries a file's text to the web,    *)
(* one with a circle, and one that goes on after failures.                    *)
EXTENDS Routines
CONSTANTS t1, t2, bad

read == <<"read">>
web == <<"web">>
command == <<"command">>
arm == <<"arm">>
note == <<"note">>

MCNative == {read, web, command, arm, note}
MCOpenOnly == {command, arm}
MCLiveOnly == {arm}
MCFileTools == {read}
MCWebTools == {web}

Page(entries, next) == [entries |-> entries, next |-> next]
MCAnswers ==
  {[hello |-> "result", pages |-> <<Page(<<t1, bad>>, "p2"), Page(<<t1, t2>>, None)>>],
   [hello |-> "result", pages |-> <<Page(<<t2>>, "p2"), Page(<<>>, "p2")>>],
   [hello |-> "result", pages |-> <<Page(<<bad, t1>>, "p2"), Page(<<>>, "p3")>>],
   [hello |-> "error", pages |-> <<>>]}

MCTurns == {<<read, web>>, <<command>>, <<<<"mcp", "docs", t1>>>>}

RawStep(id, tool, needs, uses, else) ==
  [id |-> id, tool |-> tool, needs |-> needs, uses |-> uses, else |-> else]
MCFiles ==
  {<<RawStep(2, note, <<1>>, {1}, "skip"), RawStep(1, read, <<>>, {}, "ask_user"),
     RawStep(3, web, <<2>>, {2}, "abort")>>,
   <<RawStep(1, note, <<2>>, {}, "skip"), RawStep(2, note, <<1>>, {}, "skip")>>,
   <<RawStep(2, web, <<1>>, {}, "abort"), RawStep(1, arm, <<>>, {}, "ask_user")>>}
===============================================================================
