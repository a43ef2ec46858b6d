------------------------------ MODULE ShellCalls ------------------------------
(* What the core expects of a call to the shell, whatever carries it: a      *)
(* request is carried out at most once, its caller comes back with the       *)
(* answer to that very request or with none, and it does come back.          *)
EXTENDS Naturals

CONSTANTS Threads, Answers, NoAnswer

VARIABLES
  asked,     \* how many calls were made; a call is known by its number
  waiting,   \* the call each thread waits for, or 0
  answered,  \* <<call, answer>> of what the shell carried out
  told       \* what each thread was last told, and of which call

vars == <<asked, waiting, answered, told>>

Init ==
  /\ asked = 0 /\ answered = {}
  /\ waiting = [t \in Threads |-> 0]
  /\ told = [t \in Threads |-> <<0, NoAnswer>>]

Ask(t) ==
  /\ waiting[t] = 0
  /\ asked' = asked + 1 /\ waiting' = [waiting EXCEPT ![t] = asked']
  /\ UNCHANGED <<answered, told>>

CarryOut(n, a) ==
  /\ n \in 1..asked /\ \A x \in answered : x[1] # n
  /\ answered' = answered \cup {<<n, a>>}
  /\ UNCHANGED <<asked, waiting, told>>

Return(t) ==
  /\ waiting[t] # 0
  /\ \E a \in {x \in answered : x[1] = waiting[t]} \cup {<<waiting[t], NoAnswer>>} :
       told' = [told EXCEPT ![t] = a]
  /\ waiting' = [waiting EXCEPT ![t] = 0]
  /\ UNCHANGED <<asked, answered>>

\* The core is gone, and with it whoever waited.
Die ==
  /\ waiting' = [t \in Threads |-> 0]
  /\ UNCHANGED <<asked, answered, told>>

Next ==
  \/ \E t \in Threads : Ask(t) \/ Return(t)
  \/ \E n \in 1..asked, a \in Answers : CarryOut(n, a)
  \/ Die

Spec == Init /\ [][Next]_vars /\ \A t \in Threads : WF_vars(Return(t))
=============================================================================
