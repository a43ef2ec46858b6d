--------------------------- MODULE AutomationsProofs ---------------------------
(***************************************************************************)
(* The bridge of Automations is what ShellCalls says a call to the shell   *)
(* is, for every set of labels and commands and every bound: every step    *)
(* maps to a step of ShellCalls or to none.                                *)
(*                                                                         *)
(* Ids are used again after a respawn; what never is, is the distance      *)
(* between an id and the number of its call.  Whatever still bears the     *)
(* generation of the core, or none yet, keeps that distance.               *)
(*                                                                         *)
(* On it rests what the person is told: off is off, and a row goes only    *)
(* when nothing of it is left.  A yes is as good as the launchd it was     *)
(* said of, so what has to hold is that no arming comes true after it:     *)
(* one still on its way is the worker's own, or nobody waits for it.       *)
(***************************************************************************)
EXTENDS Automations, Integers, SequenceTheorems, TLAPS

\* How far the ids of this core are behind the numbers of the calls.
Mine(x) == x.n = x.id + (asked - counter)
Unanswered(n) == n \in 1..asked /\ \A y \in answered : y[1] # n

Counts ==
  /\ asked \in Nat /\ counter \in 0..asked /\ generation \in Nat \ {0}
  /\ \A y \in answered : y[1] \in 1..asked
  /\ waiting = [t \in Threads |-> waiting[t]] /\ told = [t \in Threads |-> told[t]]

TaskShape(k) == k = [asks |-> k.asks, generation |-> k.generation, answer |-> k.answer]

PipeInv ==
  /\ \E S : pipe \in Seq(S)
  /\ \A i \in 1..Len(pipe) : Mine(pipe[i]) /\ Unanswered(pipe[i].n)
  /\ \A i, j \in 1..Len(pipe) : pipe[i].n = pipe[j].n => i = j

PumpInv ==
  pump # Nobody => /\ Mine(pump) /\ Unanswered(pump.n)
                   /\ \A i \in 1..Len(pipe) : pipe[i].n # pump.n

TasksInv ==
  /\ \A k \in tasks :
       /\ TaskShape(k) /\ k.generation \in 0..generation /\ k.asks.n \in 1..asked
       /\ k.generation \in {0, generation} => Mine(k.asks)
       /\ k.answer = <<>> => Unanswered(k.asks.n)
       /\ k.answer # <<>> => <<k.asks.n, k.answer[1]>> \in answered
       /\ \A i \in 1..Len(pipe) : pipe[i].n # k.asks.n
       /\ pump # Nobody => pump.n # k.asks.n
  /\ \A k, l \in tasks : k.asks.n = l.asks.n => k = l

FramesInv == \A f \in frames : Mine(f) /\ <<f.n, f.answer>> \in answered

WaiterShape(p) == p = [thread |-> p.thread, event |-> p.event, result |-> p.result]
PendingInv ==
  \A id \in DOMAIN pending :
    /\ id \in 1..counter /\ WaiterShape(pending[id]) /\ pending[id].thread \in Threads
    /\ waiting[pending[id].thread] = id + (asked - counter)
    /\ pending[id].event => /\ pending[id].result \in answered
                            /\ pending[id].result[1] = waiting[pending[id].thread]

DeadInv == ~live => DOMAIN pending = {} /\ frames = {}

BridgeInv == Counts /\ PipeInv /\ PumpInv /\ TasksInv /\ FramesInv /\ PendingInv /\ DeadInv

\* A worker with nothing to do, or between two calls, waits for none.
JobInv == /\ job.is \in {"idle", "toDisarm"} => waiting["worker"] = 0
          /\ ~live => job = Idle

-----------------------------------------------------------------------------
LEMMA InitBridge == Init => BridgeInv /\ JobInv /\ Calls!Init
<1> SUFFICES ASSUME Init PROVE BridgeInv /\ JobInv /\ Calls!Init
  OBVIOUS
<1>1. Counts /\ JobInv
  BY DEF Init, Counts, JobInv, Idle, Threads
<1>2. PipeInv /\ PumpInv /\ TasksInv /\ FramesInv
  BY DEF Init, PipeInv, PumpInv, TasksInv, FramesInv
<1>3. PendingInv /\ DeadInv
  BY DEF Init, PendingInv, DeadInv
<1>4. Calls!Init
  BY DEF Init, Calls!Init
<1> QED
  BY <1>1, <1>2, <1>3, <1>4 DEF BridgeInv

LEMMA BridgeStays ==
  ASSUME BridgeInv, UNCHANGED <<bridge, shell>>
  PROVE  BridgeInv' /\ UNCHANGED Calls!vars
BY DEF BridgeInv, bridge, shell, Counts, PipeInv, PumpInv, TasksInv, FramesInv, PendingInv, DeadInv,
       Mine, Unanswered, Calls!vars

\* A call: a waiter under the next id, and the frame.
LEMMA CallKeeps ==
  ASSUME BridgeInv, live, NEW t \in Threads, NEW r, waiting[t] = 0, Call(t, r)
  PROVE  BridgeInv' /\ Calls!Ask(t) /\ waiting'[t] # 0 /\ live'
         /\ \A u \in Threads \ {t} : waiting'[u] = waiting[u]
<1>1. /\ asked \in Nat /\ counter \in Nat /\ counter <= asked
      /\ asked' = asked + 1 /\ counter' = counter + 1
      /\ waiting' = [waiting EXCEPT ![t] = asked']
      /\ waiting = [u \in Threads |-> waiting[u]]
      /\ UNCHANGED <<told, live, cores, generation, pump, tasks, frames, answered>>
  BY DEF BridgeInv, Counts, Call
<1>2. waiting'[t] = asked + 1 /\ \A u \in Threads \ {t} : waiting'[u] = waiting[u]
  BY <1>1
<1>3. Counts'
  BY <1>1 DEF BridgeInv, Counts
<1>4. ASSUME NEW x, Mine(x) PROVE Mine(x)'
  BY <1>1, <1>4 DEF Mine
<1>5. ASSUME NEW n, Unanswered(n) PROVE Unanswered(n)'
  BY <1>1, <1>5 DEF Unanswered
<1>6. PICK q : q = [n |-> asked + 1, id |-> counter + 1, request |-> r] /\ pipe' = Append(pipe, q)
  BY <1>1 DEF Call
<1>7. q.n = asked + 1 /\ q.id = counter + 1
  BY <1>6
<1>8. /\ Len(pipe') = Len(pipe) + 1 /\ Len(pipe) \in Nat /\ pipe'[Len(pipe) + 1] = q
      /\ \A i \in 1..Len(pipe) : pipe'[i] = pipe[i]
      /\ \E S : pipe' \in Seq(S)
  <2>1. PICK S : pipe \in Seq(S)
    BY DEF BridgeInv, PipeInv
  <2>2. pipe \in Seq(S \cup {q})
    BY <2>1, SeqMonotonic, S \subseteq S \cup {q}
  <2>3. pipe' \in Seq(S \cup {q})
    BY <2>2, <1>6
  <2> QED
    BY <2>2, <2>3, <1>6
<1>9. \A i \in 1..Len(pipe) : pipe[i].n \in 1..asked
  BY DEF BridgeInv, PipeInv, Unanswered
<1>10. Mine(q)' /\ Unanswered(q.n)'
  <2>1. \A y \in answered : y[1] # asked + 1
    BY <1>1 DEF BridgeInv, Counts
  <2> QED
    BY <1>1, <1>7, <2>1 DEF Mine, Unanswered
<1>11. PipeInv'
  <2>1. (\A i \in 1..Len(pipe) : Mine(pipe[i]) /\ Unanswered(pipe[i].n))'
    <3>1. ASSUME NEW i \in 1..Len(pipe)' PROVE Mine(pipe[i])' /\ Unanswered(pipe[i].n)'
      <4>1. PICK x : x = pipe'[i]
        OBVIOUS
      <4>2. x = q \/ (i \in 1..Len(pipe) /\ x = pipe[i])
        BY <1>8, <3>1, <4>1
      <4>3. i \in 1..Len(pipe) => Mine(pipe[i]) /\ Unanswered(pipe[i].n)
        BY DEF BridgeInv, PipeInv
      <4>4. Mine(x)' /\ Unanswered(x.n)'
        BY <1>4, <1>5, <1>10, <4>2, <4>3
      <4> QED
        BY <4>1, <4>4
    <3> QED
      BY <3>1
  <2>2. \A i, j \in 1..Len(pipe') : pipe'[i].n = pipe'[j].n => i = j
    BY <1>1, <1>7, <1>8, <1>9 DEF BridgeInv, PipeInv
  <2> QED
    BY <1>8, <2>1, <2>2 DEF PipeInv
<1>12. PumpInv'
  <2> SUFFICES ASSUME pump # Nobody
               PROVE  Mine(pump)' /\ Unanswered(pump.n)' /\ \A i \in 1..Len(pipe') : pipe'[i].n # pump.n
    BY <1>1 DEF PumpInv
  <2>1. Mine(pump) /\ Unanswered(pump.n) /\ \A i \in 1..Len(pipe) : pipe[i].n # pump.n
    BY DEF BridgeInv, PumpInv
  <2>2. Mine(pump)' /\ Unanswered(pump.n)'
    BY <1>1, <1>4, <1>5, <2>1
  <2>3. pump.n # q.n
    BY <1>1, <1>7, <2>1 DEF Unanswered
  <2> QED
    BY <1>8, <2>1, <2>2, <2>3
<1>13. TasksInv'
  <2>1. ASSUME NEW k \in tasks
        PROVE  /\ TaskShape(k) /\ k.generation \in 0..generation /\ k.asks.n \in 1..asked'
               /\ k.generation \in {0, generation} => Mine(k.asks)'
               /\ k.answer = <<>> => Unanswered(k.asks.n)'
               /\ k.answer # <<>> => <<k.asks.n, k.answer[1]>> \in answered
               /\ \A i \in 1..Len(pipe') : pipe'[i].n # k.asks.n
               /\ pump # Nobody => pump.n # k.asks.n
    <3>1. /\ TaskShape(k) /\ k.generation \in 0..generation /\ k.asks.n \in 1..asked
          /\ k.generation \in {0, generation} => Mine(k.asks)
          /\ k.answer = <<>> => Unanswered(k.asks.n)
          /\ k.answer # <<>> => <<k.asks.n, k.answer[1]>> \in answered
          /\ \A i \in 1..Len(pipe) : pipe[i].n # k.asks.n
          /\ pump # Nobody => pump.n # k.asks.n
      BY DEF BridgeInv, TasksInv
    <3>2. k.asks.n \in 1..asked' /\ k.asks.n # q.n
      BY <1>1, <1>7, <3>1
    <3>3. \A i \in 1..Len(pipe') : pipe'[i].n # k.asks.n
      BY <1>8, <3>1, <3>2
    <3> QED
      BY <1>4, <1>5, <3>1, <3>2, <3>3
  <2>2. \A k, l \in tasks : k.asks.n = l.asks.n => k = l
    BY DEF BridgeInv, TasksInv
  <2> QED
    BY <1>1, <2>1, <2>2 DEF TasksInv
<1>14. FramesInv'
  BY <1>1, <1>4 DEF BridgeInv, FramesInv
<1>15. PendingInv'
  <2> DEFINE id0 == counter + 1
             w == [thread |-> t, event |-> FALSE, result |-> <<0, NoAnswer>>]
  <2>1. pending' = [id \in DOMAIN pending \cup {id0} |-> IF id = id0 THEN w ELSE pending[id]]
    BY <1>1 DEF Call
  <2>2. w.thread = t /\ w.event = FALSE /\ WaiterShape(w)
    BY DEF WaiterShape
  <2> HIDE DEF w
  <2>3. pending'[id0] = w /\ \A id \in DOMAIN pending : id # id0 => pending'[id] = pending[id]
    BY <2>1
  <2>4. DOMAIN pending' = DOMAIN pending \cup {id0}
    BY <2>1
  <2>5. ASSUME NEW id \in DOMAIN pending
        PROVE  /\ id \in 1..counter /\ id # id0 /\ pending[id].thread \in Threads \ {t}
               /\ waiting[pending[id].thread] = id + (asked - counter)
    BY <1>1 DEF BridgeInv, PendingInv
  <2>6. ASSUME NEW id \in DOMAIN pending'
        PROVE  /\ id \in 1..counter' /\ WaiterShape(pending'[id]) /\ pending'[id].thread \in Threads
               /\ waiting'[pending'[id].thread] = id + (asked' - counter')
               /\ pending'[id].event => /\ pending'[id].result \in answered'
                                        /\ pending'[id].result[1] = waiting'[pending'[id].thread]
    <3>1. CASE id = id0
      BY <1>1, <1>2, <2>2, <2>3, <3>1
    <3>2. CASE id # id0
      <4>1. id \in DOMAIN pending /\ pending'[id] = pending[id]
        BY <2>3, <2>4, <3>2
      <4>2. waiting'[pending[id].thread] = waiting[pending[id].thread]
        BY <1>2, <2>5, <4>1
      <4>3. id \in 1..counter' /\ waiting[pending[id].thread] = id + (asked' - counter')
        <5>1. id \in 1..counter /\ waiting[pending[id].thread] = id + (asked - counter)
          BY <2>5, <4>1
        <5>2. asked' - counter' = asked - counter /\ id \in 1..(counter + 1)
          BY <1>1, <5>1
        <5> QED
          BY <1>1, <5>1, <5>2
      <4>4. /\ WaiterShape(pending[id]) /\ pending[id].thread \in Threads
            /\ pending[id].event => /\ pending[id].result \in answered
                                    /\ pending[id].result[1] = waiting[pending[id].thread]
        BY <4>1 DEF BridgeInv, PendingInv
      <4> QED
        BY <1>1, <4>1, <4>2, <4>3, <4>4
    <3> QED
      BY <3>1, <3>2
  <2> QED
    BY <2>6 DEF PendingInv
<1>16. DeadInv' /\ waiting'[t] # 0
  BY <1>1, <1>2 DEF DeadInv
<1>17. Calls!Ask(t)
  BY <1>1 DEF Calls!Ask
<1> QED
  BY <1>1, <1>2, <1>3, <1>11, <1>12, <1>13, <1>14, <1>15, <1>16, <1>17 DEF BridgeInv

\* A thread comes back: with the answer to its call, or with none.
LEMMA ReturnKeeps ==
  ASSUME BridgeInv, NEW t \in Threads, NEW result, Return(t, result)
  PROVE  BridgeInv' /\ Calls!Return(t) /\ waiting'[t] = 0
         /\ \A u \in Threads \ {t} : waiting'[u] = waiting[u]
<1>1. PICK id \in DOMAIN pending :
        /\ pending[id].thread = t
        /\ \/ pending[id].event /\ result = pending[id].result
           \/ result = <<waiting[t], NoAnswer>>
        /\ pending' = Popped(id)
  BY DEF Return
<1>2. /\ told' = [told EXCEPT ![t] = result] /\ waiting' = [waiting EXCEPT ![t] = 0]
      /\ waiting = [u \in Threads |-> waiting[u]]
      /\ UNCHANGED <<asked, counter, shell>>
  BY DEF Return, BridgeInv, Counts
<1>3. waiting'[t] = 0 /\ \A u \in Threads \ {t} : waiting'[u] = waiting[u]
  BY <1>2
<1>4. /\ id \in 1..counter /\ waiting[t] = id + (asked - counter)
      /\ pending[id].event => pending[id].result \in answered /\ pending[id].result[1] = waiting[t]
      /\ asked \in Nat /\ counter \in 0..asked
  BY <1>1 DEF BridgeInv, PendingInv, Counts
<1>5. waiting[t] # 0
  BY <1>4
<1>6. result \in {x \in answered : x[1] = waiting[t]} \cup {<<waiting[t], NoAnswer>>}
  BY <1>1, <1>4
<1>7. Calls!Return(t)
  BY <1>2, <1>5, <1>6 DEF Calls!Return, shell
<1>8. DOMAIN pending' = DOMAIN pending \ {id} /\ \A i \in DOMAIN pending \ {id} : pending'[i] = pending[i]
  BY <1>1 DEF Popped
<1>9. PendingInv'
  <2> SUFFICES ASSUME NEW i \in DOMAIN pending'
               PROVE  /\ i \in 1..counter' /\ WaiterShape(pending'[i]) /\ pending'[i].thread \in Threads
                      /\ waiting'[pending'[i].thread] = i + (asked' - counter')
                      /\ pending'[i].event => /\ pending'[i].result \in answered'
                                              /\ pending'[i].result[1] = waiting'[pending'[i].thread]
    BY DEF PendingInv
  <2>1. i \in DOMAIN pending /\ i # id /\ pending'[i] = pending[i]
    BY <1>8
  <2>2. /\ i \in 1..counter /\ WaiterShape(pending[i]) /\ pending[i].thread \in Threads
        /\ waiting[pending[i].thread] = i + (asked - counter)
        /\ pending[i].event => /\ pending[i].result \in answered
                               /\ pending[i].result[1] = waiting[pending[i].thread]
    BY <2>1 DEF BridgeInv, PendingInv
  \* One thread has one waiter.
  <2>3. pending[i].thread # t
    BY <1>4, <2>1, <2>2
  <2>4. waiting'[pending[i].thread] = waiting[pending[i].thread]
    BY <1>3, <2>2, <2>3
  <2> QED
    BY <1>2, <2>1, <2>2, <2>4 DEF shell
<1>10. Counts'
  BY <1>2 DEF BridgeInv, Counts, shell
<1>11. PipeInv' /\ PumpInv' /\ TasksInv' /\ FramesInv'
  BY <1>2 DEF BridgeInv, PipeInv, PumpInv, TasksInv, FramesInv, Mine, Unanswered, shell
<1>12. DeadInv'
  BY <1>2, <1>8 DEF BridgeInv, DeadInv, shell
<1> QED
  BY <1>3, <1>7, <1>9, <1>10, <1>11, <1>12 DEF BridgeInv

-----------------------------------------------------------------------------
LEMMA WriteEvent ==
  ASSUME NEW r, WaiterShape(r), NEW e
  PROVE  WaiterShape([r EXCEPT !.event = e]) /\ [r EXCEPT !.event = e].thread = r.thread
BY DEF WaiterShape

LEMMA WriteResult ==
  ASSUME NEW r, WaiterShape(r), NEW v
  PROVE  /\ WaiterShape([r EXCEPT !.result = v])
         /\ [r EXCEPT !.result = v].thread = r.thread /\ [r EXCEPT !.result = v].result = v
BY DEF WaiterShape

LEMMA WriteAnswer ==
  ASSUME NEW r, WaiterShape(r), NEW v
  PROVE  /\ WaiterShape([r EXCEPT !.event = TRUE, !.result = v])
         /\ [r EXCEPT !.event = TRUE, !.result = v].thread = r.thread
         /\ [r EXCEPT !.event = TRUE, !.result = v].result = v
<1> DEFINE one == [r EXCEPT !.event = TRUE]
           both == [r EXCEPT !.event = TRUE, !.result = v]
<1>1. WaiterShape(one) /\ one.thread = r.thread
  BY WriteEvent
<1>2. both = [one EXCEPT !.result = v]
  OBVIOUS
<1> HIDE DEF one
<1>3. WaiterShape([one EXCEPT !.result = v]) /\ [one EXCEPT !.result = v].thread = one.thread
      /\ [one EXCEPT !.result = v].result = v
  BY <1>1, WriteResult
<1> HIDE DEF both
<1>4. WaiterShape(both) /\ both.thread = r.thread /\ both.result = v
  BY <1>1, <1>2, <1>3
<1> QED
  BY <1>4 DEF both

\* resolve_response: the answer is for the call the waiter waits for.
LEMMA ResolveKeeps ==
  ASSUME BridgeInv, ResolveResponse
  PROVE  BridgeInv' /\ UNCHANGED Calls!vars
<1>1. PICK f \in frames :
        /\ frames' = frames \ {f}
        /\ pending' = IF f.id \in DOMAIN pending
                      THEN [pending EXCEPT ![f.id].event = TRUE, ![f.id].result = <<f.n, f.answer>>]
                      ELSE pending
  BY DEF ResolveResponse
<1>2. UNCHANGED <<counter, asked, waiting, told, live, generation, pipe, pump, tasks, answered>>
  BY DEF ResolveResponse
<1>3. Mine(f) /\ <<f.n, f.answer>> \in answered
  BY <1>1 DEF BridgeInv, FramesInv
<1>4. ASSUME NEW id \in DOMAIN pending
      PROVE  /\ id \in 1..counter /\ WaiterShape(pending'[id]) /\ pending'[id].thread \in Threads
             /\ waiting[pending'[id].thread] = id + (asked - counter)
             /\ pending'[id].event => /\ pending'[id].result \in answered
                                      /\ pending'[id].result[1] = waiting[pending'[id].thread]
  <2> DEFINE p == pending[id]
  <2>1. /\ id \in 1..counter /\ WaiterShape(p) /\ p.thread \in Threads
        /\ waiting[p.thread] = id + (asked - counter)
        /\ p.event => p.result \in answered /\ p.result[1] = waiting[p.thread]
    BY DEF BridgeInv, PendingInv
  <2>2. CASE id = f.id
    <3> DEFINE q == [p EXCEPT !.event = TRUE, !.result = <<f.n, f.answer>>]
    <3>1. pending'[id] = q
      BY <1>1, <2>2
    <3>2. WaiterShape(q) /\ q.thread = p.thread /\ q.result = <<f.n, f.answer>>
      BY <2>1, WriteAnswer, Zenon
    <3> HIDE DEF q
    <3>3. f.n = waiting[p.thread]
      BY <1>3, <2>1, <2>2 DEF Mine
    <3> QED
      BY <1>3, <2>1, <3>1, <3>2, <3>3
  <2>3. CASE id # f.id
    <3>1. pending'[id] = p
      BY <1>1, <2>3
    <3> QED
      BY <2>1, <3>1
  <2> QED
    BY <2>2, <2>3
<1>5. DOMAIN pending' = DOMAIN pending
  BY <1>1
<1>6. PendingInv'
  BY <1>2, <1>4, <1>5 DEF PendingInv
<1>7. FramesInv' /\ DeadInv'
  BY <1>1, <1>2, <1>5 DEF BridgeInv, FramesInv, DeadInv, Mine
<1>8. Counts' /\ PipeInv' /\ PumpInv' /\ TasksInv'
  BY <1>2 DEF BridgeInv, Counts, PipeInv, PumpInv, TasksInv, Mine, Unanswered
<1> QED
  BY <1>2, <1>6, <1>7, <1>8 DEF BridgeInv, Calls!vars

\* handle_line: the first of the pipe, to the pump or to a task of its own.
LEMMA PumpReadsKeeps ==
  ASSUME BridgeInv, PumpReads
  PROVE  BridgeInv' /\ UNCHANGED Calls!vars
<1>1. /\ pipe # <<>> /\ pump = Nobody /\ pipe' = Tail(pipe)
      /\ UNCHANGED <<counter, pending, asked, waiting, told, live, generation, frames, answered>>
  BY DEF PumpReads, bridge
<1>2. PICK x : /\ x = Head(pipe)
               /\ \/ pump' = x /\ tasks' = tasks
                  \/ /\ tasks' = tasks \cup {[asks |-> x, generation |-> 0, answer |-> <<>>]}
                     /\ pump' = pump
  BY DEF PumpReads
<1>3. /\ Len(pipe) \in Nat \ {0} /\ x = pipe[1] /\ Len(pipe') = Len(pipe) - 1
      /\ \A i \in 1..Len(pipe') : i + 1 \in 1..Len(pipe) /\ pipe'[i] = pipe[i + 1]
      /\ \E S : pipe' \in Seq(S)
  BY <1>1, <1>2 DEF BridgeInv, PipeInv
<1>4. Mine(x) /\ Unanswered(x.n) /\ \A i \in 1..Len(pipe') : pipe'[i].n # x.n
  BY <1>3 DEF BridgeInv, PipeInv
<1>5. ASSUME NEW y PROVE Mine(y)' <=> Mine(y)
  BY <1>1 DEF Mine
<1>6. ASSUME NEW n PROVE Unanswered(n)' <=> Unanswered(n)
  BY <1>1 DEF Unanswered
<1>7. PipeInv'
  <2>1. ASSUME NEW i \in 1..Len(pipe') PROVE Mine(pipe[i])' /\ Unanswered(pipe[i].n)'
    BY <1>1, <1>3 DEF BridgeInv, PipeInv, Mine, Unanswered
  <2>2. ASSUME NEW i \in 1..Len(pipe'), NEW j \in 1..Len(pipe'), pipe'[i].n = pipe'[j].n PROVE i = j
    BY <1>3, <2>2 DEF BridgeInv, PipeInv
  <2> QED
    BY <1>3, <2>1, <2>2 DEF PipeInv
<1>8. PumpInv'
  BY <1>1, <1>2, <1>4 DEF PumpInv, Mine, Unanswered
<1> DEFINE new == [asks |-> x, generation |-> 0, answer |-> <<>>]
           Holds(k) == /\ TaskShape(k) /\ k.generation \in 0..generation /\ k.asks.n \in 1..asked
                       /\ k.generation \in {0, generation} => Mine(k.asks)
                       /\ k.answer = <<>> => Unanswered(k.asks.n)
                       /\ k.answer # <<>> => <<k.asks.n, k.answer[1]>> \in answered
<1>9. ASSUME NEW k \in tasks
      PROVE  /\ Holds(k) /\ k.asks.n # x.n
             /\ \A i \in 1..Len(pipe') : pipe'[i].n # k.asks.n
  <2>1. /\ Holds(k)
        /\ \A i \in 1..Len(pipe) : pipe[i].n # k.asks.n
    BY DEF BridgeInv, TasksInv
  <2>2. 1 \in 1..Len(pipe)
    BY <1>3
  <2> HIDE DEF Holds
  <2> QED
    BY <1>3, <2>1, <2>2
<1>10. Holds(new) /\ new.asks.n = x.n
  <2>1. generation \in Nat \ {0}
    BY DEF BridgeInv, Counts
  <2> QED
    BY <1>4, <2>1 DEF TaskShape, Unanswered
<1>11. \A k, l \in tasks : k.asks.n = l.asks.n => k = l
  BY DEF BridgeInv, TasksInv
<1> HIDE DEF new
<1>12. ASSUME NEW k \in tasks'
       PROVE  /\ Holds(k) /\ \A i \in 1..Len(pipe') : pipe'[i].n # k.asks.n
              /\ pump' # Nobody => pump'.n # k.asks.n
  <2>1. k \in tasks \/ (k = new /\ pump' = Nobody)
    BY <1>1, <1>2 DEF new
  <2>2. k \in tasks => /\ Holds(k) /\ k.asks.n # x.n
                       /\ \A i \in 1..Len(pipe') : pipe'[i].n # k.asks.n
    BY <1>9
  <2>3. pump' # Nobody => pump' = x
    BY <1>1, <1>2
  <2> HIDE DEF Holds
  <2> QED
    BY <1>4, <1>10, <2>1, <2>2, <2>3
<1>13. \A k, l \in tasks' : k.asks.n = l.asks.n => k = l
  BY <1>2, <1>9, <1>10, <1>11 DEF new
<1>14. TasksInv'
  BY <1>1, <1>5, <1>6, <1>12, <1>13 DEF TasksInv
<1>15. Counts' /\ FramesInv' /\ PendingInv' /\ DeadInv'
  BY <1>1 DEF BridgeInv, Counts, FramesInv, PendingInv, DeadInv, Mine
<1> QED
  BY <1>1, <1>7, <1>8, <1>14, <1>15 DEF BridgeInv, Calls!vars

-----------------------------------------------------------------------------
\* What is known of one task.
TaskHolds(k) ==
  /\ TaskShape(k) /\ k.generation \in 0..generation /\ k.asks.n \in 1..asked
  /\ k.generation \in {0, generation} => Mine(k.asks)
  /\ k.answer = <<>> => Unanswered(k.asks.n)
  /\ k.answer # <<>> => <<k.asks.n, k.answer[1]>> \in answered
  /\ \A i \in 1..Len(pipe) : pipe[i].n # k.asks.n
  /\ pump # Nobody => pump.n # k.asks.n
OneTaskEach == \A k, l \in tasks : k.asks.n = l.asks.n => k = l

LEMMA TasksOneByOne == TasksInv <=> (\A k \in tasks : TaskHolds(k)) /\ OneTaskEach
BY DEF TasksInv, TaskHolds, OneTaskEach

\* A task is written, its request left alone.
LEMMA TaskIsWritten ==
  ASSUME TasksInv, NEW k \in tasks, NEW q, q.asks = k.asks, tasks' = (tasks \ {k}) \cup {q},
         TaskHolds(q)', \A l \in tasks \ {k} : TaskHolds(l)'
  PROVE  TasksInv'
<1>1. OneTaskEach'
  BY DEF TasksInv, OneTaskEach
<1>2. (\A l \in tasks : TaskHolds(l))'
  OBVIOUS
<1> QED
  BY <1>1, <1>2 DEF TasksInv, TaskHolds, OneTaskEach

LEMMA WriteGeneration ==
  ASSUME NEW k, TaskShape(k), NEW v
  PROVE  /\ TaskShape([k EXCEPT !.generation = v]) /\ [k EXCEPT !.generation = v].asks = k.asks
         /\ [k EXCEPT !.generation = v].answer = k.answer
         /\ [k EXCEPT !.generation = v].generation = v
BY DEF TaskShape

LEMMA WriteTaskAnswer ==
  ASSUME NEW k, TaskShape(k), NEW v
  PROVE  /\ TaskShape([k EXCEPT !.answer = v]) /\ [k EXCEPT !.answer = v].asks = k.asks
         /\ [k EXCEPT !.answer = v].generation = k.generation
         /\ [k EXCEPT !.answer = v].answer = v
BY DEF TaskShape

\* spawn_request: the task learns which core asked while that core is still the only one.
LEMMA TaskStartsKeeps ==
  ASSUME BridgeInv, TaskStarts
  PROVE  BridgeInv' /\ UNCHANGED Calls!vars
<1>1. UNCHANGED <<counter, pending, asked, waiting, told, live, generation, pipe, pump, frames, answered>>
  BY DEF TaskStarts, bridge
<1>2. PICK k \in tasks : /\ k.generation = 0
                         /\ tasks' = (tasks \ {k}) \cup {[k EXCEPT !.generation = generation]}
  BY DEF TaskStarts
<1>3. \A l \in tasks : TaskHolds(l) /\ TaskHolds(l)'
  <2>1. \A l \in tasks : TaskHolds(l)
    BY TasksOneByOne DEF BridgeInv
  <2> QED
    BY <1>1, <2>1 DEF TaskHolds, Mine, Unanswered
<1>4. PICK q : q = [k EXCEPT !.generation = generation]
  OBVIOUS
<1>5. TaskShape(q) /\ q.asks = k.asks /\ q.answer = k.answer /\ q.generation = generation
  <2>1. TaskShape(k)
    BY <1>3 DEF TaskHolds
  <2> QED
    BY <1>4, <2>1, WriteGeneration
<1>6. TaskHolds(q)'
  <2>1. TaskHolds(k)' /\ Mine(k.asks) /\ generation \in 0..generation
    BY <1>2, <1>3 DEF TaskHolds, BridgeInv, Counts
  <2> QED
    BY <1>1, <1>5, <2>1 DEF TaskHolds, Mine
<1>7. TasksInv'
  BY <1>2, <1>3, <1>4, <1>5, <1>6, TaskIsWritten DEF BridgeInv
<1>8. Counts' /\ PipeInv' /\ PumpInv' /\ FramesInv' /\ PendingInv' /\ DeadInv'
  BY <1>1 DEF BridgeInv, Counts, PipeInv, PumpInv, FramesInv, PendingInv, DeadInv, Mine, Unanswered
<1> QED
  BY <1>1, <1>7, <1>8 DEF BridgeInv, Calls!vars

\* A request is carried out: the others still are not.
LEMMA OthersWait ==
  ASSUME NEW n, NEW a, answered' = answered \cup {<<n, a>>}, asked' = asked
  PROVE  \A m : m # n /\ Unanswered(m) => Unanswered(m)'
BY DEF Unanswered

LEMMA AnswerIsCounted ==
  ASSUME BridgeInv, NEW n, NEW a, Unanswered(n), answered' = answered \cup {<<n, a>>},
         UNCHANGED <<asked, counter, generation, waiting, told, pending, live>>
  PROVE  Counts' /\ PendingInv' /\ (a \in Answers => Calls!CarryOut(n, a))
<1>1. Counts'
  BY DEF BridgeInv, Counts, Unanswered
<1>2. PendingInv'
  BY DEF BridgeInv, PendingInv
<1>3. Calls!CarryOut(n, a)
  BY DEF Unanswered, Calls!CarryOut
<1> QED
  BY <1>1, <1>2, <1>3

LEMMA TaskWorksKeeps ==
  ASSUME BridgeInv, TaskWorks
  PROVE  BridgeInv' /\ Calls!Next
<1>1. UNCHANGED <<counter, pending, asked, waiting, told, live, generation, pipe, pump, frames>>
  BY DEF TaskWorks, bridge
<1>2. PICK k \in tasks, a \in Answers :
        /\ k.generation # 0 /\ k.answer = <<>>
        /\ answered' = answered \cup {<<k.asks.n, a>>}
        /\ tasks' = (tasks \ {k}) \cup {[k EXCEPT !.answer = <<a>>]}
  BY DEF TaskWorks
<1>3. PICK n : n = k.asks.n
  OBVIOUS
<1>4. /\ \A l \in tasks : TaskHolds(l)
      /\ Unanswered(n) /\ \A m : m # n /\ Unanswered(m) => Unanswered(m)'
  <2>1. \A l \in tasks : TaskHolds(l)
    BY TasksOneByOne DEF BridgeInv
  <2> QED
    BY <1>1, <1>2, <1>3, <2>1, OthersWait DEF TaskHolds
<1>5. Counts' /\ PendingInv' /\ Calls!CarryOut(n, a)
  BY <1>1, <1>2, <1>3, <1>4, AnswerIsCounted
<1>6. Calls!Next
  BY <1>4, <1>5 DEF Unanswered, Calls!Next
<1>7. PICK q : q = [k EXCEPT !.answer = <<a>>]
  OBVIOUS
<1>8. TaskShape(q) /\ q.asks = k.asks /\ q.generation = k.generation /\ q.answer = <<a>>
  BY <1>4, <1>7, WriteTaskAnswer DEF TaskHolds
<1>9. TaskHolds(q)'
  <2>1. TaskHolds(k)
    BY <1>4
  <2>2. q.answer # <<>> /\ q.answer[1] = a /\ <<n, a>> \in answered'
    BY <1>2, <1>3, <1>8
  <2>3. q.generation \in {0, generation} => Mine(q.asks)'
    BY <1>1, <1>8, <2>1 DEF TaskHolds, Mine
  <2> QED
    BY <1>1, <1>3, <1>8, <2>1, <2>2, <2>3 DEF TaskHolds
<1>10. ASSUME NEW l \in tasks \ {k} PROVE TaskHolds(l)'
  <2>1. l.asks.n # n
    BY <1>3 DEF BridgeInv, TasksInv
  <2>2. TaskHolds(l)
    BY <1>4
  <2> QED
    BY <1>1, <1>2, <1>4, <2>1, <2>2 DEF TaskHolds, Mine
<1>11. TasksInv'
  BY <1>2, <1>7, <1>8, <1>9, <1>10, TaskIsWritten DEF BridgeInv
<1>12. /\ \A i \in 1..Len(pipe) : pipe[i].n # n
       /\ pump # Nobody => pump.n # n
  BY <1>3, <1>4 DEF TaskHolds
<1>13. PipeInv' /\ PumpInv'
  BY <1>1, <1>4, <1>12 DEF BridgeInv, PipeInv, PumpInv, Mine
<1>14. FramesInv' /\ DeadInv'
  BY <1>1, <1>2 DEF BridgeInv, FramesInv, DeadInv, Mine
<1> QED
  BY <1>5, <1>6, <1>11, <1>13, <1>14 DEF BridgeInv

\* A frame of this core.
LEMMA TaskAnswersKeeps ==
  ASSUME BridgeInv, TaskAnswers
  PROVE  BridgeInv' /\ UNCHANGED Calls!vars
<1>1. UNCHANGED <<counter, pending, asked, waiting, told, live, generation, pipe, pump, answered>>
  BY DEF TaskAnswers, bridge
<1>2. PICK k \in tasks :
        /\ k.answer # <<>> /\ tasks' = tasks \ {k}
        /\ frames' = IF live /\ k.generation = generation
                     THEN frames \cup {[n |-> k.asks.n, id |-> k.asks.id, answer |-> k.answer[1]]}
                     ELSE frames
  BY DEF TaskAnswers, StillTheAskingCore
<1>3. TaskHolds(k)
  BY TasksOneByOne DEF BridgeInv
<1>4. ASSUME NEW f \in frames' PROVE Mine(f)' /\ <<f.n, f.answer>> \in answered'
  <2>1. CASE f \in frames
    BY <1>1, <2>1 DEF BridgeInv, FramesInv, Mine
  <2>2. CASE f \notin frames
    <3>1. k.generation = generation /\ f = [n |-> k.asks.n, id |-> k.asks.id, answer |-> k.answer[1]]
      BY <1>2, <1>4, <2>2
    <3> QED
      BY <1>1, <1>2, <1>3, <3>1 DEF TaskHolds, Mine
  <2> QED
    BY <2>1, <2>2
<1>5. FramesInv' /\ DeadInv'
  BY <1>1, <1>2, <1>4 DEF BridgeInv, FramesInv, DeadInv
<1>6. TasksInv'
  BY <1>1, <1>2 DEF BridgeInv, TasksInv, Mine, Unanswered
<1>7. Counts' /\ PipeInv' /\ PumpInv' /\ PendingInv'
  BY <1>1 DEF BridgeInv, Counts, PipeInv, PumpInv, PendingInv, Mine, Unanswered
<1> QED
  BY <1>1, <1>5, <1>6, <1>7 DEF BridgeInv, Calls!vars

LEMMA PumpAnswersKeeps ==
  ASSUME BridgeInv, PumpAnswers
  PROVE  BridgeInv' /\ Calls!Next
<1>1. /\ pump # Nobody /\ pump' = Nobody
      /\ UNCHANGED <<counter, pending, asked, waiting, told, live, generation, pipe, tasks>>
  BY DEF PumpAnswers, bridge
<1>2. PICK a \in Answers :
        /\ answered' = answered \cup {<<pump.n, a>>}
        /\ frames' = IF live THEN frames \cup {[n |-> pump.n, id |-> pump.id, answer |-> a]} ELSE frames
  BY DEF PumpAnswers
<1>3. PICK n : n = pump.n
  OBVIOUS
<1>4. Mine(pump) /\ Unanswered(n) /\ \A i \in 1..Len(pipe) : pipe[i].n # n
  BY <1>1, <1>3 DEF BridgeInv, PumpInv
<1>5. \A m : m # n /\ Unanswered(m) => Unanswered(m)'
  BY <1>1, <1>2, <1>3, OthersWait
<1>6. Counts' /\ PendingInv' /\ Calls!CarryOut(n, a)
  BY <1>1, <1>2, <1>3, <1>4, AnswerIsCounted
<1>7. Calls!Next
  BY <1>4, <1>6 DEF Unanswered, Calls!Next
<1>8. ASSUME NEW k \in tasks PROVE TaskHolds(k)'
  <2>1. TaskHolds(k)
    BY TasksOneByOne DEF BridgeInv
  <2>2. k.asks.n # n
    BY <1>1, <1>3, <2>1 DEF TaskHolds
  <2> QED
    BY <1>1, <1>2, <1>5, <2>1, <2>2 DEF TaskHolds, Mine
<1>9. TasksInv'
  BY <1>1, <1>8 DEF BridgeInv, TasksInv, TaskHolds
<1>10. PipeInv' /\ PumpInv'
  BY <1>1, <1>4, <1>5 DEF BridgeInv, PipeInv, PumpInv, Mine
<1>11. ASSUME NEW f \in frames' PROVE Mine(f)' /\ <<f.n, f.answer>> \in answered'
  <2>1. CASE f \in frames
    BY <1>1, <1>2, <2>1 DEF BridgeInv, FramesInv, Mine
  <2>2. CASE f \notin frames
    <3>1. f = [n |-> pump.n, id |-> pump.id, answer |-> a]
      BY <1>2, <1>11, <2>2
    <3> QED
      BY <1>1, <1>2, <1>4, <3>1 DEF Mine
  <2> QED
    BY <2>1, <2>2
<1>12. FramesInv' /\ DeadInv'
  BY <1>1, <1>2, <1>11 DEF BridgeInv, FramesInv, DeadInv
<1> QED
  BY <1>6, <1>7, <1>9, <1>10, <1>12 DEF BridgeInv

\* The core dies; what is on its way to the shell stays on its way.
LEMMA CoreDiesKeeps ==
  ASSUME BridgeInv, CoreDies
  PROVE  BridgeInv' /\ JobInv' /\ Calls!Die
<1>1. /\ live' = FALSE /\ pending' = <<>> /\ frames' = {} /\ job' = Idle
      /\ waiting' = [t \in Threads |-> 0]
      /\ UNCHANGED <<counter, asked, told, generation, pipe, pump, tasks, answered>>
  BY DEF CoreDies
<1>2. DOMAIN pending' = {}
  BY <1>1
<1>3. Counts' /\ FramesInv' /\ PendingInv' /\ DeadInv'
  BY <1>1, <1>2 DEF BridgeInv, Counts, FramesInv, PendingInv, DeadInv
<1>4. PipeInv' /\ PumpInv' /\ TasksInv'
  BY <1>1 DEF BridgeInv, PipeInv, PumpInv, TasksInv, Mine, Unanswered
<1>5. JobInv'
  BY <1>1 DEF JobInv, Threads
<1> QED
  BY <1>1, <1>3, <1>4, <1>5 DEF BridgeInv, Calls!Die

\* The next core counts from one again; what is left in the shell is of the core before.
LEMMA RespawnKeeps ==
  ASSUME BridgeInv, JobInv, Respawn
  PROVE  BridgeInv' /\ JobInv' /\ UNCHANGED Calls!vars
<1>1. /\ ~live /\ live' /\ pipe = <<>> /\ pump = Nobody /\ \A k \in tasks : k.generation # 0
      /\ generation' = generation + 2 /\ counter' = 0
      /\ UNCHANGED <<job, pending, asked, waiting, told, pipe, pump, tasks, frames, answered>>
  BY DEF Respawn, RespawnTakesSeconds, core
<1>2. DOMAIN pending = {} /\ frames = {} /\ generation \in Nat \ {0}
  BY <1>1 DEF BridgeInv, DeadInv, Counts
<1>3. Counts' /\ FramesInv' /\ PendingInv' /\ DeadInv'
  BY <1>1, <1>2 DEF BridgeInv, Counts, FramesInv, PendingInv, DeadInv
<1>4. PipeInv' /\ PumpInv'
  BY <1>1 DEF BridgeInv, PipeInv, PumpInv
<1>5. TasksInv'
  BY <1>1, <1>2 DEF BridgeInv, TasksInv, Unanswered
<1> QED
  BY <1>1, <1>3, <1>4, <1>5 DEF BridgeInv, JobInv, Calls!vars

-----------------------------------------------------------------------------
\* The worker's calls.
LEMMA BeginKeeps ==
  ASSUME BridgeInv, JobInv, live, job.is \in {"idle", "toDisarm"}, NEW what, NEW l, NEW id, NEW r,
         what \notin {"idle", "toDisarm"}, Begin(what, l, id, r)
  PROVE  BridgeInv' /\ JobInv' /\ Calls!Ask("worker")
<1>1. job'.is = what /\ Call("worker", r) /\ waiting["worker"] = 0
  BY DEF Begin, JobInv
<1>2. BridgeInv' /\ Calls!Ask("worker") /\ live'
  BY <1>1, CallKeeps DEF Threads
<1> QED
  BY <1>1, <1>2 DEF JobInv

LEMMA WorkerReturnKeeps ==
  ASSUME BridgeInv, JobInv, NEW result, Return("worker", result)
  PROVE  BridgeInv' /\ JobInv' /\ Calls!Return("worker")
<1>1. BridgeInv' /\ Calls!Return("worker") /\ waiting'["worker"] = 0
  BY ReturnKeeps DEF Threads
<1>2. DOMAIN pending # {} /\ live' = live
  BY DEF Return, shell
<1>3. live
  BY <1>2 DEF BridgeInv, DeadInv
<1> QED
  BY <1>1, <1>2, <1>3 DEF JobInv

BothInv == BridgeInv /\ JobInv
Maps == BothInv' /\ [Calls!Next]_(Calls!vars)

LEMMA WorkerKeeps ==
  ASSUME BothInv, NEW r, NEW l,
         ArmAutomation(r) \/ DisarmAutomation(r) \/ AutomationRemove(r) \/ DisarmOrphan(l)
           \/ UndoLast \/ DisarmFirst \/ WorkerReturns
  PROVE  Maps
<1>0. BridgeInv /\ JobInv
  BY DEF BothInv
<1>1. ASSUME live, job.is \in {"idle", "toDisarm"}, NEW what, what \notin {"idle", "toDisarm"},
             NEW m, NEW id, NEW q, Begin(what, m, id, q)
      PROVE  Maps
  <2>1. BridgeInv' /\ JobInv' /\ Calls!Ask("worker")
    BY <1>0, <1>1, BeginKeeps
  <2> QED
    BY <2>1 DEF Maps, BothInv, Calls!Next, Threads
<1>2. ASSUME NEW result, Return("worker", result)
      PROVE  Maps
  <2>1. BridgeInv' /\ JobInv' /\ Calls!Return("worker")
    BY <1>0, <1>2, WorkerReturnKeeps
  <2> QED
    BY <2>1 DEF Maps, BothInv, Calls!Next, Threads
<1>3. ASSUME Act PROVE live /\ job.is \in {"idle", "toDisarm"}
  BY <1>3 DEF Act, Idle
<1>4. CASE ArmAutomation(r)
  BY <1>1, <1>3, <1>4 DEF ArmAutomation
<1>5. CASE DisarmAutomation(r)
  BY <1>1, <1>3, <1>5 DEF DisarmAutomation
<1>6. CASE AutomationRemove(r)
  BY <1>1, <1>3, <1>6 DEF AutomationRemove
<1>7. CASE DisarmOrphan(l)
  BY <1>1, <1>3, <1>7 DEF DisarmOrphan
<1>8. CASE UndoLast
  <2>1. CASE Last(trail).undoes = "create"
    <3>1. UNCHANGED <<bridge, shell>> /\ job' = job
      BY <1>8, <2>1 DEF UndoLast, Quiet
    <3> QED
      BY <1>0, <3>1, BridgeStays DEF Maps, BothInv, JobInv, bridge, shell
  <2>2. CASE Last(trail).undoes # "create"
    BY <1>1, <1>3, <1>8, <2>2 DEF UndoLast
  <2> QED
    BY <2>1, <2>2
<1>9. CASE DisarmFirst
  <2>1. live /\ job.is = "toDisarm"
    BY <1>0, <1>9 DEF DisarmFirst, JobInv, Idle
  <2> QED
    BY <1>1, <1>9, <2>1 DEF DisarmFirst
<1>10. CASE WorkerReturns
  <2>1. \E result : Return("worker", result)
    BY <1>10 DEF WorkerReturns, ArmReturns, DisarmReturns, UndoReturns, ListReturns, RemoveReturns
  <2> QED
    BY <1>2, <2>1
<1> QED
  BY <1>4, <1>5, <1>6, <1>7, <1>8, <1>9, <1>10

\* Every step.
LEMMA StepMaps == BothInv /\ [Next]_vars => Maps
<1> SUFFICES ASSUME BothInv, [Next]_vars PROVE Maps
  OBVIOUS
<1>0. BridgeInv /\ JobInv
  BY DEF BothInv
<1>1. ASSUME UNCHANGED <<bridge, shell>>, job' = job PROVE Maps
  BY <1>0, <1>1, BridgeStays DEF Maps, BothInv, JobInv, bridge, shell
<1>2. ASSUME BridgeInv', UNCHANGED <<job, waiting, live>>, [Calls!Next]_(Calls!vars) PROVE Maps
  BY <1>0, <1>2 DEF Maps, BothInv, JobInv
<1>3. CASE \E c \in Commands : CreateAutomation(c)
  BY <1>1, <1>3 DEF CreateAutomation, Quiet
<1>4. CASE Restore
  BY <1>1, <1>4 DEF Restore, Quiet
<1>5. CASE \/ \E r \in rows : ArmAutomation(r) \/ DisarmAutomation(r) \/ AutomationRemove(r)
           \/ \E l \in Range(Labels) : DisarmOrphan(l)
           \/ UndoLast \/ DisarmFirst \/ WorkerReturns
  BY <1>5, WorkerKeeps
<1>6. CASE PickDirectory
  <2>1. Call("picker", Request("pick", None, None)) /\ live /\ waiting["picker"] = 0 /\ job' = job
    BY <1>6 DEF PickDirectory, core
  <2>2. /\ BridgeInv' /\ Calls!Ask("picker") /\ live'
        /\ waiting'["worker"] = waiting["worker"]
    BY <1>0, <2>1, CallKeeps DEF Threads
  <2> QED
    BY <1>0, <2>1, <2>2 DEF Maps, BothInv, JobInv, Calls!Next, Threads
<1>7. CASE PickReturns
  <2>1. PICK result : Return("picker", result) /\ job' = job
    BY <1>7 DEF PickReturns, core
  <2>2. /\ BridgeInv' /\ Calls!Return("picker") /\ live' = live
        /\ waiting'["worker"] = waiting["worker"]
    BY <1>0, <2>1, ReturnKeeps DEF Threads, Return, shell
  <2> QED
    BY <1>0, <2>1, <2>2 DEF Maps, BothInv, JobInv, Calls!Next, Threads
<1>8. CASE ResolveResponse
  BY <1>0, <1>2, <1>8, ResolveKeeps DEF ResolveResponse, core
<1>9. CASE PumpReads
  BY <1>0, <1>2, <1>9, PumpReadsKeeps DEF PumpReads, core, bridge
<1>10. CASE PumpAnswers
  BY <1>0, <1>2, <1>10, PumpAnswersKeeps DEF PumpAnswers, core, bridge
<1>11. CASE TaskStarts
  BY <1>0, <1>2, <1>11, TaskStartsKeeps DEF TaskStarts, core, bridge
<1>12. CASE TaskWorks
  BY <1>0, <1>2, <1>12, TaskWorksKeeps DEF TaskWorks, core, bridge
<1>13. CASE TaskAnswers
  BY <1>0, <1>2, <1>13, TaskAnswersKeeps DEF TaskAnswers, core, bridge
<1>14. CASE CoreDies
  BY <1>0, <1>14, CoreDiesKeeps DEF Maps, BothInv, Calls!Next
<1>15. CASE Respawn
  BY <1>0, <1>15, RespawnKeeps DEF Maps, BothInv
<1>16. CASE UNCHANGED vars
  BY <1>1, <1>16 DEF vars, core
<1> QED
  BY <1>3, <1>4, <1>5, <1>6, <1>7, <1>8, <1>9, <1>10, <1>11, <1>12, <1>13, <1>14, <1>15, <1>16 DEF Next

(* The bridge implements ShellCalls: whatever the shell delays, reorders or answers     *)
(* after a core has died, a request is carried out at most once and its caller comes    *)
(* back with the answer to that very request or with none (shell_bridge.py _call and    *)
(* resolve_response, agent_process.rs spawn_request).                                   *)
THEOREM BridgeIsShellCalls == Spec => Calls!Init /\ [][Calls!Next]_(Calls!vars)
<1>1. Init => BothInv /\ Calls!Init
  BY InitBridge DEF BothInv
<1>2. BothInv /\ [Next]_vars => BothInv' /\ [Calls!Next]_(Calls!vars)
  BY StepMaps DEF Maps
<1> QED
  BY <1>1, <1>2, PTL DEF Spec

-----------------------------------------------------------------------------
(* What the person is told of a job.                                       *)

\* A request the shell has yet to carry out.
SentOn(q) == \/ \E i \in 1..Len(pipe) : q = pipe[i]
             \/ pump # Nobody /\ q = pump
             \/ \E k \in tasks : k.answer = <<>> /\ q = k.asks

\* What the worker's call asks for.
Asks(is) == IF is \in {"undo", "remove"} THEN "disarm" ELSE is

\* The worker's request asks what its job says; an arming nobody waits for is a lost one.
Fits(q) ==
  /\ q.n = waiting["worker"] => q.request.what = Asks(job.is) /\ q.request.label = job.label
  /\ q.request.what = "arm" => \/ job.is = "arm" /\ q.n = waiting["worker"]
                               \/ q.request.label \in lost
SentInv == \A q : SentOn(q) => Fits(q)

LaunchdShape ==
  file = [l \in Range(Labels) |-> file[l]] /\ loaded = [l \in Range(Labels) |-> loaded[l]]
Bears(y) == y[1] = waiting["worker"] /\ y[2].ok

\* What an answer the worker has yet to hear says is still so.
HeardInv ==
  \A y \in answered : Bears(y) =>
    /\ job.is \in {"disarm", "remove"} => Off(job.label) \/ job.label \in lost
    /\ job.is = "list" /\ job.label \notin y[2].armed =>
         file[job.label] = None \/ job.label \in lost \/ y[1] \in blind

\* What the worker was told last is of an earlier call.
NumbersInv ==
  /\ waiting["worker"] \in 0..asked /\ told["worker"][1] \in 0..asked
  /\ waiting["worker"] # 0 => told["worker"][1] < waiting["worker"]

\* Every row that is or can be brought back; one id has one label.
Kept == UNION (points \cup {rows})
RowsInv ==
  /\ acts \in Nat
  /\ \A r \in Kept : r.id \in 1..acts /\ r.label \in Range(Labels)
  /\ \A r, s \in Kept : r.id = s.id => r.label = s.label
  /\ job.is \in {"disarm", "list", "toDisarm", "remove"} => job.label \in Range(Labels)
  /\ job.is \in {"list", "toDisarm", "remove"} => \A r \in Kept : r.id = job.id => r.label = job.label
  /\ job = [is |-> job.is, label |-> job.label, id |-> job.id]

ToldInv == SentInv /\ LaunchdShape /\ HeardInv /\ NumbersInv /\ RowsInv

-----------------------------------------------------------------------------
LEMMA InitTold == Init => ToldInv
<1> SUFFICES ASSUME Init PROVE ToldInv
  OBVIOUS
<1>1. SentInv
  BY DEF Init, SentInv, SentOn
<1>2. LaunchdShape /\ HeardInv
  BY DEF Init, LaunchdShape, HeardInv
<1>3. NumbersInv
  BY DEF Init, NumbersInv, Threads
<1>4. RowsInv
  BY DEF Init, RowsInv, Kept, Idle
<1> QED
  BY <1>1, <1>2, <1>3, <1>4 DEF ToldInv

\* What is on its way has a number and no answer.
LEMMA SentUnanswered ==
  ASSUME BridgeInv, NEW q, SentOn(q)
  PROVE  q.n \in 1..asked /\ Unanswered(q.n)
<1>1. CASE \E i \in 1..Len(pipe) : q = pipe[i]
  BY <1>1 DEF BridgeInv, PipeInv, Unanswered
<1>2. CASE \E k \in tasks : k.answer = <<>> /\ q = k.asks
  BY <1>2 DEF BridgeInv, TasksInv
<1>3. CASE pump # Nobody /\ q = pump
  BY <1>3 DEF BridgeInv, PumpInv, Unanswered
<1> QED
  BY <1>1, <1>2, <1>3 DEF SentOn

\* Nothing new is on its way.
LEMMA SentShrinks ==
  ASSUME SentInv, \A q : SentOn(q)' => SentOn(q),
         UNCHANGED <<job, lost>>, waiting'["worker"] = waiting["worker"]
  PROVE  SentInv'
<1>1. ASSUME NEW q, Fits(q) PROVE Fits(q)'
  BY <1>1 DEF Fits
<1> QED
  BY <1>1 DEF SentInv

\* Only an arming puts anything of a label back.
LEMMA CarryOutLeaves ==
  ASSUME LaunchdShape, NEW q, NEW a, CarryOut(q, a), NEW l
  PROVE  /\ LaunchdShape' /\ blind \subseteq blind'
         /\ file[l] = None /\ ~(q.request.what = "arm" /\ q.request.label = l) /\ l \in Range(Labels)
              => file'[l] = None
         /\ Off(l) /\ ~(q.request.what = "arm" /\ q.request.label = l) /\ l \in Range(Labels)
              => Off(l)'
<1>1. CASE q.request.what = "arm" /\ ShellArms(q.request.label, q.request.command, a)
  BY <1>1 DEF ShellArms, LaunchdShape, launchd, Off
<1>2. CASE q.request.what = "disarm" /\ ShellDisarms(q.request.label, a)
  <2>1. blind' = blind /\ LaunchdShape'
    BY <1>2 DEF ShellDisarms, BootoutHangs, BootoutWorks, BootoutFails, LaunchdShape
  <2>2. l \in Range(Labels) /\ file[l] = None => file'[l] = None
    BY <1>2 DEF ShellDisarms, LaunchdShape
  <2>3. CASE BootoutHangs(q.request.label) \/ BootoutFails(q.request.label)
    BY <2>1, <2>2, <2>3 DEF BootoutHangs, BootoutFails, LaunchdShape, Off
  <2>4. CASE BootoutWorks(q.request.label)
    BY <2>1, <2>2, <2>4 DEF BootoutWorks, LaunchdShape, Off
  <2> QED
    BY <1>2, <2>1, <2>2, <2>3, <2>4 DEF ShellDisarms
<1>3. CASE UNCHANGED launchd
  BY <1>3 DEF LaunchdShape, launchd, Off
<1>4. CASE ShellLists(q.n, a)
  BY <1>4 DEF ShellLists, LaunchdShape, Off
<1> QED
  BY <1>1, <1>2, <1>3, <1>4 DEF CarryOut

\* Switched off with a yes: off.  Not in a list read to its end: no file.
LEMMA CarryOutTells ==
  ASSUME LaunchdShape, NEW q, NEW a, CarryOut(q, a), a.ok, q.request.label \in Range(Labels)
  PROVE  /\ q.request.what = "disarm" => Off(q.request.label)'
         /\ q.request.what = "list" /\ q.request.label \notin a.armed
              => file'[q.request.label] = None \/ q.n \in blind'
<1>1. CASE q.request.what = "disarm"
  <2>1. ShellDisarms(q.request.label, a)
    BY <1>1 DEF CarryOut
  <2>2. NotOk.ok = FALSE
    BY DEF NotOk
  <2>3. /\ BootoutWorks(q.request.label) \/ BootoutFails(q.request.label)
        /\ file' = [file EXCEPT ![q.request.label] = None]
    BY <2>1, <2>2 DEF ShellDisarms
  <2> QED
    BY <1>1, <2>3 DEF BootoutWorks, BootoutFails, LaunchdShape, Off
<1>2. CASE q.request.what = "list"
  <2>1. PICK seen \in SUBSET Installed :
          a = Ok(seen) /\ blind' = IF seen = Installed THEN blind ELSE blind \cup {q.n}
    BY <1>2 DEF CarryOut, ShellLists
  <2>2. a.armed = seen /\ file' = file
    BY <1>2, <2>1 DEF Ok, CarryOut, ShellLists
  <2> QED
    BY <1>2, <2>1, <2>2 DEF Installed
<1> QED
  BY <1>1, <1>2

-----------------------------------------------------------------------------
\* Whatever the worker has not to do with.
LEMMA AsideKeeps ==
  ASSUME ToldInv, UNCHANGED <<job, lost, launchd, answered>>, waiting'["worker"] = waiting["worker"],
         told'["worker"] = told["worker"], asked \in Nat, asked' \in {asked, asked + 1}, SentInv', RowsInv'
  PROVE  ToldInv'
<1>1. LaunchdShape' /\ HeardInv'
  BY DEF ToldInv, LaunchdShape, HeardInv, Bears, Off, launchd
<1>2. NumbersInv'
  BY DEF ToldInv, NumbersInv
<1> QED
  BY <1>1, <1>2 DEF ToldInv

\* Rows go, and come back only from where they were kept.
LEMMA RowsShrink ==
  ASSUME RowsInv, \A r \in Kept' : r \in Kept, acts' \in {acts, acts + 1},
         job' = [is |-> job'.is, label |-> job'.label, id |-> job'.id],
         job'.is \in {"disarm", "list", "toDisarm", "remove"} => job'.label \in Range(Labels),
         job'.is \in {"list", "toDisarm", "remove"} => \A r \in Kept : r.id = job'.id => r.label = job'.label
  PROVE  RowsInv'
<1>1. acts' \in Nat /\ \A i \in 1..acts : i \in 1..acts'
  BY DEF RowsInv
<1> QED
  BY <1>1 DEF RowsInv

LEMMA RowsRest ==
  ASSUME RowsInv, UNCHANGED <<rows, points, job>>, acts' \in {acts, acts + 1}
  PROVE  RowsInv'
<1>1. Kept' = Kept
  BY DEF Kept
<1> QED
  BY <1>1, RowsShrink DEF RowsInv

\* A call puts one request on its way.
LEMMA CallSends ==
  ASSUME BridgeInv, NEW t \in Threads, NEW r, Call(t, r)
  PROVE  /\ \A q : SentOn(q)' => SentOn(q) \/ (q.n = asked + 1 /\ q.request = r)
         /\ asked \in Nat /\ asked' = asked + 1 /\ waiting' = [waiting EXCEPT ![t] = asked + 1]
         /\ \A u \in Threads : waiting'[u] = IF u = t THEN asked + 1 ELSE waiting[u]
         /\ UNCHANGED <<told, pump, answered>>
<1>1. /\ asked \in Nat /\ asked' = asked + 1 /\ waiting' = [waiting EXCEPT ![t] = asked + 1]
      /\ waiting = [u \in Threads |-> waiting[u]]
      /\ UNCHANGED <<told, pump, tasks, answered>>
  BY DEF BridgeInv, Counts, Call
<1>2. PICK q0 : q0 = [n |-> asked + 1, id |-> counter + 1, request |-> r] /\ pipe' = Append(pipe, q0)
  BY <1>1 DEF Call
<1>3. q0.n = asked + 1 /\ q0.request = r
  BY <1>2
<1>4. \A i \in 1..Len(pipe') : pipe'[i] = q0 \/ (i \in 1..Len(pipe) /\ pipe'[i] = pipe[i])
  <2>1. PICK S : pipe \in Seq(S)
    BY DEF BridgeInv, PipeInv
  <2>2. pipe \in Seq(S \cup {q0})
    BY <2>1, SeqMonotonic, S \subseteq S \cup {q0}
  <2> QED
    BY <1>2, <2>2
<1>5. \A q : SentOn(q)' => SentOn(q) \/ (q.n = asked + 1 /\ q.request = r)
  BY <1>1, <1>3, <1>4 DEF SentOn
<1> QED
  BY <1>1, <1>5

\* The worker's call: nothing was answered to it yet.
LEMMA BeginTells ==
  ASSUME BridgeInv, ToldInv, job.is \in {"idle", "toDisarm"}, NEW what \in {"arm", "disarm", "undo", "list", "remove"},
         NEW l, NEW id, NEW r, r.what = Asks(what), r.label = l, Begin(what, l, id, r)
  PROVE  SentInv' /\ LaunchdShape' /\ HeardInv' /\ NumbersInv'
<1>1. /\ job' = [is |-> what, label |-> l, id |-> id]
      /\ Call("worker", r) /\ UNCHANGED <<launchd, lost>>
  BY DEF Begin
<1>2. job'.is = what /\ job'.label = l
  BY <1>1
<1>3. /\ \A q : SentOn(q)' => SentOn(q) \/ (q.n = asked + 1 /\ q.request = r)
      /\ asked \in Nat /\ asked' = asked + 1 /\ waiting'["worker"] = asked + 1
      /\ UNCHANGED <<told, pump, answered>>
  BY <1>1, CallSends DEF Threads
<1>4. ASSUME NEW q, SentOn(q)' PROVE Fits(q)'
  <2>1. CASE SentOn(q)
    <3>1. q.n \in 1..asked /\ Fits(q)
      BY <2>1, SentUnanswered DEF ToldInv, SentInv
    <3>2. q.n # waiting'["worker"]
      BY <1>3, <3>1
    <3>3. q.request.what = "arm" => q.request.label \in lost'
      BY <1>1, <3>1 DEF Fits
    <3> QED
      BY <3>2, <3>3 DEF Fits
  <2>2. CASE q.n = asked + 1 /\ q.request = r
    BY <1>2, <1>3, <2>2 DEF Fits, Asks
  <2> QED
    BY <1>3, <1>4, <2>1, <2>2
<1>5. SentInv'
  BY <1>3, <1>4 DEF ToldInv, SentInv
<1>6. \A y \in answered' : y[1] # waiting'["worker"]
  BY <1>3 DEF BridgeInv, Counts
<1>7. LaunchdShape' /\ HeardInv'
  BY <1>1, <1>6 DEF ToldInv, LaunchdShape, HeardInv, Bears, Off, launchd
<1>8. NumbersInv'
  BY <1>3 DEF ToldInv, NumbersInv
<1> QED
  BY <1>5, <1>7, <1>8

\* What a call of the worker may come back with.
LEMMA WorkerHears ==
  ASSUME BridgeInv, NEW n, NEW a, Return("worker", <<n, a>>)
  PROVE  /\ n = waiting["worker"] /\ n \in 1..asked /\ (<<n, a>> \in answered \/ a = NoAnswer)
         /\ told'["worker"] = <<n, a>> /\ waiting'["worker"] = 0
         /\ UNCHANGED <<asked, pipe, pump, tasks, answered, live>>
<1>1. PICK id \in DOMAIN pending :
        /\ pending[id].thread = "worker"
        /\ \/ pending[id].event /\ <<n, a>> = pending[id].result
           \/ <<n, a>> = <<waiting["worker"], NoAnswer>>
  BY DEF Return
<1>2. /\ told' = [told EXCEPT !["worker"] = <<n, a>>] /\ waiting' = [waiting EXCEPT !["worker"] = 0]
      /\ UNCHANGED <<asked, pipe, pump, tasks, answered, live>>
  BY DEF Return, shell
<1>3. told = [u \in Threads |-> told[u]] /\ waiting = [u \in Threads |-> waiting[u]]
      /\ asked \in Nat /\ counter \in 0..asked
  BY DEF BridgeInv, Counts
<1>4. /\ id \in 1..counter /\ waiting["worker"] = id + (asked - counter)
      /\ pending[id].event => /\ pending[id].result \in answered
                              /\ pending[id].result[1] = waiting["worker"]
  BY <1>1 DEF BridgeInv, PendingInv
<1>5. waiting["worker"] \in 1..asked
  BY <1>3, <1>4
<1>6. CASE pending[id].event /\ <<n, a>> = pending[id].result
  <2>1. <<n, a>> \in answered /\ <<n, a>>[1] = waiting["worker"]
    BY <1>4, <1>6
  <2> QED
    BY <1>2, <1>3, <1>5, <2>1 DEF Threads
<1>7. CASE <<n, a>> = <<waiting["worker"], NoAnswer>>
  BY <1>2, <1>3, <1>5, <1>7 DEF Threads
<1> QED
  BY <1>1, <1>6, <1>7

LEMMA ReturnTells ==
  ASSUME BridgeInv, ToldInv, NEW n, NEW a, Return("worker", <<n, a>>), UNCHANGED launchd,
         lost \subseteq lost', job.is = "arm" /\ a = NoAnswer => job.label \in lost'
  PROVE  SentInv' /\ LaunchdShape' /\ HeardInv' /\ NumbersInv'
<1>1. /\ n = waiting["worker"] /\ n \in 1..asked /\ (<<n, a>> \in answered \/ a = NoAnswer)
      /\ told'["worker"] = <<n, a>> /\ waiting'["worker"] = 0
      /\ UNCHANGED <<asked, pipe, pump, tasks, answered>>
  BY WorkerHears
<1>2. asked \in Nat /\ \A y \in answered : y[1] \in 1..asked
  BY DEF BridgeInv, Counts
<1>3. ASSUME NEW q, SentOn(q)' PROVE Fits(q)'
  <2>1. SentOn(q)
    BY <1>1, <1>3 DEF SentOn
  <2>2. q.n \in 1..asked /\ Unanswered(q.n) /\ Fits(q)
    BY <2>1, SentUnanswered DEF ToldInv, SentInv
  <2>3. q.n # waiting'["worker"]
    BY <1>1, <2>2
  <2>4. ASSUME q.request.what = "arm", q.request.label \notin lost PROVE q.request.label \in lost'
    <3>1. job.is = "arm" /\ q.n = n /\ q.request.label = job.label
      BY <1>1, <2>2, <2>4 DEF Fits
    <3>2. <<n, a>> \notin answered
      BY <2>2, <3>1 DEF Unanswered
    <3> QED
      BY <1>1, <3>1, <3>2
  <2> QED
    BY <2>3, <2>4 DEF Fits
<1>4. SentInv'
  BY <1>1, <1>3 DEF ToldInv, SentInv
<1>5. LaunchdShape' /\ HeardInv'
  BY <1>1, <1>2 DEF ToldInv, LaunchdShape, HeardInv, Bears, Off, launchd
<1>6. NumbersInv'
  BY <1>1, <1>2 DEF NumbersInv
<1> QED
  BY <1>4, <1>5, <1>6

\* The shell carries a request out.
LEMMA CarryOutKeeps ==
  ASSUME BridgeInv, ToldInv, NEW q, NEW a, CarryOut(q, a), answered' = answered \cup {<<q.n, a>>},
         q.n = waiting["worker"] => q.request.what = Asks(job.is) /\ q.request.label = job.label,
         q.request.what = "arm" => job.is = "arm" \/ q.request.label \in lost,
         UNCHANGED <<core, bridge, lost, acts>>
  PROVE  LaunchdShape' /\ HeardInv' /\ NumbersInv' /\ RowsInv'
<1>1. UNCHANGED <<job, waiting, told, asked, rows, points, acts, lost>>
  BY DEF core, bridge
<1>2. RowsInv' /\ NumbersInv'
  BY <1>1, RowsRest DEF ToldInv, NumbersInv
<1>3. LaunchdShape' /\ blind \subseteq blind'
  BY CarryOutLeaves DEF ToldInv
<1>4. ASSUME NEW y \in answered', Bears(y)',
             \/ job.is \in {"disarm", "remove"}
             \/ job.is = "list" /\ job.label \notin y[2].armed
      PROVE  \/ job.label \in lost
             \/ job.is \in {"disarm", "remove"} /\ Off(job.label)'
             \/ job.is = "list" /\ (file'[job.label] = None \/ y[1] \in blind')
  <2>1. job.label \in Range(Labels) /\ y[1] = waiting["worker"] /\ y[2].ok
    BY <1>1, <1>4 DEF ToldInv, RowsInv, Bears
  <2>2. CASE y \in answered
    <3>1. \/ job.label \in lost
          \/ job.is \in {"disarm", "remove"} /\ Off(job.label)
          \/ job.is = "list" /\ (file[job.label] = None \/ y[1] \in blind)
      BY <1>4, <2>1, <2>2 DEF ToldInv, HeardInv, Bears
    <3>2. job.label \in lost \/ ~(q.request.what = "arm" /\ q.request.label = job.label)
      BY <1>4
    <3>3. job.label \notin lost => /\ file[job.label] = None => file'[job.label] = None
                                   /\ Off(job.label) => Off(job.label)'
      <4>1. \A l \in Range(Labels) : ~(q.request.what = "arm" /\ q.request.label = l) =>
              /\ file[l] = None => file'[l] = None
              /\ Off(l) => Off(l)'
        BY CarryOutLeaves DEF ToldInv
      <4>2. job' = job
        BY DEF core
      <4> QED
        BY <2>1, <3>2, <4>1, <4>2 DEF Off
    <3> QED
      BY <1>3, <3>1, <3>3
  <2>3. CASE y \notin answered
    <3>1. y = <<q.n, a>>
      BY <2>3
    <3>2. q.n = waiting["worker"] /\ a.ok /\ y[2] = a /\ y[1] = q.n
      BY <2>1, <3>1
    <3>3. q.request.what = Asks(job.is) /\ q.request.label = job.label
      BY <3>2
    <3>4. /\ q.request.what = "disarm" => Off(q.request.label)'
          /\ q.request.what = "list" /\ q.request.label \notin a.armed
               => file'[q.request.label] = None \/ q.n \in blind'
      BY <2>1, <3>2, <3>3, CarryOutTells DEF ToldInv
    <3>5. job.is \in {"disarm", "remove"} => q.request.what = "disarm"
      BY <3>3 DEF Asks
    <3>6. job.is = "list" => q.request.what = "list"
      BY <3>3 DEF Asks
    <3>7. CASE job.is \in {"disarm", "remove"}
      <4>1. Off(q.request.label)' => Off(job.label)'
        BY <1>1, <3>3 DEF Off
      <4> QED
        BY <3>4, <3>5, <3>7, <4>1
    <3>8. CASE job.is = "list" /\ job.label \notin y[2].armed
      BY <3>2, <3>3, <3>4, <3>6, <3>8
    <3> QED
      BY <1>4, <3>7, <3>8
  <2> QED
    BY <2>2, <2>3
<1>5. HeardInv'
  <2> SUFFICES ASSUME NEW y \in answered', Bears(y)'
               PROVE  /\ job.is \in {"disarm", "remove"} => Off(job.label)' \/ job.label \in lost
                      /\ job.is = "list" /\ job.label \notin y[2].armed
                           => file'[job.label] = None \/ job.label \in lost \/ y[1] \in blind'
    BY <1>1 DEF HeardInv, Off
  <2> QED
    BY <1>4
<1> QED
  BY <1>2, <1>3, <1>5

-----------------------------------------------------------------------------
\* The steps of the worker.
LEMMA BeginRows ==
  ASSUME BridgeInv, ToldInv, Act, NEW what \in {"arm", "disarm", "list"}, NEW m, NEW i, NEW q,
         Begin(what, m, i, q), q.what = what, q.label = m, rows' = rows, Kept' = Kept,
         what = "disarm" => m \in Range(Labels),
         what = "list" => \E r \in rows : m = r.label /\ i = r.id
  PROVE  ToldInv'
<1>0. job.is \in {"idle", "toDisarm"} /\ acts' = acts + 1
  BY DEF Act, Idle
<1>1. SentInv' /\ LaunchdShape' /\ HeardInv' /\ NumbersInv'
  BY <1>0, BeginTells DEF Asks
<1>2. job' = [is |-> what, label |-> m, id |-> i]
  BY DEF Begin
<1>3. job'.is = what /\ job'.label = m /\ job'.id = i
  BY <1>2
<1>4. what = "list" => m \in Range(Labels) /\ \A s \in Kept : s.id = i => s.label = m
  BY DEF ToldInv, RowsInv, Kept
<1>5. RowsInv'
  BY <1>0, <1>2, <1>3, <1>4, RowsShrink DEF ToldInv
<1> QED
  BY <1>1, <1>5 DEF ToldInv

LEMMA WorkerBegins ==
  ASSUME BridgeInv, ToldInv, NEW r \in rows, r.label \in Range(Labels),
         ArmAutomation(r) \/ DisarmAutomation(r) \/ AutomationRemove(r)
  PROVE  ToldInv'
<1>1. CASE ArmAutomation(r)
  <2>1. PICK q : q = Request("arm", r.label, r.command)
    OBVIOUS
  <2>2. q.what = "arm" /\ q.label = r.label
    BY <2>1 DEF Request
  <2>3. Act /\ Begin("arm", r.label, r.id, q) /\ rows' = rows /\ Kept' = Kept
    BY <1>1, <2>1 DEF ArmAutomation, Kept
  <2> QED
    BY <2>2, <2>3, BeginRows
<1>2. CASE DisarmAutomation(r)
  <2>1. PICK q : q = Request("disarm", r.label, None)
    OBVIOUS
  <2>2. q.what = "disarm" /\ q.label = r.label
    BY <2>1 DEF Request
  <2>3. Act /\ Begin("disarm", r.label, r.id, q) /\ rows' = rows /\ Kept' = Kept
    BY <1>2, <2>1 DEF DisarmAutomation, Kept
  <2> QED
    BY <2>2, <2>3, BeginRows
<1>3. CASE AutomationRemove(r)
  <2>1. PICK q : q = Request("list", r.label, None)
    OBVIOUS
  <2>2. q.what = "list" /\ q.label = r.label
    BY <2>1 DEF Request
  <2>3. Act /\ Begin("list", r.label, r.id, q) /\ rows' = rows /\ Kept' = Kept
    BY <1>3, <2>1 DEF AutomationRemove, Kept
  <2> QED
    BY <2>2, <2>3, BeginRows
<1> QED
  BY <1>1, <1>2, <1>3

LEMMA OrphanTells ==
  ASSUME BridgeInv, ToldInv, NEW l \in Range(Labels), DisarmOrphan(l)
  PROVE  ToldInv'
<1>1. PICK q : q = Request("disarm", l, None)
  OBVIOUS
<1>2. q.what = "disarm" /\ q.label = l
  BY <1>1 DEF Request
<1>3. Act /\ Begin("disarm", l, 0, q) /\ rows' = rows /\ Kept' = Kept
  BY <1>1 DEF DisarmOrphan, Kept
<1> QED
  BY <1>2, <1>3, BeginRows

LEMMA DisarmFirstTells ==
  ASSUME BridgeInv, ToldInv, DisarmFirst
  PROVE  ToldInv'
<1>1. /\ job.is = "toDisarm" /\ UNCHANGED <<rows, points, acts>>
      /\ Begin("remove", job.label, job.id, Request("disarm", job.label, None))
  BY DEF DisarmFirst
<1>2. SentInv' /\ LaunchdShape' /\ HeardInv' /\ NumbersInv'
  BY <1>1, BeginTells DEF Request, Asks
<1>3. job' = [is |-> "remove", label |-> job.label, id |-> job.id] /\ Kept' = Kept
  BY <1>1 DEF Begin, Kept
<1>4. job'.is = "remove" /\ job'.label = job.label /\ job'.id = job.id
  BY <1>3
<1>5. RowsInv'
  BY <1>1, <1>3, <1>4, RowsShrink DEF ToldInv, RowsInv
<1> QED
  BY <1>2, <1>5 DEF ToldInv

\* Nothing is asked: the rows change, and the worker stays idle.
LEMMA RowsOnly ==
  ASSUME ToldInv, UNCHANGED <<bridge, shell, launchd, lost, job>>, RowsInv'
  PROVE  ToldInv'
<1>1. UNCHANGED <<asked, waiting, told, answered, pipe, tasks, pump>>
  BY DEF bridge, shell
<1>2. SentInv'
  BY <1>1, SentShrinks DEF ToldInv, SentOn
<1> QED
  BY <1>1, <1>2 DEF ToldInv, LaunchdShape, HeardInv, NumbersInv, Bears, Off, launchd

LEMMA CreateTells ==
  ASSUME ToldInv, NEW c, CreateAutomation(c)
  PROVE  ToldInv'
<1>1. job = Idle /\ acts' = acts + 1 /\ UNCHANGED <<bridge, shell, launchd, lost, points, job>>
  BY DEF CreateAutomation, Act, Quiet
<1>2. PICK l \in Range(Labels) : rows' = rows \cup {[id |-> acts', label |-> l, command |-> c]}
  BY DEF CreateAutomation
<1>3. PICK new : new = [id |-> acts', label |-> l, command |-> c] /\ rows' = rows \cup {new}
  BY <1>2
<1>4. new.id = acts + 1 /\ new.label = l
  BY <1>1, <1>3
<1>5. \A r \in Kept' : r \in Kept \/ r = new
  BY <1>1, <1>3 DEF Kept
<1>6. acts \in Nat /\ \A r \in Kept : r.id \in 1..acts /\ r.label \in Range(Labels)
  BY DEF ToldInv, RowsInv
<1>7. \A r \in Kept' : r.id \in 1..acts' /\ r.label \in Range(Labels)
  BY <1>1, <1>4, <1>5, <1>6
<1>8. \A r, s \in Kept' : r.id = s.id => r.label = s.label
  BY <1>4, <1>5, <1>6 DEF ToldInv, RowsInv
<1>9. RowsInv'
  BY <1>1, <1>6, <1>7, <1>8 DEF RowsInv, Idle
<1> QED
  BY <1>1, <1>9, RowsOnly

LEMMA RestoreTells ==
  ASSUME ToldInv, Restore
  PROVE  ToldInv'
<1>1. /\ acts' = acts + 1 /\ rows' \in points
      /\ UNCHANGED <<bridge, shell, launchd, lost, points, job>>
  BY DEF Restore, Act, Quiet
<1>2. \A r \in Kept' : r \in Kept
  BY <1>1 DEF Kept
<1>3. RowsInv'
  BY <1>1, <1>2, RowsShrink DEF ToldInv, RowsInv
<1> QED
  BY <1>1, <1>3, RowsOnly

LEMMA UndoTells ==
  ASSUME BridgeInv, ToldInv, UndoLast
  PROVE  ToldInv'
<1>1. CASE Last(trail).undoes = "create"
  <2>1. /\ acts' = acts + 1 /\ rows' \subseteq rows
        /\ UNCHANGED <<bridge, shell, launchd, lost, points, job>>
    BY <1>1 DEF UndoLast, Act, Quiet
  <2>2. \A r \in Kept' : r \in Kept
    BY <2>1 DEF Kept
  <2>3. RowsInv'
    BY <2>1, <2>2, RowsShrink DEF ToldInv, RowsInv
  <2> QED
    BY <2>1, <2>3, RowsOnly
<1>2. CASE Last(trail).undoes # "create"
  <2>1. PICK l : /\ Begin("undo", l, 0, Request("disarm", l, None))
                 /\ job.is = "idle" /\ acts' = acts + 1 /\ UNCHANGED <<rows, points>>
    BY <1>2 DEF UndoLast, Act, Idle
  <2>2. SentInv' /\ LaunchdShape' /\ HeardInv' /\ NumbersInv'
    BY <2>1, BeginTells DEF Request, Asks
  <2>3. job' = [is |-> "undo", label |-> l, id |-> 0] /\ Kept' = Kept
    BY <2>1 DEF Begin, Kept
  <2>4. job'.is = "undo" /\ job'.label = l /\ job'.id = 0
    BY <2>3
  <2>5. RowsInv'
    BY <2>1, <2>3, <2>4, RowsShrink DEF ToldInv
  <2> QED
    BY <2>2, <2>5 DEF ToldInv
<1> QED
  BY <1>1, <1>2

LEMMA WorkerReturnTells ==
  ASSUME BridgeInv, ToldInv, WorkerReturns
  PROVE  ToldInv'
<1>1. PICK n, a : /\ Return("worker", <<n, a>>) /\ UNCHANGED launchd /\ lost \subseteq lost'
                  /\ job.is = "arm" /\ a = NoAnswer => job.label \in lost'
  <2>1. CASE ArmReturns
    <3>1. PICK n \in 1..asked, a \in Answers \cup {NoAnswer} :
            Return("worker", <<n, a>>) /\ lost' = IF a = NoAnswer THEN lost \cup {job.label} ELSE lost
      BY <2>1, Zenon DEF ArmReturns
    <3>2. UNCHANGED launchd
      BY <2>1 DEF ArmReturns
    <3>3. lost \subseteq lost' /\ (a = NoAnswer => job.label \in lost')
      BY <3>1
    <3> QED
      BY <3>1, <3>2, <3>3, Zenon
  <2>2. CASE DisarmReturns \/ UndoReturns \/ ListReturns \/ RemoveReturns
    <3>1. \E n \in 1..asked, a \in Answers \cup {NoAnswer} : Return("worker", <<n, a>>)
      <4>1. CASE DisarmReturns
        BY <4>1, Zenon DEF DisarmReturns
      <4>2. CASE UndoReturns
        BY <4>2, Zenon DEF UndoReturns
      <4>3. CASE ListReturns
        BY <4>3, Zenon DEF ListReturns
      <4>4. CASE RemoveReturns
        BY <4>4, Zenon DEF RemoveReturns
      <4> QED
        BY <2>2, <4>1, <4>2, <4>3, <4>4
    <3>2. job.is # "arm" /\ UNCHANGED launchd /\ lost' = lost
      BY <2>2 DEF DisarmReturns, UndoReturns, ListReturns, RemoveReturns
    <3> QED
      BY <3>1, <3>2
  <2> QED
    BY <2>1, <2>2 DEF WorkerReturns
<1>2. SentInv' /\ LaunchdShape' /\ HeardInv' /\ NumbersInv'
  BY <1>1, ReturnTells
<1>3. /\ rows' \subseteq rows /\ points' = points /\ acts' = acts
      /\ job' = Idle \/ (job.is = "list" /\ job' = [job EXCEPT !.is = "toDisarm"])
  BY DEF WorkerReturns, ArmReturns, DisarmReturns, UndoReturns, ListReturns, RemoveReturns, Forget
<1>4. \A r \in Kept' : r \in Kept
  BY <1>3 DEF Kept
<1>5. ASSUME job' = Idle PROVE RowsInv'
  BY <1>3, <1>4, <1>5, RowsShrink DEF ToldInv, Idle, RowsInv
<1>6. ASSUME job.is = "list", job' = [job EXCEPT !.is = "toDisarm"] PROVE RowsInv'
  <2>1. job = [is |-> job.is, label |-> job.label, id |-> job.id]
    BY DEF ToldInv, RowsInv
  <2>2. job' = [is |-> "toDisarm", label |-> job.label, id |-> job.id]
    BY <1>6, <2>1
  <2>3. job'.is = "toDisarm" /\ job'.label = job.label /\ job'.id = job.id
    BY <2>2
  <2> QED
    BY <1>3, <1>4, <1>6, <2>2, <2>3, RowsShrink DEF ToldInv, RowsInv
<1>7. RowsInv'
  BY <1>3, <1>5, <1>6
<1> QED
  BY <1>2, <1>7 DEF ToldInv

\* The core dies: an arming on its way is a lost one.
LEMMA CoreDiesTells ==
  ASSUME BridgeInv, ToldInv, CoreDies
  PROVE  ToldInv'
<1>1. /\ waiting'["worker"] = 0 /\ job' = Idle
      /\ UNCHANGED <<rows, points, asked, told, pipe, pump, tasks, answered, launchd, acts>>
      /\ lost' = IF job.is = "arm" THEN lost \cup {job.label} ELSE lost
  BY DEF CoreDies, Threads
<1>2. ASSUME NEW q, SentOn(q)' PROVE Fits(q)'
  <2>1. SentOn(q)
    BY <1>1, <1>2 DEF SentOn
  <2>2. q.n \in 1..asked /\ Fits(q)
    BY <2>1, SentUnanswered DEF ToldInv, SentInv
  <2>3. asked \in Nat
    BY DEF BridgeInv, Counts
  <2> QED
    BY <1>1, <2>2, <2>3 DEF Fits
<1>3. SentInv'
  BY <1>1, <1>2 DEF ToldInv, SentInv
<1>4. asked \in Nat /\ \A y \in answered : y[1] \in 1..asked
  BY DEF BridgeInv, Counts
<1>5. LaunchdShape' /\ HeardInv' /\ NumbersInv'
  BY <1>1, <1>4 DEF ToldInv, LaunchdShape, HeardInv, NumbersInv, Bears, launchd
<1>6. RowsInv'
  BY <1>1, RowsShrink DEF ToldInv, RowsInv, Idle, Kept
<1> QED
  BY <1>3, <1>5, <1>6 DEF ToldInv

\* The steps the worker has no part in.
LEMMA AsideTells ==
  ASSUME BridgeInv, ToldInv,
         ResolveResponse \/ PumpReads \/ TaskStarts \/ TaskAnswers \/ Respawn \/ PickReturns
  PROVE  ToldInv'
<1>1. UNCHANGED <<rows, points, job, lost, launchd, acts, answered, asked>>
  BY DEF ResolveResponse, PumpReads, TaskStarts, TaskAnswers, Respawn, PickReturns, Return, core, bridge, shell
<1>2. waiting'["worker"] = waiting["worker"] /\ told'["worker"] = told["worker"]
  <2>1. CASE PickReturns
    <3>1. PICK result : Return("picker", result)
      BY <2>1 DEF PickReturns
    <3>2. waiting = [t \in Threads |-> waiting[t]] /\ told = [t \in Threads |-> told[t]]
      BY DEF BridgeInv, Counts
    <3> QED
      BY <3>1, <3>2 DEF Return, Threads
  <2>2. CASE UNCHANGED <<waiting, told>>
    BY <2>2
  <2> QED
    BY <2>1, <2>2 DEF ResolveResponse, PumpReads, TaskStarts, TaskAnswers, Respawn, bridge
<1>3. SentInv'
  <2>1. CASE PumpReads
    <3>1. /\ pipe # <<>> /\ pump = Nobody /\ pipe' = Tail(pipe)
          /\ \E S : pipe \in Seq(S)
      BY <2>1 DEF PumpReads, BridgeInv, PipeInv
    <3>2. PICK x : /\ x = Head(pipe)
                   /\ \/ pump' = x /\ tasks' = tasks
                      \/ /\ tasks' = tasks \cup {[asks |-> x, generation |-> 0, answer |-> <<>>]}
                         /\ pump' = pump
      BY <2>1 DEF PumpReads
    <3>6. PICK new : new = [asks |-> x, generation |-> 0, answer |-> <<>>]
      OBVIOUS
    <3>7. new.asks = x
      BY <3>6
    <3>3. /\ 1 \in 1..Len(pipe) /\ x = pipe[1]
          /\ \A i \in 1..Len(pipe') : i + 1 \in 1..Len(pipe) /\ pipe'[i] = pipe[i + 1]
      BY <3>1, <3>2
    <3>4. ASSUME NEW q, SentOn(q)' PROVE SentOn(q)
      <4>1. \/ q = x \/ \E i \in 1..Len(pipe') : q = pipe'[i]
            \/ \E k \in tasks : k.answer = <<>> /\ q = k.asks
        BY <3>1, <3>2, <3>4, <3>6, <3>7 DEF SentOn
      <4> QED
        BY <3>3, <4>1 DEF SentOn
    <3> QED
      BY <1>1, <1>2, <3>4, SentShrinks DEF ToldInv
  <2>2. CASE TaskStarts
    <3>1. PICK k \in tasks : tasks' = (tasks \ {k}) \cup {[k EXCEPT !.generation = generation]}
      BY <2>2 DEF TaskStarts
    <3>2. pipe' = pipe /\ pump' = pump
      BY <2>2 DEF TaskStarts
    <3>3. PICK new : new = [k EXCEPT !.generation = generation]
      OBVIOUS
    <3>4. new.asks = k.asks /\ new.answer = k.answer
      BY <3>3, WriteGeneration, TasksOneByOne DEF BridgeInv, TaskHolds
    <3>5. \A q : SentOn(q)' => SentOn(q)
      BY <3>1, <3>2, <3>3, <3>4 DEF SentOn
    <3> QED
      BY <1>1, <1>2, <3>2, <3>5, SentShrinks DEF ToldInv
  <2>3. CASE ~PumpReads /\ ~TaskStarts
    <3>1. pipe' = pipe /\ pump' = pump /\ tasks' \subseteq tasks
      BY <2>3 DEF ResolveResponse, TaskAnswers, Respawn, PickReturns, Return, shell
    <3>2. \A q : SentOn(q)' => SentOn(q)
      BY <3>1 DEF SentOn
    <3> QED
      BY <1>1, <1>2, <2>3, <3>2, SentShrinks DEF ToldInv
  <2> QED
    BY <2>1, <2>2, <2>3
<1>4. RowsInv'
  BY <1>1, RowsRest DEF ToldInv
<1>5. asked \in Nat
  BY DEF BridgeInv, Counts
<1> QED
  BY <1>1, <1>2, <1>3, <1>4, <1>5, AsideKeeps

LEMMA PickTells ==
  ASSUME BridgeInv, ToldInv, PickDirectory
  PROVE  ToldInv'
<1>1. /\ acts' = acts + 1 /\ UNCHANGED <<rows, points, job, launchd, lost>>
      /\ Call("picker", Request("pick", None, None))
  BY DEF PickDirectory, core
<1>2. PICK r : r = Request("pick", None, None)
  OBVIOUS
<1>0. r.what = "pick"
  BY <1>2 DEF Request
<1>3. /\ \A q : SentOn(q)' => SentOn(q) \/ (q.n = asked + 1 /\ q.request = r)
      /\ asked \in Nat /\ asked' = asked + 1 /\ waiting'["worker"] = waiting["worker"]
      /\ UNCHANGED <<told, pump, answered>>
  BY <1>1, <1>2, CallSends DEF Threads
<1>4. waiting["worker"] \in 0..asked
  BY DEF ToldInv, NumbersInv
<1>5. ASSUME NEW q, SentOn(q)' PROVE Fits(q)'
  <2>1. CASE SentOn(q)
    BY <1>1, <1>3, <2>1 DEF ToldInv, SentInv, Fits
  <2>2. CASE q.n = asked + 1 /\ q.request = r
    BY <1>0, <1>3, <1>4, <2>2 DEF Fits
  <2> QED
    BY <1>3, <1>5, <2>1, <2>2
<1>6. SentInv'
  BY <1>3, <1>5 DEF ToldInv, SentInv
<1>7. RowsInv'
  BY <1>1, RowsRest DEF ToldInv
<1> QED
  BY <1>1, <1>3, <1>6, <1>7, AsideKeeps

\* A request is carried out and its answer noted.
LEMMA NotedTells ==
  ASSUME BridgeInv, ToldInv, NEW q, SentOn(q), NEW a, CarryOut(q, a),
         answered' = answered \cup {<<q.n, a>>}, UNCHANGED <<core, bridge, lost, acts>>,
         \A p : SentOn(p)' => SentOn(p)
  PROVE  ToldInv'
<1>1. /\ q.n = waiting["worker"] => q.request.what = Asks(job.is) /\ q.request.label = job.label
      /\ q.request.what = "arm" => job.is = "arm" \/ q.request.label \in lost
  BY DEF ToldInv, SentInv, Fits
<1>2. LaunchdShape' /\ HeardInv' /\ NumbersInv' /\ RowsInv'
  BY <1>1, CarryOutKeeps
<1>3. SentInv'
  BY SentShrinks DEF ToldInv, core, bridge
<1> QED
  BY <1>2, <1>3 DEF ToldInv

LEMMA ShellTells ==
  ASSUME BridgeInv, ToldInv, TaskWorks \/ PumpAnswers
  PROVE  ToldInv'
<1>1. CASE TaskWorks
  <2>1. PICK k \in tasks, a \in Answers :
          /\ k.answer = <<>> /\ CarryOut(k.asks, a)
          /\ answered' = answered \cup {<<k.asks.n, a>>}
          /\ tasks' = (tasks \ {k}) \cup {[k EXCEPT !.answer = <<a>>]}
    BY <1>1 DEF TaskWorks
  <2>2. UNCHANGED <<core, bridge, lost, acts, pipe, pump>>
    BY <1>1 DEF TaskWorks
  <2>3. PICK new : new = [k EXCEPT !.answer = <<a>>]
    OBVIOUS
  <2>4. new.answer # <<>>
    <3>1. TaskShape(k)
      BY TasksOneByOne DEF BridgeInv, TaskHolds
    <3>2. new.answer = <<a>>
      BY <2>3, <3>1, WriteTaskAnswer
    <3> QED
      BY <3>2
  <2>5. \A q : SentOn(q)' => SentOn(q)
    BY <2>1, <2>2, <2>3, <2>4 DEF SentOn
  <2>6. PICK q : q = k.asks
    OBVIOUS
  <2>7. SentOn(q) /\ CarryOut(q, a) /\ answered' = answered \cup {<<q.n, a>>}
    BY <2>1, <2>6 DEF SentOn
  <2> QED
    BY <2>2, <2>5, <2>7, NotedTells
<1>2. CASE PumpAnswers
  <2>1. /\ pump # Nobody /\ pump' = Nobody
        /\ UNCHANGED <<core, bridge, lost, acts, pipe, tasks>>
    BY <1>2 DEF PumpAnswers
  <2>2. PICK a \in Answers : /\ CarryOut(pump, a)
                             /\ answered' = answered \cup {<<pump.n, a>>}
    BY <1>2 DEF PumpAnswers
  <2>3. SentOn(pump) /\ \A q : SentOn(q)' => SentOn(q)
    BY <2>1 DEF SentOn
  <2> QED
    BY <2>1, <2>2, <2>3, NotedTells
<1> QED
  BY <1>1, <1>2

-----------------------------------------------------------------------------
LEMMA StepTells == BothInv /\ ToldInv /\ [Next]_vars => ToldInv'
<1> SUFFICES ASSUME BridgeInv, ToldInv, [Next]_vars PROVE ToldInv'
  BY DEF BothInv
<1>1. CASE \E c \in Commands : CreateAutomation(c)
  BY <1>1, CreateTells
<1>2. ASSUME NEW r \in rows, ArmAutomation(r) \/ DisarmAutomation(r) \/ AutomationRemove(r)
      PROVE  ToldInv'
  <2>1. r.label \in Range(Labels)
    BY DEF ToldInv, RowsInv, Kept
  <2> QED
    BY <1>2, <2>1, WorkerBegins
<1>3. ASSUME NEW l \in Range(Labels), DisarmOrphan(l) PROVE ToldInv'
  BY <1>3, OrphanTells
<1>4. CASE UndoLast
  BY <1>4, UndoTells
<1>5. CASE Restore
  BY <1>5, RestoreTells
<1>6. CASE DisarmFirst
  BY <1>6, DisarmFirstTells
<1>7. CASE WorkerReturns
  BY <1>7, WorkerReturnTells
<1>8. CASE PickDirectory
  BY <1>8, PickTells
<1>9. CASE ResolveResponse \/ PumpReads \/ TaskStarts \/ TaskAnswers \/ Respawn \/ PickReturns
  BY <1>9, AsideTells
<1>10. CASE PumpAnswers \/ TaskWorks
  BY <1>10, ShellTells
<1>11. CASE CoreDies
  BY <1>11, CoreDiesTells
<1>12. CASE UNCHANGED vars
  BY <1>12, RowsOnly, RowsRest DEF vars, core, ToldInv
<1> QED
  BY <1>1, <1>2, <1>3, <1>4, <1>5, <1>6, <1>7, <1>8, <1>9, <1>10, <1>11, <1>12 DEF Next

\* What ends a job, or takes a row while the worker has one.
LEMMA WhatEndsAJob ==
  ASSUME [Next]_vars, job.is \in {"disarm", "list", "remove"}, job' # job \/ rows' # rows
  PROVE  DisarmReturns \/ ListReturns \/ RemoveReturns \/ CoreDies
<1>1. job # Idle
  BY DEF Idle
<1>2. ~ \E c \in Commands : CreateAutomation(c)
  BY <1>1 DEF CreateAutomation, Act
<1>3. ~ \E r \in rows : ArmAutomation(r) \/ DisarmAutomation(r) \/ AutomationRemove(r)
  BY <1>1 DEF ArmAutomation, DisarmAutomation, AutomationRemove, Act
<1>4. ~ \E l \in Range(Labels) : DisarmOrphan(l)
  BY <1>1 DEF DisarmOrphan, Act
<1>5. ~UndoLast /\ ~Restore /\ ~DisarmFirst /\ ~ArmReturns /\ ~UndoReturns
  BY <1>1 DEF UndoLast, Restore, DisarmFirst, ArmReturns, UndoReturns, Act
<1>6. ~(PickDirectory \/ PickReturns \/ ResolveResponse \/ PumpReads \/ PumpAnswers \/ TaskStarts
        \/ TaskWorks \/ TaskAnswers \/ Respawn \/ UNCHANGED vars)
  BY DEF PickDirectory, PickReturns, ResolveResponse, PumpReads, PumpAnswers, TaskStarts, TaskWorks,
         TaskAnswers, Respawn, core, vars
<1> QED
  BY <1>2, <1>3, <1>4, <1>5, <1>6 DEF Next, WorkerReturns

(* When the person is told an automation is off, launchd finds nothing of it at the     *)
(* next login and does not hold it until then, whatever the shell delayed or carried    *)
(* out after a core died (disarm_automation.py).  Left out are a job launchctl answered *)
(* it could not unload, and an arming nobody waited for any more.                       *)
THEOREM OffMeansOff == Spec => SwitchedOffIsOff
<1>1. ASSUME BothInv, ToldInv, [Next]_vars, Finished("disarm"), told'["worker"][2].ok
      PROVE  Off(job.label) \/ job.label \in lost
  <2>1. /\ BridgeInv /\ job.is = "disarm" /\ job' = Idle
        /\ waiting["worker"] # 0 /\ told'["worker"][1] = waiting["worker"]
    BY <1>1 DEF BothInv, Finished
  <2>2. DisarmReturns \/ ListReturns \/ RemoveReturns \/ CoreDies
    BY <1>1, <2>1, WhatEndsAJob DEF Idle
  <2>3. ~CoreDies
    BY <1>1, <2>1 DEF CoreDies, ToldInv, NumbersInv
  <2>4. PICK n \in 1..asked, a \in Answers \cup {NoAnswer} : Return("worker", <<n, a>>)
    BY <2>1, <2>2, <2>3 DEF DisarmReturns, ListReturns, RemoveReturns
  <2>5. /\ n = waiting["worker"] /\ (<<n, a>> \in answered \/ a = NoAnswer)
        /\ told'["worker"] = <<n, a>>
    BY <2>1, <2>4, WorkerHears
  <2>6. a.ok /\ a # NoAnswer
    BY <1>1, <2>5 DEF NoAnswer
  <2>7. Bears(<<n, a>>) /\ <<n, a>> \in answered
    BY <2>5, <2>6 DEF Bears
  <2> QED
    BY <1>1, <2>1, <2>7 DEF ToldInv, HeardInv
<1>2. Init => BothInv /\ ToldInv
  BY InitBridge, InitTold DEF BothInv
<1>3. BothInv /\ ToldInv /\ [Next]_vars => BothInv' /\ ToldInv'
  BY StepMaps, StepTells DEF Maps
<1> QED
  BY <1>1, <1>2, <1>3, PTL DEF Spec, SwitchedOffIsOff

(* automation.remove takes a row away only when launchd finds nothing of it at the next *)
(* login, or when the shell answered from a folder it had not read to its end           *)
(* (rpc/automations.py _disarm_before_forgetting, automation.rs list_armed).            *)
THEOREM ForgottenMeansOff == Spec => RemovedIsNotInstalled
<1>1. ASSUME BothInv, ToldInv, [Next]_vars, NEW l \in Range(Labels), job.is \in {"list", "remove"},
             l \in Saved, l \notin Saved'
      PROVE  file[l] = None \/ l \in lost \/ (job.is = "list" /\ waiting["worker"] \in blind)
  <2>1. BridgeInv /\ rows' # rows
    BY <1>1 DEF BothInv, Saved
  <2>2. ListReturns \/ RemoveReturns
    <3>1. DisarmReturns \/ ListReturns \/ RemoveReturns \/ CoreDies
      BY <1>1, <2>1, WhatEndsAJob
    <3> QED
      BY <2>1, <3>1 DEF DisarmReturns, CoreDies
  <2>3. PICK n \in 1..asked, a \in Answers \cup {NoAnswer} :
          /\ Return("worker", <<n, a>>) /\ a.ok /\ rows' = rows \ Rows(job.id)
          /\ job.is = "remove" \/ (job.is = "list" /\ job.label \notin a.armed)
    BY <2>1, <2>2 DEF ListReturns, RemoveReturns, Forget, MayForget
  <2>4. n = waiting["worker"] /\ (<<n, a>> \in answered \/ a = NoAnswer)
    BY <2>1, <2>3, WorkerHears
  <2>5. a # NoAnswer
    BY <2>3 DEF NoAnswer
  <2>6. Bears(<<n, a>>) /\ <<n, a>> \in answered
    BY <2>3, <2>4, <2>5 DEF Bears
  <2>7. \/ file[job.label] = None \/ job.label \in lost
        \/ job.is = "list" /\ waiting["worker"] \in blind
    BY <1>1, <2>3, <2>4, <2>6 DEF ToldInv, HeardInv, Off
  <2>8. PICK r \in rows : r.label = l /\ r \notin rows'
    BY <1>1 DEF Saved
  <2>9. r.id = job.id /\ r \in Kept
    BY <2>3, <2>8 DEF Rows, Kept
  <2>10. job.label = l
    BY <1>1, <2>8, <2>9 DEF ToldInv, RowsInv
  <2> QED
    BY <2>7, <2>10
<1>2. Init => BothInv /\ ToldInv
  BY InitBridge, InitTold DEF BothInv
<1>3. BothInv /\ ToldInv /\ [Next]_vars => BothInv' /\ ToldInv'
  BY StepMaps, StepTells DEF Maps
<1>4. BothInv /\ ToldInv /\ [Next]_vars
        => [\A l \in Range(Labels) : job.is \in {"list", "remove"} /\ l \in Saved /\ l \notin Saved' =>
              file[l] = None \/ l \in lost \/ (job.is = "list" /\ waiting["worker"] \in blind)]_vars
  BY <1>1
<1> QED
  BY <1>2, <1>3, <1>4, PTL DEF Spec, RemovedIsNotInstalled
===============================================================================
