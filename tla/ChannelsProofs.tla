---------------------------- MODULE ChannelsProofs ----------------------------
(***************************************************************************)
(* Loops and codes of Channels, for every set of channels and phones and   *)
(* every bound.                                                            *)
(*                                                                         *)
(* The table of threads and the threads themselves change in five ways     *)
(* only: a loop goes on, loops are told to stop, a token is rejected, by   *)
(* the worker or by the loop, and a loop is started.  One lemma for each.  *)
(* The cursors come last: a message with text before a loop's cursor is on *)
(* the queue or still in that loop's hands, and only the top of a loop,    *)
(* with nothing in hand, makes the transport forget.                       *)
(***************************************************************************)
EXTENDS Channels, FiniteSetTheorems, SequenceTheorems, TLAPS

LoopShape(r) ==
  r = [pc |-> r.pc, channel |-> r.channel, stopped |-> r.stopped,
       token |-> r.token, cursor |-> r.cursor, batch |-> r.batch]

LoopsTyped ==
  /\ loop = [t \in Loops |-> loop[t]]
  /\ \A t \in Loops : LoopShape(loop[t]) /\ loop[t].stopped \in BOOLEAN
  /\ current \in [Channels -> Loops \cup {0}]

\* The table names threads that were started for the channel.
TableIsOfLoops ==
  /\ \A t \in Loops : loop[t].pc # "none" => loop[t].channel \in Channels
  /\ \A c \in Channels : current[c] # 0 =>
       loop[current[c]].pc # "none" /\ loop[current[c]].channel = c

\* A thread nobody told to stop is in the table.
UnstoppedIsCurrent ==
  \A t \in Loops : Alive(t) /\ ~loop[t].stopped => current[loop[t].channel] = t

\* One channel listens at a time.
OneListens == \A c, d \in Channels : Listening(c) /\ Listening(d) => c = d

LoopInv == LoopsTyped /\ TableIsOfLoops /\ UnstoppedIsCurrent /\ OneListens

-----------------------------------------------------------------------------
\* Threads that go on or end by themselves, and a table nobody touches.
Went ==
  /\ LoopsTyped' /\ current' = current
  /\ \A t \in Loops :
       /\ loop'[t].channel = loop[t].channel /\ loop'[t].stopped = loop[t].stopped
       /\ loop'[t].pc = "none" <=> loop[t].pc = "none"
       /\ loop[t].pc = "dead" => loop'[t].pc = "dead"

LEMMA ZeroIsNoLoop == 0 \notin Loops
BY ChannelsAssumption DEF Loops

LEMMA WentKeeps == LoopInv /\ Went => LoopInv'
<1> SUFFICES ASSUME LoopInv, Went PROVE LoopInv'
  OBVIOUS
<1>1. \A t \in Loops : Alive(t)' => Alive(t)
  BY DEF Went, Alive
<1>2. TableIsOfLoops'
  <2>1. ASSUME NEW t \in Loops, loop'[t].pc # "none" PROVE loop'[t].channel \in Channels
    BY <2>1 DEF LoopInv, Went, TableIsOfLoops
  <2>2. ASSUME NEW c \in Channels, current'[c] # 0
        PROVE  loop'[current'[c]].pc # "none" /\ loop'[current'[c]].channel = c
    <3>1. PICK t \in Loops : current[c] = t /\ current'[c] = t
      BY <2>2 DEF LoopInv, LoopsTyped, Went
    <3>2. loop[t].pc # "none" /\ loop[t].channel = c
      BY <2>2, <3>1 DEF LoopInv, TableIsOfLoops, Went
    <3>3. loop'[t].pc # "none" /\ loop'[t].channel = c
      BY <3>2 DEF Went
    <3> QED
      BY <3>1, <3>3
  <2> QED
    BY <2>1, <2>2 DEF TableIsOfLoops
<1>3. UnstoppedIsCurrent'
  BY <1>1 DEF LoopInv, Went, UnstoppedIsCurrent
<1>4. \A c \in Channels : Listening(c)' => Listening(c)
  BY <1>1 DEF Listening, LoopInv, LoopsTyped, Went
<1>5. OneListens'
  BY <1>4 DEF LoopInv, OneListens
<1> QED
  BY <1>2, <1>3, <1>5 DEF LoopInv, Went

LEMMA UnchangedKeeps == LoopInv /\ UNCHANGED <<loop, current>> => LoopInv'
BY DEF LoopInv, LoopsTyped, TableIsOfLoops, UnstoppedIsCurrent, OneListens, Alive, Listening

\* The loops of some channels told to stop, and forgotten by the table; a loop may end.
Told(t, cs) == \E c \in cs : current[c] = t
Dropped(cs) ==
  /\ \A t \in Loops :
       /\ loop'[t].channel = loop[t].channel /\ loop'[t].pc \in {loop[t].pc, "dead"}
       /\ loop[t].pc = "none" => loop'[t].pc = "none"
       /\ Told(t, cs) => loop'[t].stopped
       /\ ~Told(t, cs) => loop'[t].stopped = loop[t].stopped
  /\ \A c \in Channels : current'[c] = IF c \in cs THEN 0 ELSE current[c]
  /\ LoopsTyped'

LEMMA DroppedKeeps ==
  ASSUME LoopInv, NEW cs, Dropped(cs)
  PROVE  LoopInv'
<1>1. \A t \in Loops : Alive(t)' => Alive(t)
  BY DEF Alive, Dropped
<1>2. TableIsOfLoops'
  <2>1. ASSUME NEW t \in Loops, loop'[t].pc # "none" PROVE loop'[t].channel \in Channels
    BY <2>1 DEF LoopInv, TableIsOfLoops, Dropped
  <2>2. ASSUME NEW c \in Channels, current'[c] # 0
        PROVE  loop'[current'[c]].pc # "none" /\ loop'[current'[c]].channel = c
    <3>1. PICK t \in Loops : current[c] = t /\ current'[c] = t
      BY <2>2 DEF LoopInv, LoopsTyped, Dropped
    <3>2. loop[t].pc # "none" /\ loop[t].channel = c
      BY <2>2, <3>1 DEF LoopInv, TableIsOfLoops, Dropped
    <3> QED
      BY <3>1, <3>2 DEF Dropped
  <2> QED
    BY <2>1, <2>2 DEF TableIsOfLoops
<1>3. UnstoppedIsCurrent'
  <2> SUFFICES ASSUME NEW t \in Loops, Alive(t)', ~loop'[t].stopped
               PROVE  current'[loop'[t].channel] = t
    BY DEF UnstoppedIsCurrent
  <2>1. ~Told(t, cs) /\ Alive(t) /\ ~loop[t].stopped
    BY <1>1 DEF Dropped
  <2>2. current[loop[t].channel] = t /\ loop[t].channel \in Channels
    BY <2>1 DEF LoopInv, UnstoppedIsCurrent, TableIsOfLoops, Alive
  <2>3. loop[t].channel \notin cs
    BY <2>1, <2>2 DEF Told
  <2> QED
    BY <2>2, <2>3 DEF Dropped
<1>4. OneListens'
  <2>1. \A c \in Channels : Listening(c)' => Listening(c)
    BY <1>1, ZeroIsNoLoop DEF LoopInv, LoopsTyped, Listening, Dropped
  <2> QED
    BY <2>1 DEF LoopInv, OneListens
<1> QED
  BY <1>2, <1>3, <1>4 DEF LoopInv, Dropped

\* stop and stop_all.
LEMMA StopKeeps ==
  ASSUME LoopInv, NEW cs, StopListening(cs)
  PROVE  LoopInv'
<1>1. ASSUME NEW t \in Loops
      PROVE  /\ loop'[t].channel = loop[t].channel /\ loop'[t].pc = loop[t].pc
             /\ LoopShape(loop'[t]) /\ loop'[t].stopped \in BOOLEAN
             /\ Told(t, cs) => loop'[t].stopped
             /\ ~Told(t, cs) => loop'[t].stopped = loop[t].stopped
  <2>1. LoopShape(loop[t]) /\ loop[t].stopped \in BOOLEAN
    BY DEF LoopInv, LoopsTyped
  <2>2. CASE Told(t, cs)
    <3>1. loop'[t] = [loop[t] EXCEPT !.stopped = TRUE]
      BY <2>2 DEF StopListening, Told
    <3> QED
      BY <2>1, <2>2, <3>1 DEF LoopShape
  <2>3. CASE ~Told(t, cs)
    <3>1. loop'[t] = loop[t]
      BY <2>3 DEF StopListening, Told
    <3> QED
      BY <2>1, <2>3, <3>1
  <2> QED
    BY <2>2, <2>3
<1>2. \A c \in Channels : current'[c] = IF c \in cs THEN 0 ELSE current[c]
  BY DEF StopListening
<1>3. LoopsTyped'
  BY <1>1 DEF StopListening, LoopsTyped, LoopInv
<1>4. Dropped(cs)
  BY <1>1, <1>2, <1>3 DEF Dropped
<1> QED
  BY <1>4, DroppedKeeps

LEMMA StopAllStops == StopAll => \E cs : StopListening(cs)
BY DEF StopAll

\* _token_rejected, called by the worker.
LEMMA RejectedKeeps ==
  ASSUME LoopInv, NEW c \in Channels, TokenRejected(c)
  PROVE  LoopInv'
<1>1. ASSUME NEW t \in Loops
      PROVE  loop'[t] = IF current[c] = t THEN [loop[t] EXCEPT !.stopped = TRUE] ELSE loop[t]
  BY ZeroIsNoLoop DEF TokenRejected, LoopInv, LoopsTyped
<1>2. ASSUME NEW t \in Loops
      PROVE  /\ loop'[t].channel = loop[t].channel /\ loop'[t].pc = loop[t].pc
             /\ LoopShape(loop'[t]) /\ loop'[t].stopped \in BOOLEAN
             /\ Told(t, {c}) => loop'[t].stopped
             /\ ~Told(t, {c}) => loop'[t].stopped = loop[t].stopped
  BY <1>1 DEF LoopInv, LoopsTyped, LoopShape, Told
<1>3. \A d \in Channels : current'[d] = IF d \in {c} THEN 0 ELSE current[d]
  BY DEF TokenRejected, LoopInv, LoopsTyped
<1>4. LoopsTyped'
  BY <1>2, <1>3 DEF TokenRejected, LoopsTyped, LoopInv
<1>5. Dropped({c})
  BY <1>2, <1>3, <1>4 DEF Dropped
<1> QED
  BY <1>5, DroppedKeeps

\* _token_rejected, by the loop whose poll was refused.
LEMMA RejectedByLoopKeeps ==
  ASSUME LoopInv, NEW t \in Loops, loop[t].pc # "none", RejectedByLoop(t, loop[t].channel)
  PROVE  LoopInv'
<1> DEFINE c == loop[t].channel
<1>1. c \in Channels
  BY DEF LoopInv, TableIsOfLoops
<1>2. ASSUME NEW u \in Loops
      PROVE  /\ loop'[u].channel = loop[u].channel /\ loop'[u].pc \in {loop[u].pc, "dead"}
             /\ loop[u].pc = "none" => loop'[u].pc = "none"
             /\ LoopShape(loop'[u]) /\ loop'[u].stopped \in BOOLEAN
             /\ Told(u, {c}) => loop'[u].stopped
             /\ ~Told(u, {c}) => loop'[u].stopped = loop[u].stopped
  <2>1. LoopShape(loop[u]) /\ loop[u].stopped \in BOOLEAN
    BY DEF LoopInv, LoopsTyped
  <2>2. CASE u = t
    <3>1. loop'[u] = [loop[u] EXCEPT !.pc = "dead", !.stopped = loop[t].stopped \/ current[c] = t]
      BY <2>2 DEF RejectedByLoop
    <3> QED
      BY <2>1, <2>2, <3>1 DEF LoopShape, Told
  <2>3. CASE u # t /\ u = current[c]
    <3>1. loop'[u] = [loop[u] EXCEPT !.stopped = TRUE]
      BY <2>3 DEF RejectedByLoop
    <3> QED
      BY <2>1, <2>3, <3>1 DEF LoopShape, Told
  <2>4. CASE u # t /\ u # current[c]
    <3>1. loop'[u] = loop[u]
      BY <2>4 DEF RejectedByLoop
    <3> QED
      BY <2>1, <2>4, <3>1 DEF Told
  <2> QED
    BY <2>2, <2>3, <2>4
<1>3. \A d \in Channels : current'[d] = IF d \in {c} THEN 0 ELSE current[d]
  BY DEF RejectedByLoop, LoopInv, LoopsTyped
<1>4. LoopsTyped'
  BY <1>1, <1>2, <1>3 DEF RejectedByLoop, LoopsTyped, LoopInv
<1>5. Dropped({c})
  BY <1>2, <1>3, <1>4 DEF Dropped
<1> QED
  BY <1>5, DroppedKeeps

\* A thread is started for a channel while no other channel listens.
LEMMA StartKeeps ==
  ASSUME LoopInv, NEW c \in Channels, \A d \in Channels \ {c} : ~Listening(d), Start(c)
  PROVE  LoopInv'
<1>1. CASE Listening(c)
  BY <1>1, UnchangedKeeps DEF Start
<1>2. CASE ~Listening(c)
  <2>1. PICK t \in Loops :
          /\ loop[t].pc = "none"
          /\ loop' = [loop EXCEPT ![t] = [Unstarted EXCEPT !.pc = "top", !.channel = c]]
          /\ current' = [current EXCEPT ![c] = t]
    BY <1>2 DEF Start
  <2>2. /\ loop'[t].pc = "top" /\ loop'[t].channel = c
        /\ loop'[t].stopped = FALSE /\ LoopShape(loop'[t])
    BY <2>1 DEF LoopInv, LoopsTyped, Unstarted, LoopShape
  <2>3. \A u \in Loops \ {t} : loop'[u] = loop[u]
    BY <2>1 DEF LoopInv, LoopsTyped
  <2>4. current'[c] = t /\ \A d \in Channels \ {c} : current'[d] = current[d]
    BY <2>1 DEF LoopInv, LoopsTyped
  <2>5. LoopsTyped'
    <3>1. current' \in [Channels -> Loops \cup {0}]
      BY <2>1 DEF LoopInv, LoopsTyped
    <3>2. loop' = [u \in Loops |-> loop'[u]]
      BY <2>1 DEF LoopInv, LoopsTyped
    <3>3. \A u \in Loops : LoopShape(loop'[u]) /\ loop'[u].stopped \in BOOLEAN
      BY <2>2, <2>3 DEF LoopInv, LoopsTyped
    <3> QED
      BY <3>1, <3>2, <3>3 DEF LoopsTyped
  \* The table named no thread that was not started.
  <2>6. \A d \in Channels : current[d] # t
    BY <2>1, ZeroIsNoLoop DEF LoopInv, TableIsOfLoops
  <2>7. TableIsOfLoops'
    <3>1. ASSUME NEW u \in Loops, loop'[u].pc # "none" PROVE loop'[u].channel \in Channels
      BY <3>1, <2>2, <2>3 DEF LoopInv, TableIsOfLoops
    <3>2. ASSUME NEW d \in Channels, current'[d] # 0
          PROVE  loop'[current'[d]].pc # "none" /\ loop'[current'[d]].channel = d
      <4>1. CASE d = c
        BY <4>1, <2>2, <2>4
      <4>2. CASE d # c
        <5>1. PICK u \in Loops : current[d] = u /\ current'[d] = u
          BY <3>2, <4>2, <2>4 DEF LoopInv, LoopsTyped
        <5>2. loop[u].pc # "none" /\ loop[u].channel = d /\ u # t
          BY <5>1, <2>6, ZeroIsNoLoop DEF LoopInv, TableIsOfLoops
        <5> QED
          BY <5>1, <5>2, <2>3
      <4> QED
        BY <4>1, <4>2
    <3> QED
      BY <3>1, <3>2 DEF TableIsOfLoops
  <2>8. UnstoppedIsCurrent'
    <3> SUFFICES ASSUME NEW u \in Loops, Alive(u)', ~loop'[u].stopped
                 PROVE  current'[loop'[u].channel] = u
      BY DEF UnstoppedIsCurrent
    <3>1. CASE u = t
      BY <3>1, <2>2, <2>4
    <3>2. CASE u # t
      <4>1. loop'[u] = loop[u] /\ Alive(u) /\ ~loop[u].stopped
        BY <3>2, <2>3 DEF Alive
      <4>2. current[loop[u].channel] = u /\ loop[u].channel \in Channels
        BY <4>1 DEF LoopInv, UnstoppedIsCurrent, TableIsOfLoops, Alive
      <4>3. loop[u].channel # c
        BY <4>1, <4>2, <1>2, ZeroIsNoLoop DEF Listening
      <4> QED
        BY <4>1, <4>2, <4>3, <2>4
    <3> QED
      BY <3>1, <3>2
  <2>9. OneListens'
    <3>1. \A d \in Channels \ {c} : Listening(d)' => Listening(d)
      BY <2>3, <2>4, <2>6 DEF Listening, Alive, LoopInv, LoopsTyped
    <3> QED
      BY <3>1 DEF OneListens
  <2> QED
    BY <2>5, <2>7, <2>8, <2>9 DEF LoopInv
<1> QED
  BY <1>1, <1>2

-----------------------------------------------------------------------------
\* What waits for the worker came from a channel.
Jobs(S) == [channel : Channels, n : S]
QueueIsOfChannels == \E S : queue \in Seq(Jobs(S))

LEMMA HandOffKeeps ==
  ASSUME QueueIsOfChannels, NEW c \in Channels, NEW n, HandOff(c, n)
  PROVE  QueueIsOfChannels'
<1>1. PICK S : queue \in Seq(Jobs(S))
  BY DEF QueueIsOfChannels
<1>2. Jobs(S) \subseteq Jobs(S \cup {n}) /\ [channel |-> c, n |-> n] \in Jobs(S \cup {n})
  BY DEF Jobs
<1>3. queue \in Seq(Jobs(S \cup {n}))
  BY <1>1, <1>2, SeqMonotonic
<1>4. queue' \in Seq(Jobs(S \cup {n}))
  BY <1>2, <1>3 DEF HandOff
<1> QED
  BY <1>4 DEF QueueIsOfChannels

LEMMA JobIsOfAChannel ==
  ASSUME QueueIsOfChannels, queue # <<>>
  PROVE  Job.channel \in Channels /\ (queue' = Tail(queue) => QueueIsOfChannels')
<1>1. PICK S : queue \in Seq(Jobs(S))
  BY DEF QueueIsOfChannels
<1>2. Head(queue) \in Jobs(S) /\ Tail(queue) \in Seq(Jobs(S))
  BY <1>1
<1> QED
  BY <1>2 DEF Jobs, Job, QueueIsOfChannels

LEMMA SameQueue == QueueIsOfChannels /\ UNCHANGED queue => QueueIsOfChannels'
BY DEF QueueIsOfChannels

LoopAndQueue == LoopInv /\ QueueIsOfChannels

-----------------------------------------------------------------------------
\* What is written into a thread leaves the rest of it alone.
SameThread(r, q) == LoopShape(q) /\ q.channel = r.channel /\ q.stopped = r.stopped

LEMMA WritePc ==
  ASSUME NEW r, LoopShape(r), NEW p
  PROVE  SameThread(r, [r EXCEPT !.pc = p]) /\ [r EXCEPT !.pc = p].pc = p
BY DEF LoopShape, SameThread

LEMMA WriteToken ==
  ASSUME NEW r, LoopShape(r), NEW k
  PROVE  SameThread(r, [r EXCEPT !.token = k]) /\ [r EXCEPT !.token = k].pc = r.pc
BY DEF LoopShape, SameThread

LEMMA WriteBatch ==
  ASSUME NEW r, LoopShape(r), NEW b
  PROVE  SameThread(r, [r EXCEPT !.batch = b]) /\ [r EXCEPT !.batch = b].pc = r.pc
BY DEF LoopShape, SameThread

LEMMA WriteCursor ==
  ASSUME NEW r, LoopShape(r), NEW c
  PROVE  SameThread(r, [r EXCEPT !.cursor = c]) /\ [r EXCEPT !.cursor = c].pc = r.pc
BY DEF LoopShape, SameThread

\* A loop that goes on.
LEMMA LoopStepKeeps ==
  ASSUME LoopAndQueue, NEW t \in Loops, LoopStep(t)
  PROVE  LoopAndQueue'
<1> DEFINE r == loop[t]
<1>0. /\ LoopShape(r) /\ r.stopped \in BOOLEAN /\ loop = [u \in Loops |-> loop[u]]
      /\ LoopInv /\ QueueIsOfChannels
  BY DEF LoopAndQueue, LoopInv, LoopsTyped
\* A step that writes one thread, its channel and its switch aside.
<1>1. ASSUME NEW q, loop' = [loop EXCEPT ![t] = q], LoopShape(q), current' = current,
             q.channel = r.channel, q.stopped = r.stopped,
             r.pc \notin {"none", "dead"}, q.pc # "none"
      PROVE  LoopInv'
  <2>1. loop'[t] = q /\ \A u \in Loops \ {t} : loop'[u] = loop[u]
    BY <1>0, <1>1
  <2>2. loop' = [u \in Loops |-> loop'[u]]
    BY <1>0, <1>1
  <2>3. LoopsTyped'
    BY <1>0, <1>1, <2>1, <2>2 DEF LoopInv, LoopsTyped
  <2>4. Went
    BY <1>0, <1>1, <2>1, <2>3 DEF Went
  <2> QED
    BY <1>0, <2>4, WentKeeps
<1>2. ASSUME NEW pc, pc # "none", Goes(t, pc), current' = current, r.pc \notin {"none", "dead"}
      PROVE  LoopInv'
  <2> DEFINE q == [r EXCEPT !.pc = pc]
  <2>1. loop' = [loop EXCEPT ![t] = q]
    BY <1>2 DEF Goes
  <2>2. LoopShape(q) /\ q.channel = r.channel /\ q.stopped = r.stopped /\ q.pc = pc
    BY <1>0 DEF LoopShape
  <2> QED
    BY <1>1, <1>2, <2>1, <2>2
<1>3. CASE LoopAsks(t)
  <2> DEFINE q == [r EXCEPT !.pc = "poll", !.token = token]
  <2>1. loop' = [loop EXCEPT ![t] = q] /\ current' = current /\ r.pc = "top" /\ queue' = queue
    BY <1>3 DEF LoopAsks
  <2>2. SameThread(r, q) /\ q.pc = "poll"
    <3> DEFINE asking == [r EXCEPT !.pc = "poll"]
    <3>1. SameThread(r, asking) /\ asking.pc = "poll"
      BY <1>0, WritePc
    <3>2. SameThread(asking, [asking EXCEPT !.token = token]) /\ [asking EXCEPT !.token = token].pc = asking.pc
      <4> HIDE DEF asking
      <4> QED
        BY <3>1, WriteToken DEF SameThread
    <3>3. q = [asking EXCEPT !.token = token]
      OBVIOUS
    <3> HIDE DEF asking, q
    <3> QED
      BY <3>1, <3>2, <3>3 DEF SameThread
  <2> QED
    BY <1>0, <1>1, <2>1, <2>2, SameQueue DEF LoopAndQueue, SameThread
<1>4. CASE LoopHasNoToken(t)
  <2>1. Goes(t, "ending") /\ current' = current /\ r.pc = "top" /\ queue' = queue
    BY <1>4 DEF LoopHasNoToken
  <2> QED
    BY <1>0, <1>2, <2>1, SameQueue DEF LoopAndQueue
<1>5. CASE LoopEnds(t)
  <2>1. Goes(t, "dead") /\ current' = current /\ r.pc \in {"top", "ending"} /\ queue' = queue
    BY <1>5 DEF LoopEnds
  <2> QED
    BY <1>0, <1>2, <2>1, SameQueue DEF LoopAndQueue
<1>6. CASE LoopFails(t)
  <2>1. Goes(t, "wait") /\ current' = current /\ r.pc \in {"top", "poll"} /\ queue' = queue
    BY <1>6 DEF LoopFails
  <2> QED
    BY <1>0, <1>2, <2>1, SameQueue DEF LoopAndQueue
<1>7. CASE LoopWakes(t)
  <2>1. Goes(t, "top") /\ current' = current /\ r.pc = "wait" /\ queue' = queue
    BY <1>7 DEF LoopWakes
  <2> QED
    BY <1>0, <1>2, <2>1, SameQueue DEF LoopAndQueue
<1>8. CASE LoopHears(t)
  <2> DEFINE ended == [r EXCEPT !.pc = "dead"]
             heard == [r EXCEPT !.pc = "hand", !.batch = Batch(From(t)),
                         !.cursor = IF From(t) > Len(sent) THEN r.cursor ELSE NextCursor(Len(sent))]
  <2>1. loop' = [loop EXCEPT ![t] = IF r.stopped THEN ended ELSE heard]
    BY <1>8, Zenon DEF LoopHears
  <2>2. current' = current /\ r.pc = "poll" /\ queue' = queue
    BY <1>8 DEF LoopHears
  <2>3. SameThread(r, ended) /\ ended.pc = "dead"
    BY <1>0, WritePc
  <2>4. SameThread(r, heard) /\ heard.pc = "hand"
    <3> DEFINE one == [r EXCEPT !.pc = "hand"]
               two == [one EXCEPT !.batch = Batch(From(t))]
               cursor == IF From(t) > Len(sent) THEN r.cursor ELSE NextCursor(Len(sent))
    <3>1. SameThread(r, one) /\ one.pc = "hand"
      BY <1>0, WritePc
    <3>2. SameThread(one, two) /\ two.pc = one.pc
      <4> HIDE DEF one
      <4> QED
        BY <3>1, WriteBatch DEF SameThread
    <3>3. SameThread(two, [two EXCEPT !.cursor = cursor]) /\ [two EXCEPT !.cursor = cursor].pc = two.pc
      <4> HIDE DEF two, cursor
      <4> QED
        BY <3>2, WriteCursor DEF SameThread
    <3>4. heard = [two EXCEPT !.cursor = cursor]
      OBVIOUS
    <3> HIDE DEF one, two, heard, cursor
    <3> QED
      BY <3>1, <3>2, <3>3, <3>4 DEF SameThread
  <2>5. CASE r.stopped
    <3>1. loop' = [loop EXCEPT ![t] = ended]
      BY <2>1, <2>5
    <3> QED
      BY <1>0, <1>1, <3>1, <2>2, <2>3, SameQueue DEF LoopAndQueue, SameThread
  <2>6. CASE ~r.stopped
    <3>1. loop' = [loop EXCEPT ![t] = heard]
      BY <2>1, <2>6
    <3> HIDE DEF heard
    <3> QED
      BY <1>0, <1>1, <3>1, <2>2, <2>4, SameQueue DEF LoopAndQueue, SameThread
  <2> QED
    BY <2>5, <2>6
<1>9. CASE LoopIsRefused(t)
  <2>1. r.pc # "none" /\ RejectedByLoop(t, r.channel) /\ queue' = queue
    BY <1>9 DEF LoopIsRefused
  <2> QED
    BY <1>0, <2>1, RejectedByLoopKeeps, SameQueue DEF LoopAndQueue
<1>10. CASE LoopHandsOff(t)
  <2>1. r.pc = "hand" /\ current' = current
    BY <1>10 DEF LoopHandsOff
  <2>2. CASE Goes(t, "top") /\ queue' = queue
    BY <1>0, <1>2, <2>1, <2>2, SameQueue DEF LoopAndQueue
  <2>3. ASSUME NEW n \in r.batch, loop' = [loop EXCEPT ![t].batch = @ \ {n}], HandOff(r.channel, n)
        PROVE  LoopAndQueue'
    <3> DEFINE q == [r EXCEPT !.batch = @ \ {n}]
    <3>1. loop' = [loop EXCEPT ![t] = q]
      BY <2>3
    <3>2. SameThread(r, q) /\ q.pc = r.pc
      BY <1>0, WriteBatch
    <3>3. LoopInv'
      BY <1>1, <2>1, <3>1, <3>2 DEF SameThread
    <3>4. r.channel \in Channels
      BY <1>0, <2>1 DEF LoopInv, TableIsOfLoops
    <3>5. QueueIsOfChannels'
      BY <1>0, <2>3, <3>4, HandOffKeeps
    <3> QED
      BY <3>3, <3>5 DEF LoopAndQueue
  <2> QED
    BY <1>10, <2>2, <2>3 DEF LoopHandsOff
<1> QED
  BY <1>3, <1>4, <1>5, <1>6, <1>7, <1>8, <1>9, <1>10 DEF LoopStep

-----------------------------------------------------------------------------
\* A launch has no thread.
LEMMA InitLoops == Init => LoopAndQueue
<1> SUFFICES ASSUME Init PROVE LoopAndQueue
  OBVIOUS
<1>1. \A t \in Loops : loop[t] = Unstarted
  BY DEF Init
<1>2. LoopShape(Unstarted) /\ Unstarted.stopped \in BOOLEAN /\ Unstarted.pc = "none"
  BY DEF LoopShape, Unstarted
<1>3. LoopsTyped
  BY <1>1, <1>2 DEF Init, LoopsTyped
<1>4. \A t \in Loops : loop[t].pc = "none" /\ ~Alive(t)
  BY <1>1, <1>2 DEF Alive
<1>5. \A c \in Channels : current[c] = 0
  BY DEF Init
<1>6. TableIsOfLoops /\ UnstoppedIsCurrent /\ OneListens
  BY <1>4, <1>5 DEF TableIsOfLoops, UnstoppedIsCurrent, OneListens, Listening
<1>7. queue \in Seq(Jobs({}))
  BY DEF Init
<1> QED
  BY <1>3, <1>6, <1>7 DEF LoopAndQueue, LoopInv, QueueIsOfChannels

\* The acts at the desk.
LEMMA DeskKeeps == LoopAndQueue /\ Desk => LoopAndQueue'
<1> SUFFICES ASSUME LoopAndQueue, Desk PROVE LoopAndQueue'
  OBVIOUS
<1>0. LoopInv /\ QueueIsOfChannels
  BY DEF LoopAndQueue
<1>1. ASSUME UNCHANGED <<loop, current, queue>> PROVE LoopAndQueue'
  BY <1>0, <1>1, UnchangedKeeps, SameQueue DEF LoopAndQueue
<1>2. ASSUME NEW cs, StopListening(cs), UNCHANGED queue PROVE LoopAndQueue'
  BY <1>0, <1>2, StopKeeps, SameQueue DEF LoopAndQueue
<1>3. CASE \E c \in Channels : ChannelAdd(c)
  BY <1>1, <1>3 DEF ChannelAdd, NoJob, service
<1>4. CASE \E c \in Channels : ChannelRemove(c)
  BY <1>2, <1>4 DEF ChannelRemove, NoJob
<1>5. CASE \E c \in Channels : ChannelConnect(c)
  BY <1>1, <1>5 DEF ChannelConnect, NoJob, service
<1>6. CASE \E c \in Channels : ChannelSwitchOn(c)
  <2>1. PICK c \in Channels : ChannelSwitchOn(c)
    BY <1>6
  <2>2. (\A d \in Channels \ {c} : ~Listening(d)) /\ Start(c) /\ queue' = queue
    BY <2>1 DEF ChannelSwitchOn, NoJob
  <2> QED
    BY <1>0, <2>2, StartKeeps, SameQueue DEF LoopAndQueue
<1>7. CASE \E c \in Channels : ChannelSwitchOff(c)
  BY <1>2, <1>7 DEF ChannelSwitchOff, NoJob
<1>8. CASE \E c \in Channels, wake \in {"decline", "answer"} : ChannelSetOnWake(c, wake)
  BY <1>1, <1>8 DEF ChannelSetOnWake, NoJob, service
<1>9. CASE \E c \in Channels : BeginPairing(c)
  BY <1>1, <1>9 DEF BeginPairing
<1>10. CASE \E c \in Channels : CancelPairing(c)
  BY <1>1, <1>10 DEF CancelPairing, NoJob
<1>11. CASE \E p \in paired : RevokePairing(p)
  BY <1>1, <1>11 DEF RevokePairing, NoJob, service
<1>12. CASE \E i \in 1..Len(notes) : DropNote(i)
  BY <1>1, <1>12 DEF DropNote, NoJob
<1>13. CASE ProfileSet
  BY <1>1, <1>2, <1>13, StopAllStops DEF ProfileSet, NoJob
<1>14. CASE GuardsChange
  BY <1>1, <1>14 DEF GuardsChange, NoJob, service
<1>15. CASE Restore
  BY <1>2, <1>15, StopAllStops DEF Restore, NoJob
<1> QED
  BY <1>3, <1>4, <1>5, <1>6, <1>7, <1>8, <1>9, <1>10, <1>11, <1>12, <1>13, <1>14, <1>15 DEF Desk

\* A message taken off the queue.
LEMMA TurnKeeps == LoopAndQueue /\ Turn => LoopAndQueue'
<1> SUFFICES ASSUME LoopAndQueue, Turn PROVE LoopAndQueue'
  OBVIOUS
<1>0. LoopInv /\ QueueIsOfChannels
  BY DEF LoopAndQueue
<1>1. queue # <<>> /\ queue' = Tail(queue)
  BY DEF Turn, TurnWithoutChannel, TurnOutsideDeveloper, TurnPairs, PairingTurn, TurnFromStranger,
         TurnDeclined, TurnRefusedByGuards, TurnRuns, TakesTurn
<1>2. Job.channel \in Channels /\ QueueIsOfChannels'
  BY <1>0, <1>1, JobIsOfAChannel
<1>3. ASSUME Deliver(Job.channel) PROVE LoopInv'
  \* The same fact for any channel, so that the job stays closed.
  <2>1. ASSUME NEW c \in Channels, Deliver(c) PROVE LoopInv'
    <3>1. CASE UNCHANGED <<loop, current, state>>
      BY <1>0, <3>1, UnchangedKeeps
    <3>2. CASE TokenRejected(c)
      BY <1>0, <3>2, RejectedKeeps
    <3> QED
      BY <2>1, <3>1, <3>2 DEF Deliver
  <2> QED
    BY <1>2, <1>3, <2>1
<1>4. ASSUME UNCHANGED <<loop, current>> PROVE LoopInv'
  BY <1>0, <1>4, UnchangedKeeps
<1>5. ASSUME TurnWithoutChannel PROVE LoopInv'
  BY <1>4, <1>5 DEF TurnWithoutChannel, service
<1>6. ASSUME TurnOutsideDeveloper PROVE LoopInv'
  BY <1>0, <1>6, StopKeeps, StopAllStops DEF TurnOutsideDeveloper
<1>7. ASSUME TurnPairs PROVE LoopInv'
  BY <1>3, <1>7 DEF TurnPairs, PairingTurn
<1>8. ASSUME TurnFromStranger PROVE LoopInv'
  BY <1>4, <1>8 DEF TurnFromStranger
<1>9. ASSUME TurnDeclined PROVE LoopInv'
  BY <1>3, <1>4, <1>9 DEF TurnDeclined
<1>10. ASSUME TurnRefusedByGuards PROVE LoopInv'
  BY <1>3, <1>10 DEF TurnRefusedByGuards
<1>11. ASSUME TurnRuns PROVE LoopInv'
  BY <1>3, <1>11 DEF TurnRuns
<1>12. LoopInv'
  BY <1>5, <1>6, <1>7, <1>8, <1>9, <1>10, <1>11 DEF Turn
<1> QED
  BY <1>2, <1>12 DEF LoopAndQueue

\* What the world does leaves the threads alone, and the end of the app ends them.
LEMMA CrashKeeps == Crash => LoopAndQueue'
<1> SUFFICES ASSUME Crash PROVE LoopAndQueue'
  OBVIOUS
<1>1. \A t \in Loops : loop'[t] = Unstarted
  BY DEF Crash
<1>2. LoopShape(Unstarted) /\ Unstarted.stopped \in BOOLEAN /\ Unstarted.pc = "none"
  BY DEF LoopShape, Unstarted
<1>3. LoopsTyped'
  BY <1>1, <1>2 DEF Crash, LoopsTyped
<1>4. \A t \in Loops : loop'[t].pc = "none" /\ ~Alive(t)'
  BY <1>1, <1>2 DEF Alive
<1>5. \A c \in Channels : current'[c] = 0
  BY DEF Crash
<1>6. TableIsOfLoops' /\ UnstoppedIsCurrent' /\ OneListens'
  BY <1>4, <1>5 DEF TableIsOfLoops, UnstoppedIsCurrent, OneListens, Listening
<1>7. queue' \in Seq(Jobs({}))
  BY DEF Crash
<1> QED
  BY <1>3, <1>6, <1>7 DEF LoopAndQueue, LoopInv, QueueIsOfChannels

LEMMA StepKeepsLoops == LoopAndQueue /\ [Next]_vars => LoopAndQueue'
<1> SUFFICES ASSUME LoopAndQueue, [Next]_vars PROVE LoopAndQueue'
  OBVIOUS
<1>1. ASSUME UNCHANGED <<loop, current, queue>> PROVE LoopAndQueue'
  BY <1>1, UnchangedKeeps, SameQueue DEF LoopAndQueue
<1>2. CASE \E t \in Loops : LoopStep(t)
  BY <1>2, LoopStepKeeps
<1>3. CASE HushEnds
  BY <1>1, <1>3 DEF HushEnds, World
<1>4. CASE \E u \in Update : Arrives(u)
  BY <1>1, <1>4 DEF Arrives, World
<1>5. CASE \E t \in {"none", "good", "bad"} : TokenChanges(t)
  BY <1>1, <1>5 DEF TokenChanges, World
<1>6. CASE \E c \in Channels : WindowTimesOut(c)
  BY <1>1, <1>6 DEF WindowTimesOut, World
<1>7. CASE UNCHANGED vars
  BY <1>1, <1>7 DEF vars, service
<1> QED
  BY <1>2, <1>3, <1>4, <1>5, <1>6, <1>7, DeskKeeps, TurnKeeps, CrashKeeps DEF Next

\* Two threads nobody told to stop are the loops of two channels that listen, hence one.
LEMMA UnstoppedIsOne == LoopInv => OneUnstoppedLoop
<1> SUFFICES ASSUME LoopInv PROVE OneUnstoppedLoop
  OBVIOUS
<1> DEFINE U == {t \in Loops : Alive(t) /\ ~loop[t].stopped}
<1>1. ASSUME NEW t \in U, NEW u \in U PROVE t = u
  <2>1. \A v \in U : /\ loop[v].channel \in Channels
                     /\ current[loop[v].channel] = v /\ Listening(loop[v].channel)
    BY ZeroIsNoLoop DEF LoopInv, TableIsOfLoops, UnstoppedIsCurrent, Alive, Listening
  <2>2. loop[t].channel = loop[u].channel
    BY <2>1 DEF LoopInv, OneListens
  <2> QED
    BY <2>1, <2>2
<1>2. CASE U = {}
  BY <1>2, FS_EmptySet DEF OneUnstoppedLoop
<1>3. CASE U # {}
  <2>1. PICK t : U = {t}
    BY <1>1, <1>3
  <2>2. Cardinality(U) = 1
    BY <2>1, FS_Singleton
  <2> QED
    BY <2>2 DEF OneUnstoppedLoop
<1> QED
  BY <1>2, <1>3

(* However a channel is switched off, rejected, restored or started again, at most one *)
(* of any number of poll threads has not been told to stop (channel_service.start,     *)
(* stop, stop_all and _token_rejected).                                                *)
THEOREM UnstoppedLoopIsOne == Spec => []OneUnstoppedLoop
<1>1. LoopAndQueue => OneUnstoppedLoop
  BY UnstoppedIsOne DEF LoopAndQueue
<1> QED
  BY <1>1, InitLoops, StepKeepsLoops, PTL DEF Spec

-----------------------------------------------------------------------------
\* What the tables and the windows hold.
RowShape(r) ==
  r = [saved |-> r.saved, enabled |-> r.enabled, token |-> r.token, wake |-> r.wake]
WindowShape(w) == w = [code |-> w.code, left |-> w.left, live |-> w.live]

RowsTyped ==
  /\ row = [c \in Channels |-> row[c]] /\ point = [c \in Channels |-> point[c]]
  /\ \A c \in Channels : RowShape(row[c]) /\ RowShape(point[c])
WindowsTyped ==
  /\ opened \in Nat /\ window = [c \in Channels |-> window[c]]
  /\ \A c \in Channels : WindowShape(window[c]) /\ window[c].code \in 0..opened

\* No two open windows show one code, and none shows a code that has paired.
Used == paired \cup gone
CodesAreFresh ==
  /\ \A c, d \in Channels :
       window[c].live /\ window[d].live /\ window[c].code = window[d].code => c = d
  /\ \A c \in Channels : window[c].live => \A p \in Used : p.code # window[c].code

PairingsHold ==
  /\ \A p \in Used : p.code \in 0..opened
  /\ \A p \in paired : p.channel \in Channels

CodeInv == RowsTyped /\ WindowsTyped /\ CodesAreFresh /\ PairingsHold /\ OneCodeOnePairing

\* No code is made and nobody pairs: windows close, pairings are undone, rows change.
NoNewCode ==
  /\ opened' = opened /\ RowsTyped' /\ WindowsTyped'
  /\ \A c \in Channels : window'[c].live => window[c].live /\ window'[c].code = window[c].code
  /\ Used' = Used /\ paired' \subseteq paired /\ paired' \cap gone' = {}
  /\ \A p \in paired' : row'[p.channel].saved

LEMMA NoNewCodeKeeps == CodeInv /\ NoNewCode => CodeInv'
<1> SUFFICES ASSUME CodeInv, NoNewCode PROVE CodeInv'
  OBVIOUS
<1>1. CodesAreFresh'
  BY DEF CodeInv, NoNewCode, CodesAreFresh
<1>2. PairingsHold'
  BY DEF CodeInv, NoNewCode, PairingsHold
<1>3. OneCodeOnePairing'
  BY DEF CodeInv, NoNewCode, OneCodeOnePairing, Used
<1> QED
  BY <1>1, <1>2, <1>3 DEF CodeInv, NoNewCode

\* The pairings stay, and so do the rows that carry them.
SameTables == UNCHANGED <<row, point, paired, gone>>
LEMMA TablesStay ==
  ASSUME CodeInv, SameTables
  PROVE  /\ RowsTyped' /\ Used' = Used /\ paired' \subseteq paired /\ paired' \cap gone' = {}
         /\ \A p \in paired' : row'[p.channel].saved
BY DEF CodeInv, SameTables, RowsTyped, Used, OneCodeOnePairing

\* The windows of some channels are closed.
Closed(cs) == window' = [c \in Channels |-> IF c \in cs THEN NoWindow ELSE window[c]]
SameWindows == UNCHANGED <<opened, window>>
Listeners == {c \in Channels : current[c] # 0}

LEMMA WindowsStay ==
  ASSUME CodeInv, SameWindows
  PROVE  /\ opened' = opened /\ WindowsTyped'
         /\ \A c \in Channels : window'[c].live => window[c].live /\ window'[c].code = window[c].code
BY DEF CodeInv, SameWindows, WindowsTyped

LEMMA WindowsClose ==
  ASSUME CodeInv, NEW cs, Closed(cs), opened' = opened
  PROVE  /\ WindowsTyped'
         /\ \A c \in Channels : window'[c].live => window[c].live /\ window'[c].code = window[c].code
<1>1. WindowShape(NoWindow) /\ NoWindow.code = 0 /\ NoWindow.live = FALSE
  BY DEF WindowShape, NoWindow
<1>2. \A c \in Channels : window'[c] = IF c \in cs THEN NoWindow ELSE window[c]
  BY DEF Closed
<1>3. \A c \in Channels : WindowShape(window'[c]) /\ window'[c].code \in 0..opened
  BY <1>1, <1>2 DEF CodeInv, WindowsTyped
<1>4. window' = [c \in Channels |-> window'[c]]
  BY DEF Closed
<1> QED
  BY <1>1, <1>2, <1>3, <1>4 DEF CodeInv, WindowsTyped

\* One window is written: closed, spent by an attempt, or past its deadline.
LEMMA WindowIsWritten ==
  ASSUME CodeInv, NEW c \in Channels, NEW w, window' = [window EXCEPT ![c] = w],
         WindowShape(w), w.code \in {0, window[c].code},
         w.live => window[c].live /\ w.code = window[c].code, opened' = opened
  PROVE  /\ WindowsTyped'
         /\ \A d \in Channels : window'[d].live => window[d].live /\ window'[d].code = window[d].code
<1>1. window'[c] = w /\ \A d \in Channels \ {c} : window'[d] = window[d]
  BY DEF CodeInv, WindowsTyped
<1>2. window' = [d \in Channels |-> window'[d]]
  BY DEF CodeInv, WindowsTyped
<1>3. \A d \in Channels : WindowShape(window'[d]) /\ window'[d].code \in 0..opened
  BY <1>1 DEF CodeInv, WindowsTyped
<1> QED
  BY <1>1, <1>2, <1>3 DEF CodeInv, WindowsTyped

\* One row is written and its channel stays saved.
LEMMA RowIsWritten ==
  ASSUME CodeInv, NEW c \in Channels, NEW r, row' = [row EXCEPT ![c] = r], RowShape(r),
         row[c].saved => r.saved, UNCHANGED <<point, paired, gone>>
  PROVE  /\ RowsTyped' /\ Used' = Used /\ paired' \subseteq paired /\ paired' \cap gone' = {}
         /\ \A p \in paired' : row'[p.channel].saved
<1>1. row'[c] = r /\ \A d \in Channels \ {c} : row'[d] = row[d]
  BY DEF CodeInv, RowsTyped
<1>2. row' = [d \in Channels |-> row'[d]]
  BY DEF CodeInv, RowsTyped
<1>3. RowsTyped'
  BY <1>1, <1>2 DEF CodeInv, RowsTyped
<1>4. \A p \in paired : row'[p.channel].saved
  BY <1>1 DEF CodeInv, OneCodeOnePairing, PairingsHold
<1> QED
  BY <1>3, <1>4 DEF CodeInv, Used, OneCodeOnePairing

\* beginPairing makes a code nobody has seen.
LEMMA BeginKeeps ==
  ASSUME CodeInv, NEW c \in Channels, BeginPairing(c)
  PROVE  CodeInv'
<1> DEFINE w == FreshWindow(opened + 1)
<1>1. window' = [window EXCEPT ![c] = w] /\ opened' = opened + 1 /\ SameTables
  BY DEF BeginPairing, SameTables, desk
<1>2. WindowShape(w) /\ w.code = opened + 1 /\ w.live = TRUE
  BY DEF FreshWindow, WindowShape
<1> HIDE DEF w
<1>3. window'[c] = w /\ \A d \in Channels \ {c} : window'[d] = window[d]
  BY <1>1 DEF CodeInv, WindowsTyped
<1>4. window' = [d \in Channels |-> window'[d]]
  BY <1>1 DEF CodeInv, WindowsTyped
<1>5. opened \in Nat /\ \A d \in Channels : WindowShape(window[d]) /\ window[d].code \in 0..opened
  BY DEF CodeInv, WindowsTyped
<1>6. WindowsTyped'
  BY <1>1, <1>2, <1>3, <1>4, <1>5 DEF WindowsTyped
<1>7. CodesAreFresh'
  <2>1. \A d \in Channels \ {c} : window'[d].code # opened + 1
    BY <1>3, <1>5
  <2>2. \A p \in Used : p.code # opened + 1 /\ Used' = Used
    BY <1>1, <1>5 DEF CodeInv, PairingsHold, SameTables, Used
  <2> QED
    BY <1>1, <1>2, <1>3, <2>1, <2>2 DEF CodeInv, CodesAreFresh, SameTables, Used
<1>8. PairingsHold'
  BY <1>1, <1>5 DEF CodeInv, PairingsHold, SameTables, Used
<1>9. RowsTyped' /\ OneCodeOnePairing'
  BY <1>1 DEF CodeInv, RowsTyped, OneCodeOnePairing, SameTables
<1> QED
  BY <1>6, <1>7, <1>8, <1>9 DEF CodeInv

\* A match: the code was in no pairing, and the window that showed it closes.
LEMMA PairsKeeps ==
  ASSUME CodeInv, QueueIsOfChannels, TurnPairs
  PROVE  CodeInv'
<1>0. queue # <<>>
  BY DEF TurnPairs, PairingTurn, TakesTurn
<1> DEFINE c == Job.channel
           q == [channel |-> c, phone |-> Msg.from, code |-> window[c].code]
<1>1. c \in Channels
  BY <1>0, JobIsOfAChannel
<1>2. /\ row[c].saved /\ window[c].live
      /\ paired' = paired \cup {q} /\ Closed({c})
      /\ UNCHANGED <<row, point, gone, opened>>
  BY DEF TurnPairs, PairingTurn, TakesTurn, Saved, Matches, InsertPairing, Closed
<1>3. q.channel = c /\ q.code = window[c].code
  OBVIOUS
<1> HIDE DEF c, q
<1>4. /\ WindowsTyped'
      /\ \A d \in Channels : window'[d].live => window[d].live /\ window'[d].code = window[d].code
  BY <1>2, WindowsClose
<1>5. ~window'[c].live
  BY <1>1, <1>2 DEF Closed, NoWindow
<1>6. Used' = Used \cup {q} /\ \A p \in Used : p.code # q.code
  BY <1>1, <1>2, <1>3 DEF CodeInv, CodesAreFresh, Used
<1>7. CodesAreFresh'
  BY <1>1, <1>2, <1>3, <1>4, <1>5, <1>6 DEF CodeInv, CodesAreFresh
<1>8. PairingsHold'
  BY <1>1, <1>2, <1>3, <1>6 DEF CodeInv, PairingsHold, WindowsTyped
<1>9. OneCodeOnePairing'
  <2>1. paired' \cap gone' = {}
    BY <1>2, <1>6 DEF CodeInv, OneCodeOnePairing, Used
  <2>2. \A p, r \in Used' : p.code = r.code => p = r
    BY <1>6 DEF CodeInv, OneCodeOnePairing, Used
  <2>3. \A p \in paired' : row'[p.channel].saved
    BY <1>2, <1>3 DEF CodeInv, OneCodeOnePairing
  <2> QED
    BY <2>1, <2>2, <2>3 DEF OneCodeOnePairing, Used
<1>10. RowsTyped'
  BY <1>2 DEF CodeInv, RowsTyped
<1> QED
  BY <1>4, <1>7, <1>8, <1>9, <1>10 DEF CodeInv

\* A step that touches neither the pairings nor their rows, and one that touches no window.
LEMMA TablesApart ==
  ASSUME CodeInv, SameTables, WindowsTyped', opened' = opened,
         \A c \in Channels : window'[c].live => window[c].live /\ window'[c].code = window[c].code
  PROVE  CodeInv'
BY TablesStay, NoNewCodeKeeps DEF NoNewCode

LEMMA NothingOfCodes == CodeInv /\ SameTables /\ SameWindows => CodeInv'
BY WindowsStay, TablesApart

LEMMA WindowsCloseKeeps ==
  ASSUME CodeInv, SameTables, NEW cs, Closed(cs), opened' = opened
  PROVE  CodeInv'
BY WindowsClose, TablesApart

LEMMA RowKeeps ==
  ASSUME CodeInv, SameWindows, NEW c \in Channels, NEW r, row' = [row EXCEPT ![c] = r],
         RowShape(r), row[c].saved => r.saved, UNCHANGED <<point, paired, gone>>
  PROVE  CodeInv'
BY WindowsStay, RowIsWritten, NoNewCodeKeeps DEF NoNewCode

LEMMA FieldsOfARow ==
  ASSUME NEW r, RowShape(r), NEW v
  PROVE  /\ RowShape([r EXCEPT !.enabled = v]) /\ [r EXCEPT !.enabled = v].saved = r.saved
         /\ RowShape([r EXCEPT !.token = v]) /\ [r EXCEPT !.token = v].saved = r.saved
         /\ RowShape([r EXCEPT !.wake = v]) /\ [r EXCEPT !.wake = v].saved = r.saved
         /\ RowShape([r EXCEPT !.saved = v]) /\ [r EXCEPT !.saved = v].saved = v
BY DEF RowShape

LEMMA EmptyRows ==
  /\ RowShape(NoRow) /\ RowShape(NewRow) /\ NewRow.saved
  /\ RowShape([NewRow EXCEPT !.token = "present"])
<1>1. RowShape(NoRow)
  BY DEF RowShape, NoRow
<1>2. RowShape(NewRow) /\ NewRow.saved = TRUE
  BY <1>1, FieldsOfARow DEF NewRow
<1> QED
  BY <1>1, <1>2, FieldsOfARow

\* A snapshot of the table is a table.
LEMMA SnapshotIsTyped ==
  ASSUME CodeInv, Snapshot
  PROVE  point' = [c \in Channels |-> point'[c]] /\ \A c \in Channels : RowShape(point'[c])
<1>1. \A c \in Channels : point'[c] = [row[c] EXCEPT !.token = "unknown"]
  BY DEF Snapshot
<1>2. \A c \in Channels : RowShape(row[c])
  BY DEF CodeInv, RowsTyped
<1>3. ASSUME NEW c \in Channels PROVE RowShape(point'[c])
  <2>1. RowShape([row[c] EXCEPT !.token = "unknown"])
    BY <1>2, FieldsOfARow
  <2> QED
    BY <1>1, <2>1
<1> QED
  BY <1>3 DEF Snapshot

\* channel.add.
LEMMA AddKeeps ==
  ASSUME CodeInv, NEW c \in Channels, ChannelAdd(c)
  PROVE  CodeInv'
<1>1. /\ Snapshot /\ row' = [row EXCEPT ![c] = NewRow] /\ SameWindows
      /\ UNCHANGED <<paired, gone>>
  BY DEF ChannelAdd, NoJob, service, SameWindows, history
<1>2. row'[c] = NewRow /\ \A d \in Channels \ {c} : row'[d] = row[d]
  BY <1>1 DEF CodeInv, RowsTyped
<1>3. row' = [d \in Channels |-> row'[d]]
  BY <1>1 DEF CodeInv, RowsTyped
<1>4. RowsTyped'
  BY <1>1, <1>2, <1>3, SnapshotIsTyped, EmptyRows DEF CodeInv, RowsTyped
<1>5. \A p \in paired' : row'[p.channel].saved
  BY <1>1, <1>2, EmptyRows DEF CodeInv, OneCodeOnePairing, PairingsHold
<1>6. NoNewCode
  BY <1>1, <1>4, <1>5, WindowsStay DEF NoNewCode, CodeInv, Used, OneCodeOnePairing
<1> QED
  BY <1>6, NoNewCodeKeeps

\* channel.remove.
LEMMA RemoveKeeps ==
  ASSUME CodeInv, NEW c \in Channels, ChannelRemove(c)
  PROVE  CodeInv'
<1>1. /\ Snapshot /\ row' = [row EXCEPT ![c] = NoRow] /\ Closed({c}) /\ opened' = opened
      /\ paired' = {p \in paired : p.channel # c}
      /\ gone' = gone \cup {p \in paired : p.channel = c}
  BY DEF ChannelRemove, StopListening, DeleteChannel, NoJob, history, Closed
<1>2. row'[c] = NoRow /\ \A d \in Channels \ {c} : row'[d] = row[d]
  BY <1>1 DEF CodeInv, RowsTyped
<1>3. row' = [d \in Channels |-> row'[d]]
  BY <1>1 DEF CodeInv, RowsTyped
<1>4. RowsTyped'
  BY <1>1, <1>2, <1>3, SnapshotIsTyped, EmptyRows DEF CodeInv, RowsTyped
<1>5. \A p \in paired' : row'[p.channel].saved
  BY <1>1, <1>2 DEF CodeInv, OneCodeOnePairing, PairingsHold
<1>6. Used' = Used /\ paired' \subseteq paired /\ paired' \cap gone' = {}
  BY <1>1 DEF CodeInv, OneCodeOnePairing, Used
<1>7. NoNewCode
  BY <1>1, <1>4, <1>5, <1>6, WindowsClose DEF NoNewCode
<1> QED
  BY <1>7, NoNewCodeKeeps

\* snapshot.restore.
LEMMA RestoreKeeps ==
  ASSUME CodeInv, Restore
  PROVE  CodeInv'
<1>1. /\ row' = point /\ point' = point /\ Closed(Listeners) /\ opened' = opened
      /\ paired' = {} /\ gone' = gone \cup paired
  BY DEF Restore, StopListening, StopAll, Listeners, NoJob, history, Closed
<1>2. RowsTyped'
  BY <1>1 DEF CodeInv, RowsTyped
<1>3. Used' = Used
  BY <1>1 DEF Used
<1>4. NoNewCode
  BY <1>1, <1>2, <1>3, WindowsClose DEF NoNewCode
<1> QED
  BY <1>4, NoNewCodeKeeps

\* channel.revokePairing.
LEMMA RevokeKeeps ==
  ASSUME CodeInv, NEW p \in paired, RevokePairing(p)
  PROVE  CodeInv'
<1>1. /\ paired' = paired \ {p} /\ gone' = gone \cup {p}
      /\ UNCHANGED <<row, point>> /\ SameWindows
  BY DEF RevokePairing, DeletePairing, NoJob, service, history, SameWindows
<1>2. Used' = Used
  BY <1>1 DEF Used
<1>3. NoNewCode
  BY <1>1, <1>2, WindowsStay DEF NoNewCode, CodeInv, RowsTyped, OneCodeOnePairing
<1> QED
  BY <1>3, NoNewCodeKeeps

\* The acts at the desk.
LEMMA DeskKeepsCodes == CodeInv /\ Desk => CodeInv'
<1> SUFFICES ASSUME CodeInv, Desk PROVE CodeInv'
  OBVIOUS
<1>1. CASE \E c \in Channels : ChannelAdd(c)
  BY <1>1, AddKeeps
<1>2. CASE \E c \in Channels : ChannelRemove(c)
  BY <1>2, RemoveKeeps
<1>3. ASSUME NEW c \in Channels
      PROVE  RowShape(row[c]) /\ row = [d \in Channels |-> row[d]]
  BY DEF CodeInv, RowsTyped
<1>4. CASE \E c \in Channels : ChannelConnect(c)
  <2>1. PICK c \in Channels : ChannelConnect(c)
    BY <1>4
  <2> DEFINE v == IF token = "good" THEN "present" ELSE "absent"
  <2>2. /\ row' = [row EXCEPT ![c] = [row[c] EXCEPT !.token = v]]
        /\ SameWindows /\ UNCHANGED <<point, paired, gone>>
    BY <2>1 DEF ChannelConnect, SetTokenPresent, NoJob, service, history, SameWindows
  <2> HIDE DEF v
  <2>3. /\ RowShape([row[c] EXCEPT !.token = v])
        /\ [row[c] EXCEPT !.token = v].saved = row[c].saved
    BY <1>3, FieldsOfARow
  <2> QED
    BY <2>2, <2>3, RowKeeps
<1>5. ASSUME NEW c \in Channels, NEW v, SetChannelEnabled(c, v), UNCHANGED <<point, paired, gone>>
      PROVE  /\ RowsTyped' /\ Used' = Used /\ paired' \subseteq paired /\ paired' \cap gone' = {}
             /\ \A p \in paired' : row'[p.channel].saved
  <2>1. row' = [row EXCEPT ![c] = [row[c] EXCEPT !.enabled = v]]
    BY <1>5 DEF SetChannelEnabled
  <2>2. /\ RowShape([row[c] EXCEPT !.enabled = v])
        /\ [row[c] EXCEPT !.enabled = v].saved = row[c].saved
    BY <1>3, FieldsOfARow
  <2> QED
    BY <1>5, <2>1, <2>2, RowIsWritten
<1>6. CASE \E c \in Channels : ChannelSwitchOn(c)
  <2>1. PICK c \in Channels : ChannelSwitchOn(c)
    BY <1>6
  <2>2. SetChannelEnabled(c, TRUE) /\ SameWindows /\ UNCHANGED <<point, paired, gone>>
    BY <2>1 DEF ChannelSwitchOn, NoJob, history, SameWindows
  <2> QED
    BY <1>5, <2>2, WindowsStay, NoNewCodeKeeps DEF NoNewCode
<1>7. CASE \E c \in Channels : ChannelSwitchOff(c)
  <2>1. PICK c \in Channels : ChannelSwitchOff(c)
    BY <1>7
  <2>2. /\ SetChannelEnabled(c, FALSE) /\ Closed({c}) /\ opened' = opened
        /\ UNCHANGED <<point, paired, gone>>
    BY <2>1 DEF ChannelSwitchOff, StopListening, NoJob, history, Closed
  <2> QED
    BY <1>5, <2>2, WindowsClose, NoNewCodeKeeps DEF NoNewCode
<1>8. CASE \E c \in Channels, wake \in {"decline", "answer"} : ChannelSetOnWake(c, wake)
  <2>1. PICK c \in Channels, wake \in {"decline", "answer"} : ChannelSetOnWake(c, wake)
    BY <1>8
  <2>2. /\ row' = [row EXCEPT ![c] = [row[c] EXCEPT !.wake = wake]]
        /\ SameWindows /\ UNCHANGED <<point, paired, gone>>
    BY <2>1 DEF ChannelSetOnWake, SetOnWake, NoJob, service, history, SameWindows
  <2>3. /\ RowShape([row[c] EXCEPT !.wake = wake])
        /\ [row[c] EXCEPT !.wake = wake].saved = row[c].saved
    BY <1>3, FieldsOfARow
  <2> QED
    BY <2>2, <2>3, RowKeeps
<1>9. CASE \E c \in Channels : BeginPairing(c)
  BY <1>9, BeginKeeps
<1>10. CASE \E c \in Channels : CancelPairing(c)
  <2>1. PICK c \in Channels : CancelPairing(c)
    BY <1>10
  <2>2. window' = [window EXCEPT ![c] = NoWindow] /\ SameTables /\ opened' = opened
    BY <2>1 DEF CancelPairing, NoJob, desk, history, SameTables
  <2>3. WindowShape(NoWindow) /\ NoWindow.code = 0 /\ NoWindow.live = FALSE
    BY DEF WindowShape, NoWindow
  <2> QED
    BY <2>2, <2>3, WindowIsWritten, TablesApart
<1>11. CASE \E p \in paired : RevokePairing(p)
  BY <1>11, RevokeKeeps
<1>12. CASE \E i \in 1..Len(notes) : DropNote(i)
  BY <1>12, NothingOfCodes DEF DropNote, NoJob, desk, history, SameTables, SameWindows
<1>13. CASE ProfileSet
  <2>1. SameTables /\ opened' = opened /\ (SameWindows \/ Closed(Listeners))
    BY <1>13 DEF ProfileSet, StopListening, StopAll, Listeners, NoJob, history, SameTables, SameWindows, Closed
  <2> QED
    BY <2>1, NothingOfCodes, WindowsCloseKeeps
<1>14. CASE GuardsChange
  BY <1>14, NothingOfCodes DEF GuardsChange, NoJob, service, history, SameTables, SameWindows
<1>15. CASE Restore
  BY <1>15, RestoreKeeps
<1> QED
  BY <1>1, <1>2, <1>4, <1>6, <1>7, <1>8, <1>9, <1>10, <1>11, <1>12, <1>13, <1>14, <1>15 DEF Desk

\* A message taken off the queue.
LEMMA TurnKeepsCodes == CodeInv /\ QueueIsOfChannels /\ Turn => CodeInv'
<1> SUFFICES ASSUME CodeInv, QueueIsOfChannels, Turn PROVE CodeInv'
  OBVIOUS
<1>1. CASE TurnWithoutChannel
  BY <1>1, NothingOfCodes DEF TurnWithoutChannel, TakesTurn, service, SameTables, SameWindows
<1>2. CASE TurnOutsideDeveloper
  <2>1. SameTables /\ opened' = opened /\ Closed(Listeners)
    BY <1>2 DEF TurnOutsideDeveloper, TakesTurn, StopListening, StopAll, Listeners, SameTables, Closed
  <2> QED
    BY <2>1, WindowsCloseKeeps
<1>3. CASE TurnPairs
  BY <1>3, PairsKeeps
<1>4. CASE TurnFromStranger
  <2> DEFINE c == Job.channel
             w == window[c]
             spent == [w EXCEPT !.left = w.left - 1]
             counts == w # NoWindow /\ w.live /\ w.left > 1
  <2>1. queue # <<>> /\ SameTables /\ opened' = opened
    BY <1>4 DEF TurnFromStranger, TakesTurn, SameTables
  <2>2. window' = [window EXCEPT ![c] = IF counts THEN spent ELSE NoWindow]
    BY <1>4 DEF TurnFromStranger
  <2>3. c \in Channels
    BY <2>1, JobIsOfAChannel
  <2> HIDE DEF c
  <2>4. WindowShape(spent) /\ spent.code = w.code /\ spent.live = w.live
    BY <2>3 DEF CodeInv, WindowsTyped, WindowShape
  <2>5. WindowShape(NoWindow) /\ NoWindow.code = 0 /\ NoWindow.live = FALSE
    BY DEF WindowShape, NoWindow
  <2> HIDE DEF spent, counts
  <2>6. CASE counts
    BY <2>1, <2>2, <2>3, <2>4, <2>6, WindowIsWritten, TablesApart
  <2>7. CASE ~counts
    BY <2>1, <2>2, <2>3, <2>5, <2>7, WindowIsWritten, TablesApart
  <2> QED
    BY <2>6, <2>7
<1>5. CASE TurnDeclined
  BY <1>5, NothingOfCodes DEF TurnDeclined, TakesTurn, SameTables, SameWindows
<1>6. CASE TurnRefusedByGuards
  BY <1>6, NothingOfCodes DEF TurnRefusedByGuards, TakesTurn, SameTables, SameWindows
<1>7. CASE TurnRuns
  BY <1>7, NothingOfCodes DEF TurnRuns, TakesTurn, SameTables, SameWindows
<1> QED
  BY <1>1, <1>2, <1>3, <1>4, <1>5, <1>6, <1>7 DEF Turn

Codes == LoopAndQueue /\ CodeInv

LEMMA StepKeepsCodes == Codes /\ [Next]_vars => Codes'
<1> SUFFICES ASSUME Codes, [Next]_vars PROVE Codes'
  OBVIOUS
<1>0. CodeInv /\ QueueIsOfChannels /\ LoopAndQueue'
  BY StepKeepsLoops DEF Codes, LoopAndQueue
<1>1. CASE \E t \in Loops : LoopStep(t)
  <2>1. SameTables /\ SameWindows
    BY <1>1 DEF LoopStep, LoopAsks, LoopHasNoToken, LoopEnds, LoopFails, LoopWakes, LoopHears,
                LoopIsRefused, LoopHandsOff, NoLoop, Loop, desk, SameTables, SameWindows
  <2> QED
    BY <1>0, <2>1, NothingOfCodes DEF Codes
<1>2. CASE Desk
  BY <1>0, <1>2, DeskKeepsCodes DEF Codes
<1>3. CASE Turn
  BY <1>0, <1>3, TurnKeepsCodes DEF Codes
<1>4. CASE Crash
  <2>1. SameTables /\ opened' = opened /\ Closed(Channels)
    BY <1>4 DEF Crash, desk, history, SameTables, Closed
  <2> QED
    BY <1>0, <2>1, WindowsCloseKeeps DEF Codes
<1>5. ASSUME SameTables, SameWindows PROVE Codes'
  BY <1>0, <1>5, NothingOfCodes DEF Codes
<1>6. CASE HushEnds
  BY <1>5, <1>6 DEF HushEnds, World, desk, SameTables, SameWindows
<1>7. CASE \E u \in Update : Arrives(u)
  BY <1>5, <1>7 DEF Arrives, World, desk, SameTables, SameWindows
<1>8. CASE \E t \in {"none", "good", "bad"} : TokenChanges(t)
  BY <1>5, <1>8 DEF TokenChanges, World, desk, SameTables, SameWindows
<1>9. CASE \E c \in Channels : WindowTimesOut(c)
  <2>1. PICK c \in Channels : WindowTimesOut(c)
    BY <1>9
  <2> DEFINE w == [window[c] EXCEPT !.live = FALSE]
  <2>2. window' = [window EXCEPT ![c] = w] /\ SameTables /\ opened' = opened
    BY <2>1 DEF WindowTimesOut, World, desk, SameTables
  <2>3. WindowShape(w) /\ w.code = window[c].code /\ w.live = FALSE
    <3>1. ASSUME NEW r, WindowShape(r), NEW q, q = [r EXCEPT !.live = FALSE]
          PROVE  WindowShape(q) /\ q.code = r.code /\ q.live = FALSE
      BY <3>1 DEF WindowShape
    <3>2. WindowShape(window[c])
      BY <1>0 DEF CodeInv, WindowsTyped
    <3> QED
      BY <3>1, <3>2
  <2> HIDE DEF w
  <2> QED
    BY <1>0, <2>2, <2>3, WindowIsWritten, TablesApart DEF Codes
<1>10. CASE UNCHANGED vars
  BY <1>5, <1>10 DEF vars, desk, service, history, SameTables, SameWindows
<1> QED
  BY <1>1, <1>2, <1>3, <1>4, <1>6, <1>7, <1>8, <1>9, <1>10 DEF Next

LEMMA InitCodes == Init => CodeInv
<1> SUFFICES ASSUME Init PROVE CodeInv
  OBVIOUS
<1>1. RowsTyped
  <2>1. \A c \in Channels : RowShape(row[c]) /\ RowShape(point[c])
    BY EmptyRows DEF Init
  <2> QED
    BY <2>1 DEF Init, RowsTyped
<1>2. WindowShape(NoWindow) /\ NoWindow.code = 0 /\ NoWindow.live = FALSE
  BY DEF WindowShape, NoWindow
<1>3. \A c \in Channels : window[c] = NoWindow
  BY DEF Init
<1>4. WindowsTyped
  BY <1>2, <1>3 DEF Init, WindowsTyped
<1>5. CodesAreFresh
  BY <1>2, <1>3 DEF CodesAreFresh
<1>6. PairingsHold /\ OneCodeOnePairing
  BY DEF Init, PairingsHold, OneCodeOnePairing, Used
<1> QED
  BY <1>1, <1>4, <1>5, <1>6 DEF CodeInv

(* For any number of phones, windows and messages: a code pairs one phone once, and a  *)
(* pairing that was undone stays undone, not even the same message delivered again     *)
(* makes it anew (channel_pairing.begin and offer, _offer_pairing).                    *)
THEOREM CodePairsOnce == Spec => []OneCodeOnePairing
<1>1. Init => Codes
  BY InitLoops, InitCodes DEF Codes
<1>2. Codes => OneCodeOnePairing
  BY DEF Codes, CodeInv
<1> QED
  BY <1>1, <1>2, StepKeepsCodes, PTL DEF Spec

-----------------------------------------------------------------------------
(* What the transport forgets.                                             *)

\* What lies before the cursor of a loop: handed on, or still in its batch.
Passed(t, n) == n \in handed \/ (loop[t].pc = "hand" /\ n \in loop[t].batch)
CursorInv ==
  /\ \E S : sent \in Seq(S)
  /\ acked \in 1..(Len(sent) + 1) /\ AckedWasHanded
  /\ \A t \in Loops :
       /\ loop[t].cursor \in 1..(Len(sent) + 1)
       /\ \A n \in 1..(loop[t].cursor - 1) : sent[n].says # NoText => Passed(t, n)

\* A thread whose cursor and batch were not touched, or one that begins.
SameCursor(r, q) == /\ q.cursor = r.cursor
                    /\ r.pc = "hand" => q.pc = "hand" /\ q.batch = r.batch
Calm == \A t \in Loops : SameCursor(loop[t], loop'[t]) \/ loop'[t].cursor = 1

LEMMA CalmKeeps ==
  ASSUME CursorInv, Calm, UNCHANGED transport, handed \subseteq handed'
  PROVE  CursorInv'
<1>1. sent' = sent /\ acked' = acked
  BY DEF transport
<1>2. Len(sent) \in Nat
  BY DEF CursorInv
<1>3. AckedWasHanded'
  BY <1>1 DEF CursorInv, AckedWasHanded
<1>4. ASSUME NEW t \in Loops
      PROVE  /\ loop'[t].cursor \in 1..(Len(sent) + 1)
             /\ \A n \in 1..(loop'[t].cursor - 1) : sent[n].says # NoText => Passed(t, n)'
  <2>1. CASE loop'[t].cursor = 1
    BY <1>2, <2>1
  <2>2. CASE SameCursor(loop[t], loop'[t])
    <3>1. loop'[t].cursor \in 1..(Len(sent) + 1)
      BY <2>2 DEF SameCursor, CursorInv
    <3>2. ASSUME NEW n \in 1..(loop'[t].cursor - 1), sent[n].says # NoText PROVE Passed(t, n)'
      <4>1. Passed(t, n)
        BY <2>2, <3>2 DEF SameCursor, CursorInv
      <4> QED
        BY <2>2, <4>1 DEF Passed, SameCursor
    <3> QED
      BY <3>1, <3>2
  <2> QED
    BY <2>1, <2>2 DEF Calm
<1> QED
  BY <1>1, <1>3, <1>4 DEF CursorInv

LEMMA SameLoopsAreCalm == UNCHANGED loop => Calm
BY DEF Calm, SameCursor

\* A thread told to stop, or with another pc than "hand", keeps its cursor.
LEMMA StoppedKeepsCursor ==
  ASSUME NEW r, LoopShape(r), NEW b
  PROVE  SameCursor(r, [r EXCEPT !.stopped = b])
BY DEF LoopShape, SameCursor

LEMMA PcKeepsCursor ==
  ASSUME NEW r, LoopShape(r), NEW p
  PROVE  /\ [r EXCEPT !.pc = p].cursor = r.cursor
         /\ [r EXCEPT !.pc = p].pc = p /\ LoopShape([r EXCEPT !.pc = p])
BY DEF LoopShape

LEMMA TokenKeepsCursor ==
  ASSUME NEW r, LoopShape(r), NEW k
  PROVE  [r EXCEPT !.token = k].cursor = r.cursor /\ [r EXCEPT !.token = k].pc = r.pc
BY DEF LoopShape

LEMMA BatchIsWritten ==
  ASSUME NEW r, LoopShape(r), NEW b
  PROVE  /\ [r EXCEPT !.batch = b].batch = b /\ [r EXCEPT !.batch = b].pc = r.pc
         /\ [r EXCEPT !.batch = b].cursor = r.cursor /\ LoopShape([r EXCEPT !.batch = b])
BY DEF LoopShape

LEMMA CursorIsWritten ==
  ASSUME NEW r, LoopShape(r), NEW c
  PROVE  /\ [r EXCEPT !.cursor = c].cursor = c /\ [r EXCEPT !.cursor = c].pc = r.pc
         /\ [r EXCEPT !.cursor = c].batch = r.batch
BY DEF LoopShape

LEMMA StopIsCalm ==
  ASSUME LoopInv, NEW cs, StopListening(cs)
  PROVE  Calm
<1>1. ASSUME NEW t \in Loops PROVE SameCursor(loop[t], loop'[t])
  <2>1. LoopShape(loop[t])
    BY DEF LoopInv, LoopsTyped
  <2>2. loop'[t] = loop[t] \/ loop'[t] = [loop[t] EXCEPT !.stopped = TRUE]
    BY DEF StopListening
  <2>3. SameCursor(loop[t], [loop[t] EXCEPT !.stopped = TRUE])
    BY <2>1, StoppedKeepsCursor
  <2>4. SameCursor(loop[t], loop[t])
    BY DEF SameCursor
  <2> QED
    BY <2>2, <2>3, <2>4
<1> QED
  BY <1>1 DEF Calm

LEMMA RejectedIsCalm ==
  ASSUME LoopInv, NEW c \in Channels, TokenRejected(c)
  PROVE  Calm
<1>1. PICK u : u = current[c]
  OBVIOUS
<1>2. loop' = loop \/ loop' = [loop EXCEPT ![u].stopped = TRUE]
  BY <1>1 DEF TokenRejected
<1>3. ASSUME NEW t \in Loops PROVE SameCursor(loop[t], loop'[t])
  <2>1. LoopShape(loop[t]) /\ loop = [v \in Loops |-> loop[v]]
    BY DEF LoopInv, LoopsTyped
  <2>2. loop'[t] = loop[t] \/ loop'[t] = [loop[t] EXCEPT !.stopped = TRUE]
    BY <1>2, <2>1
  <2>3. SameCursor(loop[t], [loop[t] EXCEPT !.stopped = TRUE])
    BY <2>1, StoppedKeepsCursor
  <2>4. SameCursor(loop[t], loop[t])
    BY DEF SameCursor
  <2> QED
    BY <2>2, <2>3, <2>4
<1> QED
  BY <1>3 DEF Calm

LEMMA StartIsCalm ==
  ASSUME LoopInv, NEW c \in Channels, Start(c)
  PROVE  Calm
<1>1. CASE UNCHANGED loop
  BY <1>1, SameLoopsAreCalm
<1>2. CASE ~UNCHANGED loop
  <2>1. PICK t \in Loops : loop' = [loop EXCEPT ![t] = [Unstarted EXCEPT !.pc = "top", !.channel = c]]
    BY <1>2 DEF Start
  <2>2. PICK q : q = [Unstarted EXCEPT !.pc = "top", !.channel = c]
    OBVIOUS
  <2>3. q.cursor = 1
    BY <2>2 DEF Unstarted
  <2>4. loop = [v \in Loops |-> loop[v]]
    BY DEF LoopInv, LoopsTyped
  <2>5. loop'[t] = q /\ \A u \in Loops \ {t} : loop'[u] = loop[u]
    BY <2>1, <2>2, <2>4
  <2> QED
    BY <2>3, <2>5 DEF Calm, SameCursor
<1> QED
  BY <1>1, <1>2

-----------------------------------------------------------------------------
\* A step that writes one thread that is not handing on.
LEMMA OneGoesOn ==
  ASSUME LoopInv, NEW t \in Loops, NEW q, loop' = [loop EXCEPT ![t] = q],
         loop[t].pc # "hand", q.cursor = loop[t].cursor
  PROVE  Calm
<1>1. loop = [u \in Loops |-> loop[u]]
  BY DEF LoopInv, LoopsTyped
<1>2. loop'[t] = q /\ \A u \in Loops \ {t} : loop'[u] = loop[u]
  BY <1>1
<1> QED
  BY <1>2 DEF Calm, SameCursor

LEMMA GoesIsCalm ==
  ASSUME LoopInv, NEW t \in Loops, NEW p, Goes(t, p), loop[t].pc # "hand"
  PROVE  Calm
<1>1. PICK q : q = [loop[t] EXCEPT !.pc = p]
  OBVIOUS
<1>2. q.cursor = loop[t].cursor
  BY <1>1, PcKeepsCursor DEF LoopInv, LoopsTyped
<1>3. loop' = [loop EXCEPT ![t] = q]
  BY <1>1 DEF Goes
<1> QED
  BY <1>2, <1>3, OneGoesOn

\* A loop asks from its cursor: everything before it was handed on.
LEMMA AsksKeepsCursors ==
  ASSUME LoopInv, CursorInv, NEW t \in Loops, LoopAsks(t)
  PROVE  CursorInv'
<1>1. /\ loop[t].pc = "top" /\ sent' = sent /\ handed' = handed
      /\ acked' = acked \/ acked' = loop[t].cursor
      /\ loop' = [loop EXCEPT ![t].pc = "poll", ![t].token = token]
  BY DEF LoopAsks, NoLoop, Loop
<1>2. PICK one, q : one = [loop[t] EXCEPT !.pc = "poll"] /\ q = [one EXCEPT !.token = token]
  OBVIOUS
<1>3. loop' = [loop EXCEPT ![t] = q]
  BY <1>1, <1>2
<1>4. q.cursor = loop[t].cursor
  <2>1. LoopShape(loop[t])
    BY DEF LoopInv, LoopsTyped
  <2>2. one.cursor = loop[t].cursor /\ LoopShape(one)
    BY <1>2, <2>1, PcKeepsCursor
  <2> QED
    BY <1>2, <2>2, TokenKeepsCursor
<1>5. Calm
  BY <1>1, <1>3, <1>4, OneGoesOn
<1>6. loop[t].cursor \in 1..(Len(sent) + 1) /\ \A n \in 1..(loop[t].cursor - 1) : sent[n].says # NoText => n \in handed
  BY <1>1 DEF CursorInv, Passed
<1>7. acked' \in 1..(Len(sent) + 1) /\ AckedWasHanded'
  BY <1>1, <1>6 DEF CursorInv, AckedWasHanded
<1>8. ASSUME NEW u \in Loops
      PROVE  /\ loop'[u].cursor \in 1..(Len(sent) + 1)
             /\ \A n \in 1..(loop'[u].cursor - 1) : sent[n].says # NoText => Passed(u, n)'
  <2>1. Len(sent) \in Nat
    BY DEF CursorInv
  <2>2. CASE loop'[u].cursor = 1
    BY <2>1, <2>2
  <2>3. CASE SameCursor(loop[u], loop'[u])
    BY <1>1, <2>3 DEF SameCursor, CursorInv, Passed
  <2> QED
    BY <1>5, <2>2, <2>3 DEF Calm
<1> QED
  BY <1>1, <1>7, <1>8 DEF CursorInv

\* A poll that answers: what it brought is the batch, whatever came before was handed on.
LEMMA HearsKeepsCursors ==
  ASSUME LoopInv, CursorInv, NEW t \in Loops, LoopHears(t)
  PROVE  CursorInv'
<1>1. loop[t].pc = "poll" /\ sent' = sent /\ handed' = handed /\ acked' = acked
  BY DEF LoopHears, NoLoop, Loop
<1>2. LoopShape(loop[t]) /\ loop = [u \in Loops |-> loop[u]]
  BY DEF LoopInv, LoopsTyped
<1>3. CASE loop[t].stopped
  <2>1. PICK q : q = [loop[t] EXCEPT !.pc = "dead"]
    OBVIOUS
  <2>2. loop' = [loop EXCEPT ![t] = q]
    BY <1>3, <2>1 DEF LoopHears
  <2>3. q.cursor = loop[t].cursor
    BY <1>2, <2>1, PcKeepsCursor
  <2> QED
    BY <1>1, <2>2, <2>3, OneGoesOn, CalmKeeps DEF transport
<1>4. CASE ~loop[t].stopped
  <2>1. PICK from : from = From(t)
    OBVIOUS
  <2>2. PICK batch, one, two, cursor, q :
          /\ batch = Batch(from)
          /\ one = [loop[t] EXCEPT !.pc = "hand"] /\ two = [one EXCEPT !.batch = batch]
          /\ cursor = (IF from > Len(sent) THEN loop[t].cursor ELSE NextCursor(Len(sent)))
          /\ q = [two EXCEPT !.cursor = cursor]
    OBVIOUS
  <2>3. loop' = [loop EXCEPT ![t] = q]
    BY <1>4, <2>1, <2>2 DEF LoopHears
  <2>4. q.pc = "hand" /\ q.batch = batch /\ q.cursor = cursor
    <3>1. LoopShape(one) /\ one.pc = "hand"
      BY <1>2, <2>2, PcKeepsCursor
    <3>a. two = [one EXCEPT !.batch = batch]
      BY <2>2
    <3>b. /\ [one EXCEPT !.batch = batch].batch = batch /\ [one EXCEPT !.batch = batch].pc = one.pc
          /\ LoopShape([one EXCEPT !.batch = batch])
      BY <3>1, BatchIsWritten
    <3>2. LoopShape(two) /\ two.pc = "hand" /\ two.batch = batch
      BY <3>1, <3>a, <3>b
    <3> QED
      BY <2>2, <3>2, CursorIsWritten
  <2>5. loop'[t] = q /\ \A u \in Loops \ {t} : loop'[u] = loop[u]
    BY <1>2, <2>3
  <2>6. /\ Len(sent) \in Nat /\ acked \in 1..(Len(sent) + 1) /\ loop[t].cursor \in 1..(Len(sent) + 1)
        /\ from \in Nat /\ from \in {acked, loop[t].cursor}
    BY <2>1 DEF CursorInv, From
  \* Nothing with text before the poll is missing.
  <2>7. \A n \in 1..(from - 1) : sent[n].says # NoText => n \in handed
    BY <1>1, <2>6 DEF CursorInv, AckedWasHanded, Passed
  <2>8. cursor \in 1..(Len(sent) + 1)
    BY <2>2, <2>6 DEF NextCursor
  <2>9. ASSUME NEW n \in 1..(cursor - 1), sent[n].says # NoText PROVE n \in handed \/ n \in Batch(from)
    <3>1. CASE from > Len(sent)
      <4>1. n \in 1..(loop[t].cursor - 1)
        BY <2>2, <3>1
      <4> QED
        BY <1>1, <2>9, <4>1 DEF CursorInv, Passed
    <3>2. CASE ~(from > Len(sent))
      <4>1. n \in 1..Len(sent)
        BY <2>2, <2>6, <3>2 DEF NextCursor
      <4>2. n < from \/ n \in from..Len(sent)
        BY <2>6, <4>1
      <4> QED
        BY <2>6, <2>7, <2>9, <4>1, <4>2 DEF Batch
    <3> QED
      BY <3>1, <3>2
  <2>10. ASSUME NEW u \in Loops
         PROVE  /\ loop'[u].cursor \in 1..(Len(sent) + 1)
                /\ \A n \in 1..(loop'[u].cursor - 1) : sent[n].says # NoText => Passed(u, n)'
    <3>1. CASE u = t
      <4>1. loop'[t].pc = "hand" /\ loop'[t].batch = batch /\ loop'[t].cursor = cursor
        BY <2>4, <2>5
      <4>2. \A n \in 1..(cursor - 1) : sent[n].says # NoText => n \in handed \/ n \in batch
        BY <2>2, <2>9
      <4> QED
        BY <1>1, <2>8, <3>1, <4>1, <4>2 DEF Passed
    <3>2. CASE u # t
      BY <1>1, <2>5, <3>2 DEF CursorInv, Passed
    <3> QED
      BY <3>1, <3>2
  <2>11. AckedWasHanded'
    BY <1>1 DEF CursorInv, AckedWasHanded
  <2> QED
    BY <1>1, <2>10, <2>11 DEF CursorInv
<1> QED
  BY <1>3, <1>4

\* One message of a batch is handed on, the others stay in it.
LEMMA HandsOffKeepsCursors ==
  ASSUME LoopInv, CursorInv, NEW t \in Loops, LoopHandsOff(t)
  PROVE  CursorInv'
<1>1. loop[t].pc = "hand" /\ sent' = sent /\ acked' = acked
  BY DEF LoopHandsOff, NoLoop, Loop
<1>2. LoopShape(loop[t]) /\ loop = [u \in Loops |-> loop[u]]
  BY DEF LoopInv, LoopsTyped
<1>3. PICK q : /\ loop' = [loop EXCEPT ![t] = q] /\ q.cursor = loop[t].cursor
               /\ handed \subseteq handed'
               /\ \A n \in loop[t].batch : n \in handed' \/ (q.pc = "hand" /\ n \in q.batch)
  <2>1. CASE loop[t].batch = {} /\ Goes(t, "top") /\ handed' = handed
    <3>1. PICK q : q = [loop[t] EXCEPT !.pc = "top"]
      OBVIOUS
    <3>2. q.cursor = loop[t].cursor
      BY <1>2, <3>1, PcKeepsCursor
    <3>3. loop' = [loop EXCEPT ![t] = q]
      BY <2>1, <3>1 DEF Goes
    <3> QED
      BY <2>1, <3>2, <3>3
  <2>2. CASE \E n \in loop[t].batch :
               loop' = [loop EXCEPT ![t].batch = @ \ {n}] /\ HandOff(loop[t].channel, n)
    <3>1. PICK n \in loop[t].batch :
            loop' = [loop EXCEPT ![t].batch = @ \ {n}] /\ handed' = handed \cup {n}
      BY <2>2 DEF HandOff
    <3>2. PICK rest, q : rest = loop[t].batch \ {n} /\ q = [loop[t] EXCEPT !.batch = rest]
      OBVIOUS
    <3>3. q.cursor = loop[t].cursor /\ q.pc = "hand" /\ q.batch = rest
      BY <1>1, <1>2, <3>2, BatchIsWritten
    <3>4. loop' = [loop EXCEPT ![t] = q]
      BY <3>1, <3>2
    <3> QED
      BY <3>1, <3>2, <3>3, <3>4
  <2> QED
    BY <2>1, <2>2 DEF LoopHandsOff
<1>4. loop'[t] = q /\ \A u \in Loops \ {t} : loop'[u] = loop[u]
  BY <1>2, <1>3
<1>5. ASSUME NEW u \in Loops, NEW n, Passed(u, n) PROVE Passed(u, n)'
  <2>1. CASE u = t
    BY <1>3, <1>4, <1>5, <2>1 DEF Passed
  <2>2. CASE u # t
    BY <1>3, <1>4, <1>5, <2>2 DEF Passed
  <2> QED
    BY <2>1, <2>2
<1>6. \A u \in Loops : loop'[u].cursor = loop[u].cursor
  BY <1>3, <1>4
<1>7. AckedWasHanded'
  BY <1>1, <1>3 DEF CursorInv, AckedWasHanded
<1> QED
  BY <1>1, <1>5, <1>6, <1>7 DEF CursorInv

\* The other steps of a loop leave every cursor where it is.
LEMMA LoopKeepsCursors ==
  ASSUME LoopInv, CursorInv, NEW t \in Loops, LoopStep(t)
  PROVE  CursorInv'
<1>1. ASSUME Calm, UNCHANGED <<sent, acked, handed>> PROVE CursorInv'
  BY <1>1, CalmKeeps DEF transport
<1>2. CASE LoopHasNoToken(t)
  BY <1>1, <1>2, GoesIsCalm DEF LoopHasNoToken, NoLoop, Loop
<1>3. CASE LoopEnds(t)
  BY <1>1, <1>3, GoesIsCalm DEF LoopEnds, NoLoop, Loop
<1>4. CASE LoopFails(t)
  BY <1>1, <1>4, GoesIsCalm DEF LoopFails, Loop
<1>5. CASE LoopWakes(t)
  BY <1>1, <1>5, GoesIsCalm DEF LoopWakes, NoLoop, Loop
<1>6. CASE LoopIsRefused(t)
  <2>1. PICK c : c = loop[t].channel
    OBVIOUS
  <2>2. /\ loop[t].pc = "poll" /\ UNCHANGED <<sent, acked, handed>>
        /\ loop' = [u \in Loops |->
             IF u = t THEN [loop[t] EXCEPT !.pc = "dead", !.stopped = loop[t].stopped \/ current[c] = t]
             ELSE IF u = current[c] THEN [loop[u] EXCEPT !.stopped = TRUE] ELSE loop[u]]
    BY <1>6, <2>1 DEF LoopIsRefused, RejectedByLoop, NoLoop, Loop
  <2>3. ASSUME NEW u \in Loops PROVE SameCursor(loop[u], loop'[u])
    <3>1. LoopShape(loop[u])
      BY DEF LoopInv, LoopsTyped
    <3>2. CASE u = t
      <4>1. PICK b, one, q : /\ b = (loop[t].stopped \/ current[c] = t)
                             /\ one = [loop[t] EXCEPT !.pc = "dead"] /\ q = [one EXCEPT !.stopped = b]
        OBVIOUS
      <4>2. loop'[t] = q
        BY <2>2, <4>1
      <4>3. one.cursor = loop[t].cursor /\ LoopShape(one)
        BY <3>1, <3>2, <4>1, PcKeepsCursor
      <4>4. SameCursor(one, q)
        BY <4>1, <4>3, StoppedKeepsCursor
      <4> QED
        BY <2>2, <3>2, <4>2, <4>3, <4>4 DEF SameCursor
    <3>3. CASE u # t
      <4>1. loop'[u] = loop[u] \/ loop'[u] = [loop[u] EXCEPT !.stopped = TRUE]
        BY <2>2, <3>3
      <4>2. SameCursor(loop[u], [loop[u] EXCEPT !.stopped = TRUE])
        BY <3>1, StoppedKeepsCursor
      <4>3. SameCursor(loop[u], loop[u])
        BY DEF SameCursor
      <4> QED
        BY <4>1, <4>2, <4>3
    <3> QED
      BY <3>2, <3>3
  <2> QED
    BY <1>1, <2>2, <2>3 DEF Calm
<1> QED
  BY <1>2, <1>3, <1>4, <1>5, <1>6, AsksKeepsCursors, HearsKeepsCursors, HandsOffKeepsCursors DEF LoopStep

LEMMA DeskKeepsCursors == LoopInv /\ CursorInv /\ Desk => CursorInv'
<1> SUFFICES ASSUME LoopInv, CursorInv, Desk PROVE CursorInv'
  OBVIOUS
<1>1. UNCHANGED <<sent, acked, handed>>
  BY DEF Desk, ChannelAdd, ChannelRemove, ChannelConnect, ChannelSwitchOn, ChannelSwitchOff, ChannelSetOnWake,
         BeginPairing, CancelPairing, RevokePairing, DropNote, ProfileSet, GuardsChange, Restore, NoJob,
         transport, history
<1>2. ASSUME Calm PROVE CursorInv'
  BY <1>1, <1>2, CalmKeeps DEF transport
<1>3. CASE UNCHANGED loop
  BY <1>2, <1>3, SameLoopsAreCalm
<1>4. CASE \E cs : StopListening(cs)
  BY <1>2, <1>4, StopIsCalm
<1>5. CASE \E c \in Channels : Start(c)
  BY <1>2, <1>5, StartIsCalm
<1>6. \/ UNCHANGED loop \/ \E cs : StopListening(cs) \/ \E c \in Channels : Start(c)
  BY StopAllStops
     DEF Desk, ChannelAdd, ChannelRemove, ChannelConnect, ChannelSwitchOn, ChannelSwitchOff, ChannelSetOnWake,
         BeginPairing, CancelPairing, RevokePairing, DropNote, ProfileSet, GuardsChange, Restore, NoJob
<1> QED
  BY <1>3, <1>4, <1>5, <1>6

LEMMA TurnKeepsCursors == LoopAndQueue /\ CursorInv /\ Turn => CursorInv'
<1> SUFFICES ASSUME LoopInv, QueueIsOfChannels, CursorInv, Turn PROVE CursorInv'
  BY DEF LoopAndQueue
<1>1. /\ queue # <<>> /\ queue' = Tail(queue) /\ UNCHANGED <<sent, acked, handed>>
  BY DEF Turn, TurnWithoutChannel, TurnOutsideDeveloper, TurnPairs, PairingTurn, TurnFromStranger,
         TurnDeclined, TurnRefusedByGuards, TurnRuns, TakesTurn, transport
<1>2. PICK c \in Channels : c = Job.channel
  BY <1>1, JobIsOfAChannel
<1>3. UNCHANGED loop \/ Deliver(c) \/ StopAll
  BY <1>2 DEF Turn, TurnWithoutChannel, TurnOutsideDeveloper, TurnPairs, PairingTurn, TurnFromStranger,
              TurnDeclined, TurnRefusedByGuards, TurnRuns, service
<1>4. UNCHANGED loop \/ TokenRejected(c) \/ StopAll
  BY <1>3 DEF Deliver
<1>5. Calm
  BY <1>4, SameLoopsAreCalm, RejectedIsCalm, StopIsCalm, StopAllStops
<1> QED
  BY <1>1, <1>5, CalmKeeps DEF transport

\* A message that arrives comes after every cursor.
LEMMA ArrivesKeepsCursors ==
  ASSUME CursorInv, NEW u, Arrives(u)
  PROVE  CursorInv'
<1>1. sent' = Append(sent, u) /\ UNCHANGED <<loop, acked, handed>>
  BY DEF Arrives, World
<1>2. PICK S : sent \in Seq(S)
  BY DEF CursorInv
<1>3. sent \in Seq(S \cup {u})
  BY <1>2, SeqMonotonic, S \subseteq S \cup {u}
<1>4. /\ Len(sent') = Len(sent) + 1 /\ Len(sent) \in Nat /\ sent' \in Seq(S \cup {u})
      /\ \A n \in 1..Len(sent) : sent'[n] = sent[n]
  BY <1>1, <1>3
<1>5. AckedWasHanded'
  BY <1>1, <1>4 DEF CursorInv, AckedWasHanded
<1>6. ASSUME NEW t \in Loops
      PROVE  /\ loop'[t].cursor \in 1..(Len(sent') + 1)
             /\ \A n \in 1..(loop'[t].cursor - 1) : sent'[n].says # NoText => Passed(t, n)'
  <2>1. loop'[t] = loop[t] /\ loop[t].cursor \in 1..(Len(sent) + 1)
    BY <1>1 DEF CursorInv
  <2>2. ASSUME NEW n \in 1..(loop[t].cursor - 1), sent'[n].says # NoText PROVE Passed(t, n)
    <3>1. n \in 1..Len(sent)
      BY <1>4, <2>1
    <3>2. sent[n].says # NoText
      BY <1>4, <2>2, <3>1
    <3> QED
      BY <2>2, <3>2 DEF CursorInv
  <2> QED
    BY <1>1, <1>4, <2>1, <2>2 DEF Passed
<1> QED
  BY <1>1, <1>4, <1>5, <1>6 DEF CursorInv

LEMMA StepKeepsCursors == LoopAndQueue /\ CursorInv /\ [Next]_vars => CursorInv'
<1> SUFFICES ASSUME LoopAndQueue, CursorInv, [Next]_vars PROVE CursorInv'
  OBVIOUS
<1>0. LoopInv
  BY DEF LoopAndQueue
<1>1. ASSUME UNCHANGED <<loop, sent, acked, handed>> PROVE CursorInv'
  BY <1>1, SameLoopsAreCalm, CalmKeeps DEF transport
<1>2. CASE \E t \in Loops : LoopStep(t)
  BY <1>0, <1>2, LoopKeepsCursors
<1>3. CASE Crash
  <2>1. loop' = [t \in Loops |-> Unstarted] /\ UNCHANGED <<transport, handed>>
    BY <1>3 DEF Crash, history
  <2>2. Unstarted.cursor = 1
    BY DEF Unstarted
  <2>3. Calm
    BY <2>1, <2>2 DEF Calm
  <2> QED
    BY <2>1, <2>3, CalmKeeps
<1>4. CASE \E u \in Update : Arrives(u)
  BY <1>4, ArrivesKeepsCursors
<1>5. CASE HushEnds
  BY <1>1, <1>5 DEF HushEnds, World
<1>6. CASE \E t \in {"none", "good", "bad"} : TokenChanges(t)
  BY <1>1, <1>6 DEF TokenChanges, World
<1>7. CASE \E c \in Channels : WindowTimesOut(c)
  BY <1>1, <1>7 DEF WindowTimesOut, World
<1>8. CASE UNCHANGED vars
  BY <1>1, <1>8 DEF vars, transport, history
<1> QED
  BY <1>0, <1>2, <1>3, <1>4, <1>5, <1>6, <1>7, <1>8, DeskKeepsCursors, TurnKeepsCursors DEF Next

LEMMA InitCursors == Init => CursorInv
<1> SUFFICES ASSUME Init PROVE CursorInv
  OBVIOUS
<1>1. sent \in Seq({}) /\ Len(sent) = 0 /\ acked = 1
  BY DEF Init
<1>2. \A t \in Loops : loop[t].cursor = 1
  BY DEF Init, Unstarted
<1> QED
  BY <1>1, <1>2 DEF CursorInv, AckedWasHanded

(* With any number of messages and poll threads: the transport forgets an update only   *)
(* when it was put on the worker's queue, or had no text to put there.  Loops that were *)
(* told to stop and the ones that replaced them poll side by side, and a crash takes    *)
(* the cursors with it (channel_service._poll_loop, TelegramAdapter.poll).              *)
THEOREM NothingForgottenUnread == Spec => []AckedWasHanded
<1>1. Init => LoopAndQueue /\ CursorInv
  BY InitLoops, InitCursors
<1>2. LoopAndQueue /\ CursorInv /\ [Next]_vars => LoopAndQueue' /\ CursorInv'
  BY StepKeepsLoops, StepKeepsCursors
<1>3. CursorInv => AckedWasHanded
  BY DEF CursorInv
<1> QED
  BY <1>1, <1>2, <1>3, PTL DEF Spec
===============================================================================
