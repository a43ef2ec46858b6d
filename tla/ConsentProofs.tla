---------------------------- MODULE ConsentProofs ----------------------------
(***************************************************************************)
(* The safety properties of ConsentCore, for every set of tools and every  *)
(* value of the bounds; that ConsentSession, the core with the webview and *)
(* the pipes around it, takes no step the core alone could not take, so    *)
(* that every one of those properties holds of it too; and that an arming  *)
(* grant was given on one of its own request's cards.                      *)
(*                                                                         *)
(* The properties of the core are not inductive alone.  Three facts about  *)
(* the hand-over between the threads close the induction: a request is     *)
(* open exactly between OnPermissionRequest and its verdict; a waiter that *)
(* is answered is awake and one that says "allow" is the last word on its  *)
(* card; and the cards already shown and the tries left add up to the      *)
(* budget.  The proof for the session is introduced further down.          *)
(***************************************************************************)
EXTENDS ConsentSession, TLAPS

\* What ConsentCore says of each step, without its fairness: every proof below about
\* the core starts from this, and so does what ConsentSession is shown to implement.
CoreSteps == Init /\ [][Next]_vars

\* Fairness is not needed for any of them.
LEMMA SpecTakesCoreSteps == Spec => CoreSteps
BY PTL DEF Spec, CoreSteps

\* A request is open from OnPermissionRequest to its verdict, and only then.
OneRequestAtATime ==
  /\ pc \in {"register", "notify", "wait", "pop"} => ask.tool \in Tools
  /\ pc \in {"get", "lower", "job"} => ask = NoAsk

\* Answered and awake are the same; the worker leaves its wait only when awake; an
\* "allow" on a waiter is the last word on that waiter's card; and the card of the last
\* verdict is older than the one being asked about, so no later word is about it.
WaitersAgree ==
  /\ \A t \in waiters : entry[t].event = entry[t].answered
  /\ \A t \in waiters : entry[t].allow => entry[t].card \in allowed
  /\ pc = "pop" => entry[ask.tool].event
  /\ outcome.card <= cards
  /\ Asking => outcome.card < cards

\* Cards shown and tries left add up to the budget of the request.
Budget(a) == IF a.nonce # 0 THEN MaxAttempts ELSE 1

TriesAddUp ==
  /\ pc = "register" => /\ attemptsLeft > 0
                        /\ ask.first <= cards
                        /\ cards + attemptsLeft <= ask.first + Budget(ask)
  /\ Asking => /\ attemptsLeft > 0
               /\ ask.first <= cards
               /\ cards + attemptsLeft <= ask.first + Budget(ask) + 1

-----------------------------------------------------------------------------
\* A blank waiter is a waiter, and an answered or stopped one still is.
LEMMA WaiterForms ==
  /\ Blank \in Waiter
  /\ \A w \in Waiter, a \in BOOLEAN, n \in Nat :
       [w EXCEPT !.event = TRUE, !.answered = TRUE, !.allow = a, !.typed = n] \in Waiter
BY DEF Blank, Waiter

\* So is a blank waiter with a card on it.
LEMMA FreshWaiter ==
  ASSUME NEW n \in Nat
  PROVE  [Blank EXCEPT !.card = n] \in Waiter
BY DEF Blank, Waiter

\* So they are at the start.
LEMMA ShapeAtFirst == Init => TypeOK /\ OneRequestAtATime
<1> SUFFICES ASSUME Init PROVE TypeOK /\ OneRequestAtATime
  OBVIOUS
<1>1. asks \in 0..MaxAsks /\ attemptsLeft \in 0..MaxAttempts
  BY ConsentAssumption DEF Init
<1>2. entry \in [Tools -> Waiter]
  BY WaiterForms DEF Init
<1>3. ask \in [tool : Tools \cup {NoTool}, nonce : Nat, first : Nat]
  BY DEF Init, NoAsk
<1>4. outcome \in [verdict : Verdicts, card : Nat]
  BY DEF Init, Verdicts
<1>5. /\ queue \in Seq(Nat) /\ issued \in Nat /\ job \in Nat /\ nonces \in Nat
      /\ cards \in Nat /\ waiters \in SUBSET Tools /\ allowed \in SUBSET Nat
  BY DEF Init
<1>6. pc \in Locations /\ turnStopped \in BOOLEAN /\ stopSeen \in BOOLEAN
  BY DEF Init, Locations
<1>7. TypeOK
  BY <1>1, <1>2, <1>3, <1>4, <1>5, <1>6 DEF TypeOK
<1> QED
  BY <1>7 DEF Init, OneRequestAtATime

\* Every step of the core keeps the types and opens and closes a request with its pc.
LEMMA ShapeStep ==
  TypeOK /\ OneRequestAtATime /\ [Next]_vars => (TypeOK /\ OneRequestAtATime)'
<1> SUFFICES ASSUME TypeOK, OneRequestAtATime, [Next]_vars
             PROVE  TypeOK' /\ OneRequestAtATime'
  OBVIOUS
<1> USE DEF TypeOK, Locations, Verdicts
<1>1. CASE Enqueue
  BY <1>1 DEF Enqueue, workerVars, history, OneRequestAtATime
<1>2. ASSUME NEW t \in Tools, NEW allow \in BOOLEAN, NEW typed \in 0..nonces,
             PermissionRespond(t, allow, typed)
      PROVE  TypeOK' /\ OneRequestAtATime'
  <2>1. typed \in Nat /\ entry[t] \in Waiter
    OBVIOUS
  <2>2. entry' \in [Tools -> Waiter]
    BY <1>2, <2>1, WaiterForms DEF PermissionRespond
  <2>3. allowed' \in SUBSET Nat
    BY <1>2, <2>1 DEF PermissionRespond, LastWord, Waiter
  <2> QED
    BY <1>2, <2>2, <2>3 DEF PermissionRespond, workerVars, OneRequestAtATime
<1>3. CASE ConversationStop
  <2>1. entry' \in [Tools -> Waiter]
    BY <1>3, WaiterForms DEF ConversationStop
  <2> QED
    BY <1>3, <2>1 DEF ConversationStop, workerVars, OneRequestAtATime
<1>4. CASE QueueGet
  BY <1>4 DEF QueueGet, history, OneRequestAtATime
<1>5. CASE LowerStopFlag
  <2>1. asks' \in 0..MaxAsks
    BY <1>5, ConsentAssumption DEF LowerStopFlag
  <2> QED
    BY <1>5, <2>1 DEF LowerStopFlag, OneRequestAtATime
<1>6. CASE RefuseStopped
  <2>1. asks' \in 0..MaxAsks
    BY <1>6, ConsentAssumption DEF RefuseStopped
  <2> QED
    BY <1>6, <2>1 DEF RefuseStopped, history, OneRequestAtATime
<1>7. ASSUME NEW t \in Tools, NEW arming \in BOOLEAN, OnPermissionRequest(t, arming)
      PROVE  TypeOK' /\ OneRequestAtATime'
  <2>1. asks' \in 0..MaxAsks /\ attemptsLeft' \in 0..MaxAttempts
    BY <1>7, ConsentAssumption DEF OnPermissionRequest
  <2> QED
    BY <1>7, <2>1 DEF OnPermissionRequest, history, OneRequestAtATime
<1>8. CASE AskOnceStopped
  <2>1. attemptsLeft' \in 0..MaxAttempts
    BY <1>8, ConsentAssumption DEF AskOnceStopped, Verdict
  <2> QED
    BY <1>8, <2>1 DEF AskOnceStopped, Verdict, NoAsk, history, OneRequestAtATime
<1>9. CASE AskOnceRegister
  <2>0. cards + 1 \in Nat
    OBVIOUS
  <2>1. [Blank EXCEPT !.card = cards + 1] \in Waiter
    BY <2>0, FreshWaiter, Zenon
  <2>2. ask.tool \in Tools
    BY <1>9 DEF AskOnceRegister, OneRequestAtATime
  <2>3. entry' \in [Tools -> Waiter]
    BY <1>9, <2>1 DEF AskOnceRegister
  <2> QED
    BY <1>9, <2>2, <2>3 DEF AskOnceRegister, history, OneRequestAtATime
<1>10. CASE AskOnceNotify
  BY <1>10 DEF AskOnceNotify, history, OneRequestAtATime
<1>11. CASE AskOnceWake
  BY <1>11 DEF AskOnceWake, history, OneRequestAtATime
<1>12. CASE AskOncePop
  <2>1. ask.tool \in Tools /\ entry[ask.tool].card \in Nat
    BY <1>12 DEF AskOncePop, OneRequestAtATime, Waiter
  <2>2. entry' \in [Tools -> Waiter]
    BY <1>12, WaiterForms DEF AskOncePop
  <2>3. attemptsLeft' \in 0..MaxAttempts
    BY <1>12, ConsentAssumption DEF AskOncePop, Verdict
  <2>4. \/ ask' = ask /\ pc' = "register" /\ outcome' = outcome
        \/ /\ ask' = NoAsk /\ pc' = "job"
           /\ outcome' \in [verdict : Verdicts, card : Nat]
    BY <1>12, <2>1 DEF AskOncePop, Verdict
  <2>5. ask' \in [tool : Tools \cup {NoTool}, nonce : Nat, first : Nat]
    BY <2>4 DEF NoAsk
  <2> QED
    BY <1>12, <2>1, <2>2, <2>3, <2>4, <2>5 DEF AskOncePop, history, OneRequestAtATime
<1>13. CASE FinishJob
  BY <1>13 DEF FinishJob, OneRequestAtATime
<1>14. CASE UNCHANGED vars
  BY <1>14 DEF vars, workerVars, history, OneRequestAtATime
<1> QED
  BY <1>1, <1>2, <1>3, <1>4, <1>5, <1>6, <1>7, <1>8, <1>9, <1>10, <1>11, <1>12,
     <1>13, <1>14 DEF Next, WorkerStep, ReadLoopStep

\* The variables keep their types, and a request is open exactly while the worker is
\* between its start and its verdict.
LEMMA ShapeHolds == CoreSteps => [](TypeOK /\ OneRequestAtATime)
<1>1. Init => TypeOK /\ OneRequestAtATime
  BY ShapeAtFirst
<1>2. TypeOK /\ OneRequestAtATime /\ [Next]_vars => (TypeOK /\ OneRequestAtATime)'
  BY ShapeStep
<1> QED
  BY <1>1, <1>2, PTL DEF CoreSteps

\* The variables keep their types in every behaviour.
THEOREM TypeCorrect == Spec => []TypeOK
BY ShapeHolds, SpecTakesCoreSteps, PTL

-----------------------------------------------------------------------------
\* By cases on the step: _ask_once puts the key in and takes it out.
LEMMA TableStep ==
  TypeOK /\ OneRequestAtATime /\ TableIsTheWorkersAsk /\ [Next]_vars
        => TableIsTheWorkersAsk'
<1> USE DEF TableIsTheWorkersAsk, Asking
<1> SUFFICES ASSUME TypeOK, OneRequestAtATime, TableIsTheWorkersAsk, [Next]_vars
             PROVE  TableIsTheWorkersAsk'
  OBVIOUS
<1> entry \in [Tools -> Waiter]
  BY DEF TypeOK
<1>1. CASE Enqueue
  BY <1>1 DEF Enqueue, workerVars
<1>2. ASSUME NEW t \in Tools, NEW allow \in BOOLEAN, NEW typed \in 0..nonces,
             PermissionRespond(t, allow, typed)
      PROVE  TableIsTheWorkersAsk'
  BY <1>2 DEF PermissionRespond, workerVars, Waiter
<1>3. CASE ConversationStop
  BY <1>3 DEF ConversationStop, workerVars, OneRequestAtATime, Waiter
<1>4. CASE QueueGet
  BY <1>4 DEF QueueGet
<1>5. CASE LowerStopFlag
  BY <1>5 DEF LowerStopFlag
<1>6. CASE RefuseStopped
  BY <1>6 DEF RefuseStopped
<1>7. ASSUME NEW t \in Tools, NEW arming \in BOOLEAN, OnPermissionRequest(t, arming)
      PROVE  TableIsTheWorkersAsk'
  BY <1>7 DEF OnPermissionRequest
<1>8. CASE AskOnceStopped
  BY <1>8 DEF AskOnceStopped, Verdict
<1>9. CASE AskOnceRegister
  <2>1. entry'[ask.tool] = [Blank EXCEPT !.card = cards + 1]
    BY <1>9 DEF AskOnceRegister, OneRequestAtATime
  <2>2. entry'[ask.tool].card = cards + 1
    BY <2>1 DEF Blank
  <2> QED
    BY <1>9, <2>2 DEF AskOnceRegister
<1>10. CASE AskOnceNotify
  BY <1>10 DEF AskOnceNotify
<1>11. CASE AskOnceWake
  BY <1>11 DEF AskOnceWake
<1>12. CASE AskOncePop
  BY <1>12 DEF AskOncePop, Verdict
<1>13. CASE FinishJob
  BY <1>13 DEF FinishJob
<1>14. CASE UNCHANGED vars
  BY <1>14 DEF vars, workerVars
<1> QED
  BY <1>1, <1>2, <1>3, <1>4, <1>5, <1>6, <1>7, <1>8, <1>9, <1>10, <1>11, <1>12,
     <1>13, <1>14 DEF Next, WorkerStep, ReadLoopStep

\* The same, in every behaviour.
LEMMA TableHolds == CoreSteps => []TableIsTheWorkersAsk
<1> USE DEF TableIsTheWorkersAsk, Asking
<1>1. Init => TableIsTheWorkersAsk
  BY DEF Init
<1>2. TypeOK /\ OneRequestAtATime /\ TableIsTheWorkersAsk /\ [Next]_vars
        => TableIsTheWorkersAsk'
  BY TableStep
<1> QED
  BY <1>1, <1>2, ShapeHolds, PTL DEF CoreSteps

\* The table of waiters holds exactly the running request's waiter, with the newest
\* card (_ask_once puts it in and takes it out, and nothing else touches the keys).
THEOREM TableCorrect == Spec => []TableIsTheWorkersAsk
BY TableHolds, SpecTakesCoreSteps, PTL

-----------------------------------------------------------------------------
\* By cases on the step: only the next job lowers the flag or counts as another job.
LEMMA StopHolds == CoreSteps => []StopHoldsForTheJob
<1> USE DEF StopHoldsForTheJob, Asking
<1>1. Init => StopHoldsForTheJob
  BY DEF Init
<1>2. TypeOK /\ OneRequestAtATime /\ TableIsTheWorkersAsk /\ StopHoldsForTheJob
        /\ [Next]_vars => StopHoldsForTheJob'
  <2> SUFFICES ASSUME TypeOK, OneRequestAtATime, TableIsTheWorkersAsk,
                      StopHoldsForTheJob, [Next]_vars
               PROVE  StopHoldsForTheJob'
    OBVIOUS
  <2> entry \in [Tools -> Waiter]
    BY DEF TypeOK
  <2>1. CASE Enqueue
    BY <2>1 DEF Enqueue, workerVars, history
  <2>2. ASSUME NEW t \in Tools, NEW allow \in BOOLEAN, NEW typed \in 0..nonces,
               PermissionRespond(t, allow, typed)
        PROVE  StopHoldsForTheJob'
    BY <2>2 DEF PermissionRespond, workerVars, Waiter
  <2>3. CASE ConversationStop
    BY <2>3 DEF ConversationStop, workerVars, OneRequestAtATime, TableIsTheWorkersAsk,
                Waiter, TypeOK, Locations
  <2>4. CASE QueueGet
    BY <2>4 DEF QueueGet, history
  <2>5. CASE LowerStopFlag
    BY <2>5 DEF LowerStopFlag
  <2>6. CASE RefuseStopped
    BY <2>6 DEF RefuseStopped, history
  <2>7. ASSUME NEW t \in Tools, NEW arming \in BOOLEAN, OnPermissionRequest(t, arming)
        PROVE  StopHoldsForTheJob'
    BY <2>7 DEF OnPermissionRequest, history
  <2>8. CASE AskOnceStopped
    BY <2>8 DEF AskOnceStopped, Verdict, history
  <2>9. CASE AskOnceRegister
    BY <2>9 DEF AskOnceRegister, history
  <2>10. CASE AskOnceNotify
    BY <2>10 DEF AskOnceNotify, history
  <2>11. CASE AskOnceWake
    BY <2>11 DEF AskOnceWake, history
  <2>12. CASE AskOncePop
    BY <2>12 DEF AskOncePop, Verdict, history
  <2>13. CASE FinishJob
    BY <2>13 DEF FinishJob
  <2>14. CASE UNCHANGED vars
    BY <2>14 DEF vars, workerVars, history
  <2> QED
    BY <2>1, <2>2, <2>3, <2>4, <2>5, <2>6, <2>7, <2>8, <2>9, <2>10, <2>11, <2>12,
       <2>13, <2>14 DEF Next, WorkerStep, ReadLoopStep
<1> QED
  BY <1>1, <1>2, ShapeHolds, TableHolds, PTL DEF CoreSteps

\* A Stop handled while a job runs holds to the job's end: the flag stays up and no
\* card blocks the worker.
THEOREM StopCorrect == Spec => []StopHoldsForTheJob
BY StopHolds, SpecTakesCoreSteps, PTL

\* From the flag that is up when AskOnceRegister would read it.
LEMMA NoCardAfterStopHolds == CoreSteps => NoCardAfterStop
<1>1. StopHoldsForTheJob /\ [Next]_vars => [cards' # cards => ~stopSeen]_vars
  BY DEF StopHoldsForTheJob, vars, workerVars, history, Next, WorkerStep, ReadLoopStep,
         Enqueue, PermissionRespond, ConversationStop, QueueGet, LowerStopFlag,
         RefuseStopped, OnPermissionRequest, AskOnceStopped, AskOnceRegister,
         AskOnceNotify, AskOnceWake, AskOncePop, FinishJob, Verdict
<1> QED
  BY <1>1, StopHolds, PTL DEF CoreSteps, NoCardAfterStop

\* A stopped job composes no further card: AskOnceRegister, the one action that does,
\* reads the flag in the critical section that registers the waiter.
THEOREM NoCardAfterStopCorrect == Spec => NoCardAfterStop
BY NoCardAfterStopHolds, SpecTakesCoreSteps, PTL

-----------------------------------------------------------------------------
\* What the read loop writes on a waiter and what the worker reads off it agree.
LEMMA WaitersCorrect == CoreSteps => [](WaitersAgree /\ GrantWasAllowed)
<1> USE DEF WaitersAgree, GrantWasAllowed, Asking
<1>1. Init => WaitersAgree /\ GrantWasAllowed
  BY DEF Init
<1>2. TypeOK /\ OneRequestAtATime /\ TableIsTheWorkersAsk /\ WaitersAgree /\ GrantWasAllowed
        /\ [Next]_vars => (WaitersAgree /\ GrantWasAllowed)'
  <2> SUFFICES ASSUME TypeOK, OneRequestAtATime, TableIsTheWorkersAsk, WaitersAgree,
                      GrantWasAllowed, [Next]_vars
               PROVE  WaitersAgree' /\ GrantWasAllowed'
    OBVIOUS
  <2> /\ entry \in [Tools -> Waiter] /\ waiters \subseteq Tools
      /\ cards \in Nat /\ outcome.card \in Nat
    BY DEF TypeOK
  <2>1. CASE Enqueue
    BY <2>1 DEF Enqueue, workerVars, history
  <2>2. ASSUME NEW t \in Tools, NEW allow \in BOOLEAN, NEW typed \in 0..nonces,
               PermissionRespond(t, allow, typed)
        PROVE  WaitersAgree' /\ GrantWasAllowed'
    <3>1. /\ entry'[t].event = TRUE /\ entry'[t].answered = TRUE
          /\ entry'[t].allow = allow /\ entry'[t].card = entry[t].card
          /\ \A u \in Tools \ {t} : entry'[u] = entry[u]
      BY <2>2 DEF PermissionRespond, Waiter
    <3>2. /\ allowed' = IF allow THEN allowed \cup {cards} ELSE allowed \ {cards}
          /\ waiters = {t} /\ entry[t].card = cards /\ Asking /\ Asking' /\ cards' = cards
          /\ waiters' = waiters /\ pc' = pc /\ ask' = ask /\ outcome' = outcome
      BY <2>2 DEF PermissionRespond, LastWord, workerVars, TableIsTheWorkersAsk, Asking
    <3>3. pc' = "pop" => entry'[ask'.tool].event
      BY <3>1, <3>2 DEF OneRequestAtATime
    <3>4. outcome.card \in Nat /\ cards \in Nat /\ outcome.card # cards
      BY <3>2 DEF TypeOK
    <3> QED
      BY <3>1, <3>2, <3>3, <3>4
  <2>3. CASE ConversationStop
    <3>1. \A u \in waiters : /\ entry'[u].event = TRUE /\ entry'[u].answered = TRUE
                             /\ entry'[u].allow = FALSE
      BY <2>3 DEF ConversationStop, Waiter
    <3>2. pc' = "pop" => entry'[ask'.tool].event
      BY <2>3, <3>1 DEF ConversationStop, workerVars, TableIsTheWorkersAsk, Asking
    <3>3. /\ waiters' = waiters /\ outcome' = outcome /\ cards' = cards /\ pc' = pc
          /\ allowed' = allowed \ StoppedCards /\ Asking' = Asking
      BY <2>3 DEF ConversationStop, workerVars, Asking
    <3>4. outcome.card \notin StoppedCards
      BY DEF StoppedCards, TableIsTheWorkersAsk, TypeOK
    <3> QED
      BY <3>1, <3>2, <3>3, <3>4
  <2>4. CASE QueueGet
    BY <2>4 DEF QueueGet, history
  <2>5. CASE LowerStopFlag
    BY <2>5 DEF LowerStopFlag
  <2>6. CASE RefuseStopped
    BY <2>6 DEF RefuseStopped, history
  <2>7. ASSUME NEW t \in Tools, NEW arming \in BOOLEAN, OnPermissionRequest(t, arming)
        PROVE  WaitersAgree' /\ GrantWasAllowed'
    BY <2>7 DEF OnPermissionRequest, history
  <2>8. CASE AskOnceStopped
    BY <2>8 DEF AskOnceStopped, Verdict, history
  <2>9. CASE AskOnceRegister
    <3>1. entry'[ask.tool] = [Blank EXCEPT !.card = cards + 1]
      BY <2>9 DEF AskOnceRegister, OneRequestAtATime
    <3>2. /\ entry'[ask.tool].event = FALSE /\ entry'[ask.tool].answered = FALSE
          /\ entry'[ask.tool].allow = FALSE
      BY <3>1 DEF Blank
    <3>3. waiters' = {ask.tool} /\ pc' = "notify"
      BY <2>9 DEF AskOnceRegister, TableIsTheWorkersAsk, Asking
    <3>4. cards' = cards + 1 /\ outcome' = outcome /\ allowed' = allowed /\ ask' = ask
      BY <2>9 DEF AskOnceRegister, history
    <3>5. outcome'.card <= cards' /\ outcome'.card < cards'
      BY <3>4
    <3> QED
      BY <3>2, <3>3, <3>4, <3>5
  <2>10. CASE AskOnceNotify
    BY <2>10 DEF AskOnceNotify, history
  <2>11. CASE AskOnceWake
    BY <2>11 DEF AskOnceWake, history
  <2>12. CASE AskOncePop
    <3>1. ask.tool \in waiters /\ waiters' = {} /\ pc' # "pop" /\ allowed' = allowed
      BY <2>12 DEF AskOncePop, Verdict, history, TableIsTheWorkersAsk, Asking
    <3>2. \/ outcome' = outcome /\ pc' = "register"
          \/ outcome' = [verdict |-> "DENIED", card |-> entry[ask.tool].card]
          \/ /\ outcome' = [verdict |-> "GRANTED", card |-> entry[ask.tool].card]
             /\ entry[ask.tool].allow
      BY <2>12 DEF AskOncePop, Verdict
    <3>3. cards' = cards /\ entry[ask.tool].card = cards /\ ~Asking'
      BY <2>12 DEF AskOncePop, Verdict, TableIsTheWorkersAsk, Asking
    <3> QED
      BY <3>1, <3>2, <3>3 DEF TypeOK
  <2>13. CASE FinishJob
    BY <2>13 DEF FinishJob
  <2>14. CASE UNCHANGED vars
    BY <2>14 DEF vars, workerVars, history
  <2> QED
    BY <2>1, <2>2, <2>3, <2>4, <2>5, <2>6, <2>7, <2>8, <2>9, <2>10, <2>11, <2>12,
       <2>13, <2>14 DEF Next, WorkerStep, ReadLoopStep
<1> QED
  BY <1>1, <1>2, ShapeHolds, TableHolds, PTL DEF CoreSteps

\* A part of the lemma above.
LEMMA GrantHolds == CoreSteps => []GrantWasAllowed
BY WaitersCorrect, PTL

\* A grant handed to the gate was read from the waiter of the request it answers, and the
\* last word on that waiter's card, Stop's among them, was yes (_ask_once,
\* _handle_permission_respond, _handle_conversation_stop).
THEOREM GrantCorrect == Spec => []GrantWasAllowed
BY GrantHolds, SpecTakesCoreSteps, PTL

\* From the table, and from answered and awake being the same.
LEMMA PendingHolds == CoreSteps => []PendingIsTheOpenCard
<1>1. OneRequestAtATime /\ TableIsTheWorkersAsk /\ WaitersAgree /\ TypeOK
        => PendingIsTheOpenCard
  BY DEF OneRequestAtATime, TableIsTheWorkersAsk, WaitersAgree, PendingIsTheOpenCard,
         PendingCards, Asking, TypeOK, Locations
<1> QED
  BY <1>1, ShapeHolds, TableHolds, WaitersCorrect, PTL

\* permission.pending offers the card a blocked worker waits on, and no other.
THEOREM PendingCorrect == Spec => []PendingIsTheOpenCard
BY PendingHolds, SpecTakesCoreSteps, PTL

-----------------------------------------------------------------------------
\* The cards a request has shown and the tries it has left add up to its budget.
LEMMA TriesCorrect == CoreSteps => []TriesAddUp
<1> USE DEF TriesAddUp, Asking, Budget
<1>1. Init => TriesAddUp
  BY DEF Init
<1>2. TypeOK /\ OneRequestAtATime /\ TriesAddUp /\ [Next]_vars => TriesAddUp'
  <2> SUFFICES ASSUME TypeOK, OneRequestAtATime, TriesAddUp, [Next]_vars
               PROVE  TriesAddUp'
    OBVIOUS
  <2> /\ cards \in Nat /\ attemptsLeft \in Nat /\ nonces \in Nat
      /\ ask.first \in Nat /\ ask.nonce \in Nat /\ MaxAttempts \in Nat \ {0}
    BY ConsentAssumption DEF TypeOK
  <2>1. CASE Enqueue
    BY <2>1 DEF Enqueue, workerVars
  <2>2. ASSUME NEW t \in Tools, NEW allow \in BOOLEAN, NEW typed \in 0..nonces,
               PermissionRespond(t, allow, typed)
        PROVE  TriesAddUp'
    BY <2>2 DEF PermissionRespond, workerVars
  <2>3. CASE ConversationStop
    BY <2>3 DEF ConversationStop, workerVars
  <2>4. CASE QueueGet
    BY <2>4 DEF QueueGet
  <2>5. CASE LowerStopFlag
    BY <2>5 DEF LowerStopFlag
  <2>6. CASE RefuseStopped
    BY <2>6 DEF RefuseStopped
  <2>7. ASSUME NEW t \in Tools, NEW arming \in BOOLEAN, OnPermissionRequest(t, arming)
        PROVE  TriesAddUp'
    BY <2>7 DEF OnPermissionRequest
  <2>8. CASE AskOnceStopped
    BY <2>8 DEF AskOnceStopped, Verdict
  <2>9. CASE AskOnceRegister
    BY <2>9 DEF AskOnceRegister
  <2>10. CASE AskOnceNotify
    BY <2>10 DEF AskOnceNotify
  <2>11. CASE AskOnceWake
    BY <2>11 DEF AskOnceWake
  <2>12. CASE AskOncePop
    BY <2>12 DEF AskOncePop, Verdict
  <2>13. CASE FinishJob
    BY <2>13 DEF FinishJob
  <2>14. CASE UNCHANGED vars
    BY <2>14 DEF vars, workerVars
  <2> QED
    BY <2>1, <2>2, <2>3, <2>4, <2>5, <2>6, <2>7, <2>8, <2>9, <2>10, <2>11, <2>12,
       <2>13, <2>14 DEF Next, WorkerStep, ReadLoopStep
<1> QED
  BY <1>1, <1>2, ShapeHolds, PTL DEF CoreSteps

\* From the sum of cards and tries.
LEMMA BudgetHolds == CoreSteps => []CardBudget
<1>1. TypeOK /\ OneRequestAtATime /\ TriesAddUp => CardBudget
  <2> SUFFICES ASSUME TypeOK, OneRequestAtATime, TriesAddUp, ask # NoAsk
               PROVE  cards - ask.first <= Budget(ask)
    BY DEF CardBudget, Budget
  <2>1. pc = "register" \/ Asking
    BY DEF TypeOK, OneRequestAtATime, Locations, Asking
  <2>2. cards \in Nat /\ attemptsLeft \in Nat /\ ask.first \in Nat /\ Budget(ask) \in Nat
    BY ConsentAssumption DEF TypeOK, Budget
  <2> QED
    BY <2>1, <2>2 DEF TriesAddUp
<1> QED
  BY <1>1, ShapeHolds, TriesCorrect, PTL

\* A request shows at most MaxAttempts cards when it carries a code, and one when it
\* does not (_ask_with_keyword terminates).
THEOREM BudgetCorrect == Spec => []CardBudget
BY BudgetHolds, SpecTakesCoreSteps, PTL

-----------------------------------------------------------------------------
(* The session.  The core sees a tool id, a verdict and what was typed; it *)
(* never sees which card the person had in front of them.  What ties the   *)
(* two together is the code.  A code names one request, so whoever types   *)
(* the code of the request that is open now must have had one of that      *)
(* request's own cards on screen.  SessionInv says so of every place a     *)
(* code can be on its way: the frames in both pipes, the card on screen,   *)
(* and the answer stored on a waiter.                                      *)

\* The code n, carried with the card c, belongs to that card: it was minted, and when it
\* is the code of the request a, the card came after that request began.
MeantBy(n, c, a, minted) ==
  /\ n \in 0..minted
  /\ c \in Nat
  /\ n # 0 /\ n = a.nonce => c > a.first

Meant(n, c) == MeantBy(n, c, ask, nonces)

\* The request carries a minted code, and each of its cards is newer than itself.
FirstIsOlder ==
  /\ ask.nonce \in 0..nonces
  /\ pc = "register" => ask.first <= cards
  /\ Asking => ask.first < cards

Card == [card : Nat, tool : Tools \cup {NoTool}, nonce : Nat]

CoreFrame == [kind : {"job", "stop", "pending", "respond"}, about : Nat,
              tool : Tools \cup {NoTool}, allow : BOOLEAN,
              typed : Nat]

ViewFrame == [kind : {"card", "pending", "done"}, card : Card, job : Nat]

SessionTypes ==
  /\ toCore \in Seq(CoreFrame)
  /\ toView \in Seq(ViewFrame)
  /\ shown \in Card
  /\ pressedOn \in [Tools -> Nat]

\* Wherever a code is on its way, it belongs to the card it travels with.
CodesAreMeant ==
  /\ \A i \in 1..Len(toCore) : Meant(toCore[i].typed, toCore[i].about)
  /\ \A i \in 1..Len(toView) : Meant(toView[i].card.nonce, toView[i].card.card)
  /\ Meant(shown.nonce, shown.card)
  /\ \A t \in Tools : Meant(entry[t].typed, pressedOn[t])

CoreInv == TypeOK /\ OneRequestAtATime /\ TableIsTheWorkersAsk /\ FirstIsOlder

SessionInv == CoreInv /\ SessionTypes /\ CodesAreMeant

-----------------------------------------------------------------------------
\* Codes are minted and never taken back; the request left open (b) is the one that was
\* (a), one with no code, or one with a code minted in between.
AskFollows(a, minted, b, now) ==
  /\ minted <= now
  /\ b = a \/ b.nonce = 0 \/ b.nonce > minted

\* So it is over every step of the core.
LEMMA AskMoves ==
  ASSUME TypeOK, [Next]_vars
  PROVE  AskFollows(ask, nonces, ask', nonces')
<1> USE DEF AskFollows
<1> nonces \in Nat
  BY DEF TypeOK
<1>1. CASE \E t \in Tools, arming \in BOOLEAN : OnPermissionRequest(t, arming)
  BY <1>1 DEF OnPermissionRequest
<1>2. CASE AskOnceStopped \/ AskOncePop
  BY <1>2 DEF AskOnceStopped, AskOncePop, Verdict, NoAsk
<1>3. CASE UNCHANGED <<ask, nonces>>
  BY <1>3
<1> QED
  BY <1>1, <1>2, <1>3
     DEF Next, WorkerStep, ReadLoopStep, Enqueue, PermissionRespond, ConversationStop,
         QueueGet, LowerStopFlag, RefuseStopped, AskOnceRegister, AskOnceNotify,
         AskOnceWake, FinishJob, vars, workerVars

\* A code that belongs to a card goes on belonging to it.
LEMMA MeantStays ==
  ASSUME NEW a \in [tool : Tools \cup {NoTool}, nonce : Nat, first : Nat], NEW minted \in Nat,
         NEW b \in [tool : Tools \cup {NoTool}, nonce : Nat, first : Nat], NEW now \in Nat,
         AskFollows(a, minted, b, now),
         NEW n, NEW c, MeantBy(n, c, a, minted)
  PROVE  MeantBy(n, c, b, now)
BY DEF AskFollows, MeantBy

\* No code belongs to every card.
LEMMA NoCodeIsMeant ==
  ASSUME NEW a, NEW minted \in Nat, NEW c \in Nat
  PROVE  MeantBy(0, c, a, minted)
BY DEF MeantBy

\* A card is composed after its request begins, and a code is minted before it is asked for.
LEMMA FirstIsOlderStays ==
  ASSUME TypeOK, FirstIsOlder, [Next]_vars
  PROVE  FirstIsOlder'
<1> USE DEF FirstIsOlder, Asking
<1> /\ nonces \in Nat /\ cards \in Nat /\ ask.first \in Nat /\ ask.nonce \in Nat
  BY DEF TypeOK
<1>1. CASE \E t \in Tools, arming \in BOOLEAN : OnPermissionRequest(t, arming)
  BY <1>1 DEF OnPermissionRequest
<1>2. CASE AskOnceStopped
  BY <1>2 DEF AskOnceStopped, Verdict, NoAsk
<1>3. CASE AskOncePop
  <2>1. UNCHANGED <<cards, nonces>>
    BY <1>3 DEF AskOncePop
  <2>2. \/ ask' = ask /\ pc' = "register"
        \/ ask' = NoAsk /\ pc' = "job"
    BY <1>3 DEF AskOncePop, Verdict
  <2>3. pc = "pop"
    BY <1>3 DEF AskOncePop
  <2> QED
    BY <2>1, <2>2, <2>3 DEF NoAsk
<1>4. CASE AskOnceRegister
  BY <1>4 DEF AskOnceRegister
<1>5. CASE Enqueue
  BY <1>5 DEF Enqueue, workerVars
<1>6. CASE ConversationStop
  BY <1>6 DEF ConversationStop, workerVars
<1>7. ASSUME NEW t \in Tools, NEW allow \in BOOLEAN, NEW typed \in 0..nonces,
             PermissionRespond(t, allow, typed)
      PROVE  FirstIsOlder'
  BY <1>7 DEF PermissionRespond, workerVars
<1>8. CASE QueueGet
  BY <1>8 DEF QueueGet
<1>9. CASE LowerStopFlag
  BY <1>9 DEF LowerStopFlag
<1>10. CASE RefuseStopped
  BY <1>10 DEF RefuseStopped
<1>11. CASE AskOnceNotify
  BY <1>11 DEF AskOnceNotify
<1>12. CASE AskOnceWake
  BY <1>12 DEF AskOnceWake
<1>13. CASE FinishJob
  BY <1>13 DEF FinishJob
<1>14. CASE UNCHANGED vars
  BY <1>14 DEF vars, workerVars
<1> QED
  BY <1>1, <1>2, <1>3, <1>4, <1>5, <1>6, <1>7, <1>8, <1>9, <1>10, <1>11, <1>12,
     <1>13, <1>14 DEF Next, WorkerStep, ReadLoopStep

\* What the core keeps by itself.
LEMMA CoreInvStep == CoreInv /\ [Next]_vars => CoreInv'
BY ShapeStep, TableStep, FirstIsOlderStays DEF CoreInv

-----------------------------------------------------------------------------
\* What a pipe holds after its oldest frame is taken off, and after one is put on.
LEMMA TakenOff ==
  ASSUME NEW S, NEW s \in Seq(S), s # <<>>
  PROVE  /\ Tail(s) \in Seq(S)
         /\ 1 \in 1..Len(s) /\ Head(s) = s[1] /\ Head(s) \in S
         /\ \A i \in 1..Len(Tail(s)) : i + 1 \in 1..Len(s) /\ Tail(s)[i] = s[i + 1]
OBVIOUS

LEMMA PutOn ==
  ASSUME NEW S, NEW s \in Seq(S), NEW e \in S
  PROVE  /\ Append(s, e) \in Seq(S)
         /\ \A i \in 1..Len(Append(s, e)) :
              \/ i \in 1..Len(s) /\ Append(s, e)[i] = s[i]
              \/ Append(s, e)[i] = e
OBVIOUS

\* Frames keep the code and the card they left with, so a pipe the core does not add to
\* stays meant whatever the core does to its own request.
LEMMA PipesStay ==
  ASSUME SessionInv, TypeOK', [Next]_vars
  PROVE  /\ \A i \in 1..Len(toCore) : MeantBy(toCore[i].typed, toCore[i].about, ask', nonces')
         /\ \A i \in 1..Len(toView) :
              MeantBy(toView[i].card.nonce, toView[i].card.card, ask', nonces')
         /\ MeantBy(shown.nonce, shown.card, ask', nonces')
         /\ \A t \in Tools : MeantBy(entry[t].typed, pressedOn[t], ask', nonces')
<1>1. AskFollows(ask, nonces, ask', nonces')
  BY AskMoves DEF SessionInv, CoreInv
<1>2. /\ ask \in [tool : Tools \cup {NoTool}, nonce : Nat, first : Nat]
      /\ ask' \in [tool : Tools \cup {NoTool}, nonce : Nat, first : Nat]
      /\ nonces \in Nat /\ nonces' \in Nat
  BY DEF SessionInv, CoreInv, TypeOK
<1>3. \A n, c : MeantBy(n, c, ask, nonces) => MeantBy(n, c, ask', nonces')
  BY <1>1, <1>2, MeantStays
<1> QED
  BY <1>3 DEF SessionInv, CodesAreMeant, Meant

\* A step of the person, the webview or the pipes: the core stands still.
LEMMA ViewStep ==
  ASSUME SessionInv, UNCHANGED <<vars, pressedOn>>,
         toCore' \in Seq(CoreFrame), toView' \in Seq(ViewFrame), shown' \in Card,
         \A i \in 1..Len(toCore') : Meant(toCore'[i].typed, toCore'[i].about),
         \A i \in 1..Len(toView') : Meant(toView'[i].card.nonce, toView'[i].card.card),
         Meant(shown'.nonce, shown'.card)
  PROVE  SessionInv'
<1>1. CoreInv'
  BY CoreInvStep DEF SessionInv
<1>2. UNCHANGED <<ask, nonces, entry>>
  BY DEF vars, workerVars
<1>3. SessionTypes'
  BY DEF SessionInv, SessionTypes
<1>4. CodesAreMeant'
  BY <1>2 DEF SessionInv, CodesAreMeant, Meant
<1> QED
  BY <1>1, <1>3, <1>4 DEF SessionInv

\* A step of the core: the screen stands still, the core takes one frame at most and
\* says something at most once, and every code on a waiter belongs to a card.
LEMMA CoreStep ==
  ASSUME SessionInv, [Next]_vars, shown' = shown,
         toCore' = toCore \/ (toCore # <<>> /\ toCore' = Tail(toCore)),
         \/ toView' = toView
         \/ \E f \in ViewFrame : /\ toView' = Append(toView, f)
                                 /\ MeantBy(f.card.nonce, f.card.card, ask', nonces'),
         pressedOn' \in [Tools -> Nat],
         \A t \in Tools : MeantBy(entry'[t].typed, pressedOn'[t], ask', nonces')
  PROVE  SessionInv'
<1>1. CoreInv'
  BY CoreInvStep DEF SessionInv
<1>2. /\ \A i \in 1..Len(toCore) : MeantBy(toCore[i].typed, toCore[i].about, ask', nonces')
      /\ \A i \in 1..Len(toView) :
           MeantBy(toView[i].card.nonce, toView[i].card.card, ask', nonces')
      /\ MeantBy(shown.nonce, shown.card, ask', nonces')
  BY <1>1, PipesStay DEF CoreInv
<1>3. /\ toCore \in Seq(CoreFrame) /\ toView \in Seq(ViewFrame) /\ shown \in Card
  BY DEF SessionInv, SessionTypes
<1>4. /\ toCore' \in Seq(CoreFrame)
      /\ \A i \in 1..Len(toCore') : MeantBy(toCore'[i].typed, toCore'[i].about, ask', nonces')
  <2>1. CASE toCore' = toCore
    BY <2>1, <1>2, <1>3
  <2>2. CASE toCore # <<>> /\ toCore' = Tail(toCore)
    <3>1. /\ Tail(toCore) \in Seq(CoreFrame)
          /\ \A i \in 1..Len(Tail(toCore)) :
               i + 1 \in 1..Len(toCore) /\ Tail(toCore)[i] = toCore[i + 1]
      BY <2>2, <1>3, TakenOff
    <3> QED
      BY <3>1, <2>2, <1>2
  <2> QED
    BY <2>1, <2>2
<1>5. /\ toView' \in Seq(ViewFrame)
      /\ \A i \in 1..Len(toView') :
           MeantBy(toView'[i].card.nonce, toView'[i].card.card, ask', nonces')
  <2>1. CASE toView' = toView
    BY <2>1, <1>2, <1>3
  <2>2. ASSUME NEW f \in ViewFrame, toView' = Append(toView, f),
               MeantBy(f.card.nonce, f.card.card, ask', nonces')
        PROVE  /\ toView' \in Seq(ViewFrame)
               /\ \A i \in 1..Len(toView') :
                    MeantBy(toView'[i].card.nonce, toView'[i].card.card, ask', nonces')
    <3>1. /\ Append(toView, f) \in Seq(ViewFrame)
          /\ \A i \in 1..Len(Append(toView, f)) :
               \/ i \in 1..Len(toView) /\ Append(toView, f)[i] = toView[i]
               \/ Append(toView, f)[i] = f
      BY <1>3, PutOn
    <3> QED
      BY <3>1, <2>2, <1>2
  <2> QED
    BY <2>1, <2>2
<1>6. SessionTypes' /\ CodesAreMeant'
  BY <1>2, <1>3, <1>4, <1>5 DEF SessionTypes, CodesAreMeant, Meant
<1> QED
  BY <1>1, <1>6 DEF SessionInv

-----------------------------------------------------------------------------
\* The frames that carry no code, and the card that is no card.
LEMMA PlainFrames ==
  /\ \A k \in {"job", "stop", "pending"} : /\ Frame(k) \in CoreFrame
                       /\ Frame(k).typed = 0 /\ Frame(k).about = 0
  /\ NoCard \in Card /\ NoCard.nonce = 0 /\ NoCard.card = 0
BY DEF Frame, CoreFrame, NoCard, Card

\* The webview sends a frame whose code belongs to its card.
LEMMA SendStep ==
  ASSUME SessionInv, UNCHANGED <<vars, pressedOn, toView>>, NEW f \in CoreFrame,
         Meant(f.typed, f.about), Send(f), shown' = shown \/ shown' = NoCard
  PROVE  SessionInv'
<1>0. /\ toCore \in Seq(CoreFrame) /\ toView \in Seq(ViewFrame) /\ shown \in Card
      /\ nonces \in Nat
  BY DEF SessionInv, CoreInv, TypeOK, SessionTypes
<1>1. /\ \A i \in 1..Len(toCore) : Meant(toCore[i].typed, toCore[i].about)
      /\ \A i \in 1..Len(toView) : Meant(toView[i].card.nonce, toView[i].card.card)
      /\ Meant(shown.nonce, shown.card)
  BY DEF SessionInv, CodesAreMeant
<1>2. toCore' = Append(toCore, f)
  BY DEF Send
<1>3. /\ Append(toCore, f) \in Seq(CoreFrame)
      /\ \A i \in 1..Len(Append(toCore, f)) :
           \/ i \in 1..Len(toCore) /\ Append(toCore, f)[i] = toCore[i]
           \/ Append(toCore, f)[i] = f
  BY <1>0, PutOn
<1>4. Meant(0, 0)
  BY <1>0, NoCodeIsMeant DEF Meant
<1>5. shown' \in Card /\ Meant(shown'.nonce, shown'.card)
  BY <1>0, <1>1, <1>4, PlainFrames
<1>6. /\ toCore' \in Seq(CoreFrame)
      /\ \A i \in 1..Len(toCore') : Meant(toCore'[i].typed, toCore'[i].about)
  BY <1>1, <1>2, <1>3
<1>7. /\ toView' \in Seq(ViewFrame)
      /\ \A i \in 1..Len(toView') : Meant(toView'[i].card.nonce, toView'[i].card.card)
  BY <1>0, <1>1
<1> QED
  BY <1>5, <1>6, <1>7, ViewStep

\* A frame reaches the webview, or is lost, and may put its card on screen.
LEMMA DeliverStep ==
  ASSUME SessionInv, UNCHANGED <<vars, pressedOn, toCore>>, toView # <<>>,
         toView' = Tail(toView), shown' = shown \/ shown' = Head(toView).card
  PROVE  SessionInv'
<1>0. /\ toCore \in Seq(CoreFrame) /\ toView \in Seq(ViewFrame) /\ shown \in Card
  BY DEF SessionInv, SessionTypes
<1>1. /\ \A i \in 1..Len(toCore) : Meant(toCore[i].typed, toCore[i].about)
      /\ \A i \in 1..Len(toView) : Meant(toView[i].card.nonce, toView[i].card.card)
      /\ Meant(shown.nonce, shown.card)
  BY DEF SessionInv, CodesAreMeant
<1>2. /\ Tail(toView) \in Seq(ViewFrame)
      /\ 1 \in 1..Len(toView) /\ Head(toView) = toView[1] /\ Head(toView) \in ViewFrame
      /\ \A i \in 1..Len(Tail(toView)) :
           i + 1 \in 1..Len(toView) /\ Tail(toView)[i] = toView[i + 1]
  BY <1>0, TakenOff
<1>3. shown' \in Card /\ Meant(shown'.nonce, shown'.card)
  BY <1>0, <1>1, <1>2 DEF ViewFrame
<1>4. /\ toView' \in Seq(ViewFrame)
      /\ \A i \in 1..Len(toView') : Meant(toView'[i].card.nonce, toView'[i].card.card)
  BY <1>1, <1>2
<1>5. /\ toCore' \in Seq(CoreFrame)
      /\ \A i \in 1..Len(toCore') : Meant(toCore'[i].typed, toCore'[i].about)
  BY <1>0, <1>1
<1> QED
  BY <1>3, <1>4, <1>5, ViewStep

\* The person, the watchdog and the pipes.
LEMMA OutsideStep ==
  ASSUME SessionInv, Person \/ PollTick \/ Deliver
  PROVE  SessionInv' /\ UNCHANGED vars
<1>0. nonces \in Nat /\ Meant(0, 0)
  BY NoCodeIsMeant DEF SessionInv, CoreInv, TypeOK, Meant
<1>1. CASE PressSend \/ PressRun \/ PressStop \/ PollTick
  <2>1. PICK k \in {"job", "stop", "pending"} : Send(Frame(k))
    BY <1>1 DEF PressSend, PressRun, PressStop, PollTick
  <2>2. UNCHANGED <<vars, pressedOn, toView>> /\ (shown' = shown \/ shown' = NoCard)
    BY <1>1 DEF PressSend, PressRun, PressStop, PollTick
  <2>3. Frame(k) \in CoreFrame /\ Meant(Frame(k).typed, Frame(k).about)
    BY <1>0, <2>1, PlainFrames
  <2> QED
    BY <2>1, <2>2, <2>3, SendStep
<1>2. ASSUME NEW allow \in BOOLEAN, PressAnswer(allow)
      PROVE  SessionInv' /\ UNCHANGED vars
  <2>0. shown \in Card /\ Meant(shown.nonce, shown.card)
    BY DEF SessionInv, SessionTypes, CodesAreMeant
  <2>1. PICK typed \in {0, shown.nonce} :
          Send([kind |-> "respond", about |-> shown.card, tool |-> shown.tool,
                allow |-> allow, typed |-> typed])
    BY <1>2 DEF PressAnswer
  <2>2. PICK f : f = [kind |-> "respond", about |-> shown.card, tool |-> shown.tool,
                      allow |-> allow, typed |-> typed]
    OBVIOUS
  <2>3. UNCHANGED <<vars, pressedOn, toView>> /\ shown' = NoCard
    BY <1>2 DEF PressAnswer
  <2>4. f \in CoreFrame /\ f.typed = typed /\ f.about = shown.card
    <3>1. /\ shown.card \in Nat /\ shown.tool \in Tools \cup {NoTool} /\ typed \in Nat
      BY <2>0, <2>1 DEF Card
    <3> QED
      BY <1>2, <2>2, <3>1 DEF CoreFrame
  <2>5. Meant(typed, shown.card)
    <3>1. CASE typed = 0
      BY <3>1, <1>0, <2>0, NoCodeIsMeant DEF Meant, Card
    <3> QED
      BY <3>1, <2>0
  <2> QED
    BY <2>1, <2>2, <2>3, <2>4, <2>5, SendStep
<1>3. CASE Deliver
  <2>1. /\ UNCHANGED <<vars, pressedOn, toCore>> /\ toView # <<>>
        /\ toView' = Tail(toView) /\ (shown' = shown \/ shown' = Head(toView).card)
    BY <1>3 DEF Deliver, ReceiveCard, LoseCard, ReceivePending, ReceiveDone, Show, viewVars
  <2> QED
    BY <2>1, DeliverStep
<1> QED
  BY <1>1, <1>2, <1>3 DEF Person

-----------------------------------------------------------------------------
\* The card of the open request carries its code, and is newer than the request.
LEMMA OpenCardIsMeant ==
  ASSUME SessionInv, NEW t \in waiters
  PROVE  OpenCard(t) \in Card /\ Meant(OpenCard(t).nonce, OpenCard(t).card)
<1>1. Asking /\ t = ask.tool /\ entry[t].card = cards
  BY DEF SessionInv, CoreInv, TableIsTheWorkersAsk
<1>2. /\ cards \in Nat /\ ask.nonce \in 0..nonces /\ nonces \in Nat /\ t \in Tools
      /\ ask.first < cards
  BY <1>1 DEF SessionInv, CoreInv, TypeOK, FirstIsOlder
<1>3. /\ OpenCard(t) \in Card
      /\ OpenCard(t).nonce = ask.nonce /\ OpenCard(t).card = cards
  BY <1>1, <1>2 DEF OpenCard, Card
<1> QED
  BY <1>2, <1>3 DEF Meant, MeantBy

\* An answer is taken for a card and stored with the code it came with.
LEMMA RespondStep ==
  ASSUME SessionInv, HandleRespond
  PROVE  SessionInv' /\ [Next]_vars
<1>0. /\ toCore \in Seq(CoreFrame) /\ toCore # <<>> /\ toCore' = Tail(toCore)
      /\ shown' = shown /\ toView' = toView /\ pressedOn \in [Tools -> Nat]
      /\ TypeOK /\ CoreInv
  BY DEF HandleRespond, TakeFrame, viewVars, SessionInv, SessionTypes, CoreInv
<1>1. PICK f : f = Head(toCore)
  OBVIOUS
<1>2. f \in CoreFrame /\ Meant(f.typed, f.about)
  <2>1. 1 \in 1..Len(toCore) /\ f = toCore[1] /\ f \in CoreFrame
    BY <1>0, <1>1, TakenOff
  <2> QED
    BY <2>1 DEF SessionInv, CodesAreMeant
<1>3. CASE UNCHANGED <<vars, pressedOn>>
  <2>1. [Next]_vars /\ TypeOK'
    BY <1>0, <1>3, CoreInvStep DEF CoreInv
  <2>2. \A t \in Tools : MeantBy(entry'[t].typed, pressedOn'[t], ask', nonces')
    BY <2>1, <1>3, PipesStay DEF vars
  <2>3. pressedOn' \in [Tools -> Nat]
    BY <1>0, <1>3
  <2> QED
    BY <1>0, <2>1, <2>2, <2>3, CoreStep
<1>4. CASE /\ PermissionRespond(f.tool, f.allow, f.typed)
           /\ pressedOn' = [pressedOn EXCEPT ![f.tool] = f.about]
  <2>1. f.tool \in Tools /\ f.allow \in BOOLEAN /\ f.typed \in 0..nonces /\ f.about \in Nat
    BY <1>0, <1>2, <1>4 DEF PermissionRespond, TypeOK, CoreFrame, Meant, MeantBy
  <2>2. Next
    BY <1>4, <2>1 DEF Next, ReadLoopStep
  <2>3. TypeOK' /\ ask' = ask /\ nonces' = nonces
    BY <1>0, <1>4, <2>2, CoreInvStep DEF CoreInv, PermissionRespond, workerVars
  <2>4. \A t \in Tools : MeantBy(entry[t].typed, pressedOn[t], ask', nonces')
    BY <2>2, <2>3, PipesStay
  <2>5. \A t \in Tools :
          \/ t = f.tool /\ entry'[t].typed = f.typed /\ pressedOn'[t] = f.about
          \/ entry'[t] = entry[t] /\ pressedOn'[t] = pressedOn[t]
    BY <1>0, <1>4, <2>1 DEF PermissionRespond, TypeOK, Waiter
  <2>6. \A t \in Tools : MeantBy(entry'[t].typed, pressedOn'[t], ask', nonces')
    BY <1>2, <2>3, <2>4, <2>5 DEF Meant
  <2>7. pressedOn' \in [Tools -> Nat]
    BY <1>0, <1>4, <2>1
  <2> QED
    BY <1>0, <2>2, <2>6, <2>7, CoreStep
<1> QED
  BY <1>1, <1>3, <1>4 DEF HandleRespond

\* Stop stores an answer with no code, and remembers it was given on no card.
LEMMA StopStep ==
  ASSUME SessionInv, HandleStop
  PROVE  SessionInv' /\ [Next]_vars
<1>0. /\ toCore # <<>> /\ toCore' = Tail(toCore)
      /\ shown' = shown /\ toView' = toView /\ pressedOn \in [Tools -> Nat]
      /\ TypeOK /\ CoreInv /\ ConversationStop
  BY DEF HandleStop, TakeFrame, viewVars, SessionInv, SessionTypes, CoreInv
<1>1. Next
  BY <1>0 DEF Next, ReadLoopStep
<1>2. TypeOK' /\ ask' = ask /\ nonces' = nonces /\ nonces \in Nat
  BY <1>0, <1>1, CoreInvStep DEF CoreInv, ConversationStop, workerVars, TypeOK
<1>3. \A t \in Tools : MeantBy(entry[t].typed, pressedOn[t], ask', nonces')
  BY <1>1, <1>2, PipesStay
<1>4. \A t \in Tools :
        \/ entry'[t].typed = 0 /\ pressedOn'[t] = 0
        \/ entry'[t] = entry[t] /\ pressedOn'[t] = pressedOn[t]
  BY <1>0 DEF HandleStop, ConversationStop, TypeOK, Waiter
<1>5. MeantBy(0, 0, ask', nonces')
  BY <1>2, NoCodeIsMeant
<1>6. \A t \in Tools : MeantBy(entry'[t].typed, pressedOn'[t], ask', nonces')
  BY <1>3, <1>4, <1>5
<1>7. pressedOn' \in [Tools -> Nat]
  BY <1>0 DEF HandleStop
<1> QED
  BY <1>0, <1>1, <1>6, <1>7, CoreStep

\* A frame is queued, or the poll is answered with the open card or with none.
LEMMA QuietStep ==
  ASSUME SessionInv, HandleJob \/ HandlePending
  PROVE  SessionInv' /\ [Next]_vars
<1>0. /\ toCore # <<>> /\ toCore' = Tail(toCore)
      /\ shown' = shown /\ pressedOn' = pressedOn /\ pressedOn \in [Tools -> Nat]
      /\ TypeOK /\ CoreInv
  BY DEF HandleJob, HandlePending, TakeFrame, viewVars, SessionInv, SessionTypes, CoreInv
<1>1. [Next]_vars
  BY DEF HandleJob, HandlePending, Next, ReadLoopStep
<1>2. TypeOK' /\ UNCHANGED <<ask, nonces, entry>> /\ nonces \in Nat
  BY <1>0, <1>1, CoreInvStep
     DEF CoreInv, TypeOK, HandleJob, HandlePending, Enqueue, vars, workerVars
<1>3. \A t \in Tools : MeantBy(entry'[t].typed, pressedOn'[t], ask', nonces')
  BY <1>0, <1>1, <1>2, PipesStay
<1>4. \/ toView' = toView
      \/ \E f \in ViewFrame : /\ toView' = Append(toView, f)
                              /\ MeantBy(f.card.nonce, f.card.card, ask', nonces')
  <2>1. CASE HandleJob
    BY <2>1 DEF HandleJob
  <2>2. ASSUME NEW t \in waiters, Tell("pending", OpenCard(t), 0)
        PROVE  \E f \in ViewFrame : /\ toView' = Append(toView, f)
                                    /\ MeantBy(f.card.nonce, f.card.card, ask', nonces')
    <3>1. PICK c : c = OpenCard(t)
      OBVIOUS
    <3>2. c \in Card /\ MeantBy(c.nonce, c.card, ask', nonces')
      BY <3>1, <1>2, OpenCardIsMeant DEF Meant
    <3>3. PICK f : f = [kind |-> "pending", card |-> c, job |-> 0]
      OBVIOUS
    <3>4. f \in ViewFrame /\ f.card = c /\ toView' = Append(toView, f)
      BY <2>2, <3>1, <3>2, <3>3 DEF ViewFrame, Tell
    <3> QED
      BY <3>2, <3>4
  <2>3. CASE Tell("pending", NoCard, 0)
    <3>1. PICK f : f = [kind |-> "pending", card |-> NoCard, job |-> 0]
      OBVIOUS
    <3>2. f \in ViewFrame /\ f.card = NoCard /\ toView' = Append(toView, f)
      BY <2>3, <3>1, PlainFrames DEF ViewFrame, Tell
    <3>3. MeantBy(0, 0, ask', nonces')
      BY <1>2, NoCodeIsMeant
    <3> QED
      BY <3>2, <3>3, PlainFrames
  <2> QED
    BY <2>1, <2>2, <2>3 DEF HandlePending
<1>5. pressedOn' \in [Tools -> Nat]
  BY <1>0
<1> QED
  BY <1>0, <1>1, <1>3, <1>4, <1>5, CoreStep

\* The worker shows the open card, or reports its job done.
LEMMA TellStep ==
  ASSUME SessionInv, Notify \/ Finish
  PROVE  SessionInv' /\ [Next]_vars
<1>0. /\ toCore' = toCore
      /\ shown' = shown /\ pressedOn' = pressedOn /\ pressedOn \in [Tools -> Nat]
      /\ TypeOK /\ CoreInv
  BY DEF Notify, Finish, viewVars, SessionInv, SessionTypes, CoreInv
<1>1. Next
  BY DEF Notify, Finish, Next, WorkerStep
<1>2. TypeOK' /\ UNCHANGED <<ask, nonces, entry>> /\ nonces \in Nat
  BY <1>0, <1>1, CoreInvStep
     DEF CoreInv, TypeOK, Notify, Finish, AskOnceNotify, FinishJob
<1>3. \A t \in Tools : MeantBy(entry'[t].typed, pressedOn'[t], ask', nonces')
  BY <1>0, <1>1, <1>2, PipesStay
<1>4. \E f \in ViewFrame : /\ toView' = Append(toView, f)
                           /\ MeantBy(f.card.nonce, f.card.card, ask', nonces')
  <2>1. CASE Notify
    <3>0. ask.tool \in waiters
      BY <2>1, <1>0 DEF Notify, AskOnceNotify, CoreInv, TableIsTheWorkersAsk, Asking
    <3>1. PICK c : c = OpenCard(ask.tool)
      OBVIOUS
    <3>2. c \in Card /\ MeantBy(c.nonce, c.card, ask', nonces')
      BY <3>0, <3>1, <1>2, OpenCardIsMeant DEF Meant
    <3>3. PICK f : f = [kind |-> "card", card |-> c, job |-> 0]
      OBVIOUS
    <3>4. f \in ViewFrame /\ f.card = c /\ toView' = Append(toView, f)
      BY <2>1, <3>1, <3>2, <3>3 DEF ViewFrame, Tell, Notify
    <3> QED
      BY <3>2, <3>4
  <2>2. CASE Finish
    <3>1. PICK f : f = [kind |-> "done", card |-> NoCard, job |-> job]
      OBVIOUS
    <3>2. f \in ViewFrame /\ f.card = NoCard /\ toView' = Append(toView, f)
      BY <2>2, <1>0, <3>1, PlainFrames DEF ViewFrame, Tell, Finish, TypeOK
    <3>3. MeantBy(0, 0, ask', nonces')
      BY <1>2, NoCodeIsMeant
    <3> QED
      BY <3>2, <3>3, PlainFrames
  <2> QED
    BY <2>1, <2>2
<1>5. pressedOn' \in [Tools -> Nat]
  BY <1>0
<1> QED
  BY <1>0, <1>1, <1>3, <1>4, <1>5, CoreStep

\* The worker's other steps: a waiter it puts in the table or takes out has no answer.
LEMMA SilentStep ==
  ASSUME SessionInv, Silent
  PROVE  SessionInv' /\ [Next]_vars
<1>0. /\ UNCHANGED <<toCore, toView, shown, pressedOn>> /\ pressedOn \in [Tools -> Nat]
      /\ TypeOK /\ CoreInv
  BY DEF Silent, sessionVars, viewVars, SessionInv, SessionTypes, CoreInv
<1>1. Next
  BY DEF Silent, Next, WorkerStep
<1>2. TypeOK' /\ nonces' \in Nat
  BY <1>0, <1>1, CoreInvStep DEF CoreInv, TypeOK
<1>3. \A t \in Tools : MeantBy(entry[t].typed, pressedOn[t], ask', nonces')
  BY <1>1, <1>2, PipesStay
<1>4. \A t \in Tools : entry'[t] = entry[t] \/ entry'[t].typed = 0
  BY <1>0 DEF Silent, TypeOK, QueueGet, LowerStopFlag, RefuseStopped, OnPermissionRequest,
              AskOnceStopped, AskOnceRegister, AskOnceWake, AskOncePop, Blank
<1>5. \A t \in Tools : MeantBy(entry'[t].typed, pressedOn'[t], ask', nonces')
  BY <1>0, <1>2, <1>3, <1>4, NoCodeIsMeant
<1>6. pressedOn' \in [Tools -> Nat]
  BY <1>0
<1> QED
  BY <1>0, <1>1, <1>5, <1>6, CoreStep

-----------------------------------------------------------------------------
\* Nothing is on its way at the start.
LEMMA SessionAtFirst == SessionInit => SessionInv
<1> SUFFICES ASSUME SessionInit PROVE SessionInv
  OBVIOUS
<1>1. CoreInv
  BY ShapeAtFirst DEF SessionInit, CoreInv, Init, TableIsTheWorkersAsk, FirstIsOlder, Asking,
                      NoAsk
<1>2. SessionTypes
  BY PlainFrames DEF SessionInit, SessionTypes
<1>3. \A c \in Nat : Meant(0, c)
  BY NoCodeIsMeant DEF Meant, SessionInit, Init
<1>4. \A t \in Tools : entry[t].typed = 0 /\ pressedOn[t] = 0
  BY DEF SessionInit, Init, Blank
<1>5. CodesAreMeant
  BY <1>3, <1>4, PlainFrames DEF SessionInit, CodesAreMeant
<1> QED
  BY <1>1, <1>2, <1>5 DEF SessionInv

\* A step of the session is a step of the core or leaves the core alone.
LEMMA SessionStep == SessionInv /\ [SessionNext]_allVars => SessionInv' /\ [Next]_vars
<1> SUFFICES ASSUME SessionInv, [SessionNext]_allVars PROVE SessionInv' /\ [Next]_vars
  OBVIOUS
<1>1. CASE Person \/ PollTick \/ Deliver
  BY <1>1, OutsideStep
<1>2. CASE ReadLoop
  BY <1>2, QuietStep, StopStep, RespondStep DEF ReadLoop
<1>3. CASE Worker
  BY <1>3, TellStep, SilentStep DEF Worker
<1>4. CASE UNCHANGED allVars
  <2>1. /\ UNCHANGED <<vars, pressedOn, toCore, toView, shown>>
    BY <1>4 DEF allVars, sessionVars, viewVars
  <2>2. /\ toCore' \in Seq(CoreFrame) /\ toView' \in Seq(ViewFrame) /\ shown' \in Card
        /\ \A i \in 1..Len(toCore') : Meant(toCore'[i].typed, toCore'[i].about)
        /\ \A i \in 1..Len(toView') : Meant(toView'[i].card.nonce, toView'[i].card.card)
        /\ Meant(shown'.nonce, shown'.card)
    BY <2>1 DEF SessionInv, SessionTypes, CodesAreMeant
  <2> QED
    BY <2>1, <2>2, ViewStep
<1> QED
  BY <1>1, <1>2, <1>3, <1>4 DEF SessionNext

\* The induction over the steps.
LEMMA SessionInvHolds == SessionSpec => []SessionInv
BY SessionAtFirst, SessionStep, PTL DEF SessionSpec

\* The webview, the pipes and the person around it never make the core do what it could
\* not do alone: every step of the session is a step of the core or a stutter of it.  The
\* answers the webview sends are ones ConsentCore allows for, codes and all.
THEOREM SessionImplementsCore == SessionSpec => CoreSteps
<1>1. SessionInit => Init
  BY DEF SessionInit
<1> QED
  BY <1>1, SessionInvHolds, SessionStep, PTL DEF SessionSpec, CoreSteps

\* So what is proved of the core's steps holds of the session: the table, the open card,
\* Stop, the budget of a request, and where a grant comes from.
THEOREM SessionIsSafe ==
  SessionSpec => /\ []TableIsTheWorkersAsk
                 /\ []PendingIsTheOpenCard
                 /\ []StopHoldsForTheJob
                 /\ []CardBudget
                 /\ []GrantWasAllowed
                 /\ NoCardAfterStop
BY SessionImplementsCore, TableHolds, PendingHolds, StopHolds, BudgetHolds, GrantHolds,
   NoCardAfterStopHolds, PTL

\* An arming request is granted only by an answer given on one of its own cards: the code
\* typed is this request's, so the person had a card of this request in front of them
\* (main.py, _ask_with_keyword), however many answers to older cards were on the way.
THEOREM ArmingIsConsentedTo == SessionSpec => ArmingGrantIsItsOwn
<1>1. SessionInv /\ [SessionNext]_allVars =>
        [(pc = "pop" /\ outcome' # outcome /\ outcome'.verdict = "GRANTED" /\ ask.nonce # 0)
           => pressedOn[ask.tool] > ask.first]_allVars
  <2> SUFFICES ASSUME SessionInv, [Next]_vars, pc = "pop", outcome' # outcome,
                      outcome'.verdict = "GRANTED", ask.nonce # 0
               PROVE  pressedOn[ask.tool] > ask.first
    BY SessionStep
  <2>1. AskOncePop
    BY DEF Next, WorkerStep, ReadLoopStep, Enqueue, PermissionRespond, ConversationStop,
           QueueGet, LowerStopFlag, FinishJob, RefuseStopped, OnPermissionRequest,
           AskOnceStopped, AskOnceRegister, AskOnceNotify, AskOnceWake, vars, workerVars
  <2>2. outcome' = [verdict |-> "DENIED", card |-> entry[ask.tool].card]
          \/ CodeMatches(entry[ask.tool])
    BY <2>1 DEF AskOncePop, Verdict
  <2>3. entry[ask.tool].typed = ask.nonce
    BY <2>2 DEF CodeMatches
  <2>4. ask.tool \in Tools
    BY DEF SessionInv, CoreInv, OneRequestAtATime
  <2>5. Meant(entry[ask.tool].typed, pressedOn[ask.tool])
    BY <2>4 DEF SessionInv, CodesAreMeant
  <2> QED
    BY <2>3, <2>5 DEF Meant, MeantBy
<1> QED
  BY <1>1, SessionInvHolds, PTL DEF SessionSpec, ArmingGrantIsItsOwn
===============================================================================
