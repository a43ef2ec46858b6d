----------------------------- MODULE ConsentCore -----------------------------
(***************************************************************************)
(* The consent round-trip inside the Agent Core (agent_core/main.py).      *)
(*                                                                         *)
(* Two threads share a job queue, a stop flag and the table of permission  *)
(* waiters:                                                                *)
(*   - the WORKER takes one job at a time, lowers the stop flag, and while *)
(*     it runs the job may ask the person for permission, blocking on an   *)
(*     event until an answer arrives;                                      *)
(*   - the READ LOOP handles inbound frames one at a time: it enqueues     *)
(*     jobs, and answers permission.respond and conversation.stop inline.  *)
(*                                                                         *)
(* Every critical section under _perm_lock is one action.  What the person *)
(* and the webview do is left open: any frame may arrive at any time.      *)
(***************************************************************************)
EXTENDS Naturals, Sequences

CONSTANTS
  Tools,        \* tool ids a job may ask about
  MaxAttempts,  \* automation_nonce.MAX_ATTEMPTS
  MaxAsks,      \* bound: permission requests one job makes
  MaxJobs       \* bound: jobs enqueued in a behaviour

NoTool == "no tool"

ASSUME ConsentAssumption ==
  /\ NoTool \notin Tools
  /\ MaxAttempts \in Nat \ {0}
  /\ MaxAsks \in Nat
  /\ MaxJobs \in Nat

VARIABLES
  queue,        \* jobs waiting for the worker, oldest first
  issued,       \* how many jobs were ever enqueued; job n is the n-th
  pc,           \* where the worker is
  job,          \* the job the worker last took, 0 before the first
  asks,         \* permission requests the running job has made
  ask,          \* the request the worker is in: its tool, and its code if arming
  attemptsLeft, \* tries left on the request's code
  nonces,       \* codes minted so far; the n-th minted code is the number n
  turnStopped,  \* _turn_stopped
  waiters,      \* keys of _permission_waiters
  entry,        \* the waiter kept under each key
  cards,        \* cards composed so far; the n-th card is the number n
  outcome,      \* the last verdict handed to the gate, and the card it came from
  stopSeen,     \* history: a Stop was handled while the running job was running
  allowed       \* history: cards the last word on which was yes; Stop's word is no

workerVars == <<pc, job, asks, ask, attemptsLeft, nonces>>
history == <<stopSeen, allowed>>
vars == <<queue, issued, workerVars, turnStopped, waiters, entry, cards,
          outcome, history>>

Locations == {"get", "lower", "job", "register", "notify", "wait", "pop"}
Verdicts  == {"NONE", "GRANTED", "DENIED"}

\* A waiter: whether its event is set, the answer stored on it, and its card.
\* `typed` is what the person typed: 0 when it is no minted code at all.
Waiter == [event : BOOLEAN, answered : BOOLEAN, allow : BOOLEAN,
           typed : Nat, card : Nat]

Blank == [event |-> FALSE, answered |-> FALSE, allow |-> FALSE,
          typed |-> 0, card |-> 0]

\* A request: its tool, its code (0 for an ordinary card), and how many cards
\* had been composed before it.
NoAsk == [tool |-> NoTool, nonce |-> 0, first |-> 0]

-----------------------------------------------------------------------------
Init ==
  /\ queue = <<>>
  /\ issued = 0
  /\ pc = "get"
  /\ job = 0
  /\ asks = 0
  /\ ask = NoAsk
  /\ attemptsLeft = 0
  /\ nonces = 0
  /\ turnStopped = FALSE
  /\ waiters = {}
  /\ entry = [t \in Tools |-> Blank]
  /\ cards = 0
  /\ outcome = [verdict |-> "NONE", card |-> 0]
  /\ stopSeen = FALSE
  /\ allowed = {}

-----------------------------------------------------------------------------
(* The read loop.                                                          *)

\* A worker-routed method: the frame becomes a job at the end of the queue.
Enqueue ==
  /\ issued < MaxJobs
  /\ issued' = issued + 1
  /\ queue' = Append(queue, issued + 1)
  /\ UNCHANGED <<workerVars, turnStopped, waiters, entry, cards, outcome, history>>

\* History: what was last said of the card of t.
LastWord(t, allow) ==
  allowed' = IF allow THEN allowed \cup {entry[t].card} ELSE allowed \ {entry[t].card}

StoppedCards == {entry[t].card : t \in waiters}

\* Slips a change to this code could make.  Each is checked to break the property
\* that guards against it; none is part of the specification.

\* The event is set and the waiter is not marked answered.
RespondUnmarked(t, allow, typed) ==
  /\ t \in waiters
  /\ entry' = [entry EXCEPT ![t] = [@ EXCEPT !.event = TRUE, !.allow = allow,
                                             !.typed = typed]]
  /\ LastWord(t, allow)
  /\ UNCHANGED <<queue, issued, workerVars, turnStopped, waiters, cards, outcome,
                 stopSeen>>

\* Stop raises the flag and leaves the waiters blocked.
StopWithoutWaking ==
  /\ turnStopped' = TRUE
  /\ stopSeen' = (stopSeen \/ pc \notin {"get", "lower"})
  /\ UNCHANGED <<queue, issued, workerVars, waiters, entry, cards, outcome, allowed>>

\* Stop refuses only the cards nobody has answered yet.
StopKeepsTheAnswer ==
  /\ turnStopped' = TRUE
  /\ entry' = [t \in Tools |->
                IF t \in waiters /\ ~entry[t].answered
                THEN [entry[t] EXCEPT !.event = TRUE, !.answered = TRUE]
                ELSE entry[t]]
  /\ stopSeen' = (stopSeen \/ pc \notin {"get", "lower"})
  /\ allowed' = allowed \ StoppedCards
  /\ UNCHANGED <<queue, issued, workerVars, waiters, cards, outcome>>

\* permission.respond for a tool somebody is waiting on: the answer is stored
\* on the waiter, over whatever was there, and the worker is woken.
PermissionRespond(t, allow, typed) ==
  /\ t \in waiters
  /\ entry' = [entry EXCEPT ![t] = [@ EXCEPT !.event = TRUE, !.answered = TRUE,
                                             !.allow = allow, !.typed = typed]]
  /\ LastWord(t, allow)
  /\ UNCHANGED <<queue, issued, workerVars, turnStopped, waiters, cards, outcome,
                 stopSeen>>

\* conversation.stop: raise the flag, refuse and wake every waiter.
ConversationStop ==
  /\ turnStopped' = TRUE
  /\ entry' = [t \in Tools |->
                IF t \in waiters
                THEN [entry[t] EXCEPT !.event = TRUE, !.answered = TRUE,
                                      !.allow = FALSE, !.typed = 0]
                ELSE entry[t]]
  /\ stopSeen' = (stopSeen \/ pc \notin {"get", "lower"})
  /\ allowed' = allowed \ StoppedCards
  /\ UNCHANGED <<queue, issued, workerVars, waiters, cards, outcome>>

\* permission.pending: the card of an unanswered waiter, 0 when there is none.
PendingCards == {entry[t].card : t \in {u \in waiters : ~entry[u].answered}}

-----------------------------------------------------------------------------
(* The worker.                                                             *)

\* queue.get() hands the worker the oldest job.
QueueGet ==
  /\ pc = "get"
  /\ queue # <<>>
  /\ job' = Head(queue)
  /\ queue' = Tail(queue)
  /\ pc' = "lower"
  /\ UNCHANGED <<issued, asks, ask, attemptsLeft, nonces, turnStopped, waiters,
                 entry, cards, outcome, history>>

\* "A new job is a new turn's worth of consent": the flag comes down.
LowerStopFlag ==
  /\ pc = "lower"
  /\ turnStopped' = FALSE
  /\ stopSeen' = FALSE
  /\ asks' = 0
  /\ pc' = "job"
  /\ UNCHANGED <<queue, issued, job, ask, attemptsLeft, nonces, waiters, entry,
                 cards, outcome, allowed>>

\* _on_permission_request on a stopped turn: denied, nobody is asked.
RefuseStopped ==
  /\ pc = "job"
  /\ asks < MaxAsks
  /\ turnStopped
  /\ asks' = asks + 1
  /\ outcome' = [verdict |-> "DENIED", card |-> 0]
  /\ UNCHANGED <<queue, issued, pc, job, ask, attemptsLeft, nonces, turnStopped,
                 waiters, entry, cards, history>>

\* One code for the whole session instead of one per request.
RequestReusingTheCode(t, arming) ==
  /\ pc = "job"
  /\ asks < MaxAsks
  /\ ~turnStopped
  /\ asks' = asks + 1
  /\ nonces' = IF arming THEN 1 ELSE nonces
  /\ ask' = [tool |-> t, nonce |-> IF arming THEN 1 ELSE 0, first |-> cards]
  /\ attemptsLeft' = IF arming THEN MaxAttempts ELSE 1
  /\ pc' = "register"
  /\ UNCHANGED <<queue, issued, job, turnStopped, waiters, entry, cards, outcome,
                 history>>

\* _on_permission_request otherwise: one card, or for an arming request a fresh
\* code and up to MaxAttempts cards.
OnPermissionRequest(t, arming) ==
  /\ pc = "job"
  /\ asks < MaxAsks
  /\ ~turnStopped
  /\ asks' = asks + 1
  /\ nonces' = IF arming THEN nonces + 1 ELSE nonces
  /\ ask' = [tool |-> t, nonce |-> IF arming THEN nonces + 1 ELSE 0,
             first |-> cards]
  /\ attemptsLeft' = IF arming THEN MaxAttempts ELSE 1
  /\ pc' = "register"
  /\ UNCHANGED <<queue, issued, job, turnStopped, waiters, entry, cards, outcome,
                 history>>

\* The request is over: its verdict goes back to the gate.
Verdict(v, card) ==
  /\ outcome' = [verdict |-> v, card |-> card]
  /\ ask' = NoAsk
  /\ attemptsLeft' = 0
  /\ pc' = "job"

\* _ask_once, first critical section, when Stop got there first.
AskOnceStopped ==
  /\ pc = "register"
  /\ turnStopped
  /\ Verdict("DENIED", 0)
  /\ UNCHANGED <<queue, issued, job, asks, nonces, turnStopped, waiters, entry,
                 cards, history>>

\* _ask_once, first critical section: the waiter goes into the table.
AskOnceRegister ==
  /\ pc = "register"
  /\ ~turnStopped
  /\ cards' = cards + 1
  /\ waiters' = waiters \cup {ask.tool}
  /\ entry' = [entry EXCEPT ![ask.tool] = [Blank EXCEPT !.card = cards + 1]]
  /\ pc' = "notify"
  /\ UNCHANGED <<queue, issued, job, asks, ask, attemptsLeft, nonces, turnStopped,
                 outcome, history>>

\* The permission.requestGrant notification, emitted after the lock is released.
AskOnceNotify ==
  /\ pc = "notify"
  /\ pc' = "wait"
  /\ UNCHANGED <<queue, issued, job, asks, ask, attemptsLeft, nonces, turnStopped,
                 waiters, entry, cards, outcome, history>>

\* event.wait() returns; the second critical section has not been entered yet.
AskOnceWake ==
  /\ pc = "wait"
  /\ entry[ask.tool].event
  /\ pc' = "pop"
  /\ UNCHANGED <<queue, issued, job, asks, ask, attemptsLeft, nonces, turnStopped,
                 waiters, entry, cards, outcome, history>>

\* automation_nonce.matches: an ordinary request has no code to match.
CodeMatches(w) == ask.nonce = 0 \/ w.typed = ask.nonce

\* Being woken is taken for being allowed.
PopReadsWakeAsConsent ==
  /\ pc = "pop"
  /\ waiters' = waiters \ {ask.tool}
  /\ entry' = [entry EXCEPT ![ask.tool] = Blank]
  /\ Verdict("GRANTED", entry[ask.tool].card)
  /\ UNCHANGED <<queue, issued, job, asks, nonces, turnStopped, cards, history>>

\* _ask_once, second critical section: the waiter leaves the table and its
\* answer is read.  A wrong code with tries left asks again on the same code.
AskOncePop ==
  /\ pc = "pop"
  /\ waiters' = waiters \ {ask.tool}
  /\ entry' = [entry EXCEPT ![ask.tool] = Blank]
  /\ LET w == entry[ask.tool] IN
       \/ /\ ~w.allow
          /\ Verdict("DENIED", w.card)
       \/ /\ w.allow
          /\ CodeMatches(w)
          /\ Verdict("GRANTED", w.card)
       \/ /\ w.allow
          /\ ~CodeMatches(w)
          /\ attemptsLeft > 1
          /\ attemptsLeft' = attemptsLeft - 1
          /\ pc' = "register"
          /\ UNCHANGED <<ask, outcome>>
       \/ /\ w.allow
          /\ ~CodeMatches(w)
          /\ attemptsLeft <= 1
          /\ Verdict("DENIED", w.card)
  /\ UNCHANGED <<queue, issued, job, asks, nonces, turnStopped, cards, history>>

\* The job answers its frame, or fails, and the worker goes back to the queue.
FinishJob ==
  /\ pc = "job"
  /\ pc' = "get"
  /\ stopSeen' = FALSE
  /\ UNCHANGED <<queue, issued, job, asks, ask, attemptsLeft, nonces, turnStopped,
                 waiters, entry, cards, outcome, allowed>>

-----------------------------------------------------------------------------
WorkerStep ==
  \/ QueueGet \/ LowerStopFlag \/ FinishJob
  \/ RefuseStopped
  \/ \E t \in Tools, arming \in BOOLEAN : OnPermissionRequest(t, arming)
  \/ AskOnceStopped \/ AskOnceRegister \/ AskOnceNotify \/ AskOnceWake \/ AskOncePop

ReadLoopStep ==
  \/ Enqueue
  \/ \E t \in Tools, allow \in BOOLEAN, typed \in 0..nonces :
        PermissionRespond(t, allow, typed)
  \/ ConversationStop

Next == WorkerStep \/ ReadLoopStep

\* The worker thread is scheduled for ever and a job makes finitely many
\* requests; nothing is assumed of the person, who may never answer.
Spec == Init /\ [][Next]_vars /\ WF_vars(WorkerStep)

-----------------------------------------------------------------------------
(* Properties.                                                             *)

Asking == pc \in {"notify", "wait", "pop"}

\* The variables have their types.
TypeOK ==
  /\ queue \in Seq(Nat)
  /\ issued \in Nat
  /\ pc \in Locations
  /\ job \in Nat
  /\ asks \in 0..MaxAsks
  /\ ask \in [tool : Tools \cup {NoTool}, nonce : Nat, first : Nat]
  /\ attemptsLeft \in 0..MaxAttempts
  /\ nonces \in Nat
  /\ turnStopped \in BOOLEAN
  /\ waiters \in SUBSET Tools
  /\ entry \in [Tools -> Waiter]
  /\ cards \in Nat
  /\ outcome \in [verdict : Verdicts, card : Nat]
  /\ stopSeen \in BOOLEAN
  /\ allowed \in SUBSET Nat

\* The table holds exactly the waiter the worker is in, under its own tool id and
\* with the newest card: no request leaves a waiter behind, and permission.pending
\* offers that card or nothing, so "newest" and "only" are the same answer.
TableIsTheWorkersAsk ==
  /\ waiters = IF Asking THEN {ask.tool} ELSE {}
  /\ Asking => entry[ask.tool].card = cards

\* permission.pending never misses the card a blocked worker is waiting on and
\* never offers one that was answered or stopped.
PendingIsTheOpenCard ==
  /\ pc = "wait" /\ ~entry[ask.tool].event => PendingCards = {cards}
  /\ PendingCards # {} => pc \in {"notify", "wait"}

\* Stop is for the rest of the job: once it was handled while a job runs, the flag
\* stays up and the worker is not blocked on any card (main.py, _ask_once: "there is
\* no ordering in which one is emitted and nothing answers it").
StopHoldsForTheJob ==
  stopSeen => /\ pc \notin {"get", "lower"}
              /\ turnStopped
              /\ Asking => entry[ask.tool].event

\* A stopped job composes no further card, whatever requests it still makes.
NoCardAfterStop == [][cards' # cards => ~stopSeen]_vars

\* A request shows at most MaxAttempts cards when it carries a code and one card
\* when it does not (main.py, _ask_with_keyword: "IT TERMINATES").
CardBudget ==
  ask # NoAsk => cards - ask.first <= IF ask.nonce # 0 THEN MaxAttempts ELSE 1

\* A grant comes from the very waiter the verdict was read from, and the last word on
\* its card was yes: a wake-up, a fresh waiter's default or an answer Stop overruled
\* never reads as consent.  Which word was the last is another matter: see StopDenies.
GrantWasAllowed == outcome.verdict = "GRANTED" => outcome.card \in allowed

\* What the code says of a stopped turn, and does not keep.  Once Stop was handled "the
\* blocked worker gets DENIED and its tool never runs", and a late answer "finds no
\* waiter" (main.py, _handle_conversation_stop).  The waiter stays in the table until the
\* worker pops it, so an answer handled in between replaces Stop's refusal.
StopDenies == [][stopSeen /\ pc = "pop" /\ pc' = "job" => outcome'.verdict = "DENIED"]_vars

\* Stop frees the worker with no further input from the person: the job it was
\* handled in runs to its end.
StopReleasesTheWorker == stopSeen ~> (pc = "get")

=============================================================================
