--------------------------- MODULE ConsentSession ---------------------------
(***************************************************************************)
(* The consent round-trip end to end: the Agent Core of ConsentCore, the   *)
(* webview in front of it (shell/src/hooks/useTurn.ts, App.tsx and         *)
(* usePendingConsentResync.ts), and the two pipes between them.            *)
(*                                                                         *)
(* Frames travel in order in each direction and cross on the way.  A       *)
(* permission.requestGrant notification may find no subscriber and vanish; *)
(* a reply may not.  The webview here is the honest one: it answers a card *)
(* once, and only a card it is showing.                                    *)
(***************************************************************************)
EXTENDS ConsentCore

CONSTANTS
  MaxPipe,   \* bound: frames in one pipe
  MaxLost    \* bound: card notifications lost in a behaviour

ASSUME SessionAssumption == MaxPipe \in Nat \ {0} /\ MaxLost \in Nat

VARIABLES
  toCore,    \* frames the webview sent, oldest first
  toView,    \* frames the core sent, oldest first
  sent,      \* jobs the webview asked for; the n-th is job n
  runs,      \* those of them that are routine or widget runs, not chat turns
  turn,      \* currentTurnRef and isWorking: the turn on screen, 0 for none
  shown,     \* permission: the card on screen
  expired,   \* permissionExpired
  poll,      \* the resync poll: idle, live, or cancelled while in flight
  lost,      \* card notifications lost so far
  pressedOn  \* history: the card the person was looking at when they gave the
             \* answer now stored under a tool id, 0 when Stop gave it

viewVars    == <<sent, runs, turn, shown, expired, poll>>
sessionVars == <<toCore, toView, viewVars, lost, pressedOn>>
allVars     == <<vars, sessionVars>>

NoCard == [card |-> 0, tool |-> NoTool, nonce |-> 0]

\* Frames toward the core.  `about` is the card an answer was given on; the core never
\* gets to see it.
Frame(kind) ==
  [kind |-> kind, about |-> 0, tool |-> NoTool, allow |-> FALSE, typed |-> 0]

Send(frame) ==
  /\ Len(toCore) < MaxPipe
  /\ toCore' = Append(toCore, frame)

\* Frames toward the webview: a card, the reply to a poll, a job's response.
Tell(kind, card, n) ==
  toView' = Append(toView, [kind |-> kind, card |-> card, job |-> n])

HasRoom == Len(toView) < MaxPipe

SessionInit ==
  /\ Init
  /\ toCore = <<>> /\ toView = <<>>
  /\ sent = 0 /\ runs = {} /\ turn = 0
  /\ shown = NoCard /\ expired = FALSE
  /\ poll = "idle" /\ lost = 0
  /\ pressedOn = [t \in Tools |-> 0]

\* usePendingConsentResync's effect is torn down: a reply in flight is ignored.
Cancelled == IF poll = "live" THEN "cancelled" ELSE poll

-----------------------------------------------------------------------------
(* The person and the webview.                                             *)

\* runTurn: the composer offers Send only when no turn is working.
PressSend ==
  /\ turn = 0
  /\ sent < MaxJobs
  /\ sent' = sent + 1
  /\ turn' = sent + 1
  /\ shown' = NoCard
  /\ expired' = FALSE
  /\ Send(Frame("job"))
  /\ UNCHANGED <<vars, toView, runs, poll, lost, pressedOn>>

\* executeRun: a routine or a widget is run from its own row, turn or no turn.
PressRun ==
  /\ sent < MaxJobs
  /\ sent' = sent + 1
  /\ runs' = runs \cup {sent + 1}
  /\ Send(Frame("job"))
  /\ UNCHANGED <<vars, toView, turn, shown, expired, poll, lost, pressedOn>>

\* handleStop: the card on screen goes inert, the turn is abandoned.
PressStop ==
  /\ turn # 0
  /\ turn' = 0
  /\ expired' = (expired \/ shown # NoCard)
  /\ poll' = Cancelled
  /\ Send(Frame("stop"))
  /\ UNCHANGED <<vars, toView, sent, runs, shown, lost, pressedOn>>

\* handleRespondPermission: the card leaves the screen and its answer is sent.
\* On a card with a code the person may type it, or mistype it.
PressAnswer(allow) ==
  /\ shown # NoCard
  /\ ~expired
  /\ shown' = NoCard
  /\ \E typed \in {0, shown.nonce} :
       Send([kind |-> "respond", about |-> shown.card, tool |-> shown.tool,
             allow |-> allow, typed |-> typed])
  /\ UNCHANGED <<vars, toView, sent, runs, turn, expired, poll, lost, pressedOn>>

\* The resync watchdog's tick: a working turn and no card on screen.
PollTick ==
  /\ turn # 0
  /\ shown = NoCard
  /\ poll = "idle"
  /\ poll' = "live"
  /\ Send(Frame("pending"))
  /\ UNCHANGED <<vars, toView, sent, runs, turn, shown, expired, lost, pressedOn>>

\* setPermission(card): the expired flag never outlives the card it described.
Show(card) == shown' = card /\ expired' = FALSE

ReceiveCard ==
  /\ toView # <<>>
  /\ Head(toView).kind = "card"
  /\ toView' = Tail(toView)
  /\ Show(Head(toView).card)
  /\ poll' = Cancelled
  /\ UNCHANGED <<vars, toCore, sent, runs, turn, lost, pressedOn>>

\* A notification that arrives with no subscriber is dropped.
LoseCard ==
  /\ lost < MaxLost
  /\ toView # <<>>
  /\ Head(toView).kind = "card"
  /\ toView' = Tail(toView)
  /\ lost' = lost + 1
  /\ UNCHANGED <<vars, toCore, viewVars, pressedOn>>

\* The reply to a poll: the card the core is waiting on, if the poll still counts.
ReceivePending ==
  /\ toView # <<>>
  /\ Head(toView).kind = "pending"
  /\ toView' = Tail(toView)
  /\ IF poll = "live" /\ Head(toView).card # NoCard
     THEN Show(Head(toView).card)
     ELSE UNCHANGED <<shown, expired>>
  /\ poll' = "idle"
  /\ UNCHANGED <<vars, toCore, sent, runs, turn, lost, pressedOn>>

\* A job's response settles the turn on screen; an abandoned turn's is dropped.
ReceiveDone ==
  /\ toView # <<>>
  /\ Head(toView).kind = "done"
  /\ toView' = Tail(toView)
  /\ IF turn = Head(toView).job
     THEN turn' = 0 /\ poll' = Cancelled
     ELSE UNCHANGED <<turn, poll>>
  /\ UNCHANGED <<vars, toCore, sent, runs, shown, expired, lost, pressedOn>>

-----------------------------------------------------------------------------
(* The core's read loop: one frame at a time, in order.                    *)

TakeFrame(kind) ==
  /\ toCore # <<>>
  /\ Head(toCore).kind = kind
  /\ toCore' = Tail(toCore)

HandleJob ==
  /\ TakeFrame("job")
  /\ Enqueue
  /\ UNCHANGED <<toView, viewVars, lost, pressedOn>>

HandleStop ==
  /\ TakeFrame("stop")
  /\ ConversationStop
  /\ pressedOn' = [t \in Tools |-> IF t \in waiters THEN 0 ELSE pressedOn[t]]
  /\ UNCHANGED <<toView, viewVars, lost>>

\* The answer is stored under its tool id, or there is no waiter to store it on.
HandleRespond ==
  /\ TakeFrame("respond")
  /\ LET f == Head(toCore) IN
       \/ /\ PermissionRespond(f.tool, f.allow, f.typed)
          /\ pressedOn' = [pressedOn EXCEPT ![f.tool] = f.about]
       \/ /\ f.tool \notin waiters
          /\ UNCHANGED <<vars, pressedOn>>
  /\ UNCHANGED <<toView, viewVars, lost>>

\* The code the open card carries belongs to the request the worker is in.
OpenCard(t) == [card |-> entry[t].card, tool |-> t, nonce |-> ask.nonce]

\* The poll is answered by the worker instead, behind the turn it asks about.
PendingBehindTheTurn ==
  /\ TakeFrame("pending")
  /\ HasRoom
  /\ pc = "get"
  /\ Tell("pending", NoCard, 0)
  /\ UNCHANGED <<vars, viewVars, lost, pressedOn>>

HandlePending ==
  /\ TakeFrame("pending")
  /\ HasRoom
  /\ \/ \E t \in waiters : /\ entry[t].card \in PendingCards
                           /\ Tell("pending", OpenCard(t), 0)
     \/ PendingCards = {} /\ Tell("pending", NoCard, 0)
  /\ UNCHANGED <<vars, viewVars, lost, pressedOn>>

-----------------------------------------------------------------------------
(* The core's worker.                                                      *)

Notify ==
  /\ HasRoom
  /\ AskOnceNotify
  /\ Tell("card", OpenCard(ask.tool), 0)
  /\ UNCHANGED <<toCore, viewVars, lost, pressedOn>>

Finish ==
  /\ HasRoom
  /\ FinishJob
  /\ Tell("done", NoCard, job)
  /\ UNCHANGED <<toCore, viewVars, lost, pressedOn>>

Silent ==
  /\ \/ QueueGet \/ LowerStopFlag \/ RefuseStopped
     \/ \E t \in Tools, arming \in BOOLEAN : OnPermissionRequest(t, arming)
     \/ AskOnceStopped \/ AskOnceRegister \/ AskOnceWake \/ AskOncePop
  /\ UNCHANGED sessionVars

-----------------------------------------------------------------------------
Deliver  == ReceiveCard \/ LoseCard \/ ReceivePending \/ ReceiveDone
ReadLoop == HandleJob \/ HandleStop \/ HandleRespond \/ HandlePending
Worker   == Notify \/ Finish \/ Silent
Person   == PressSend \/ PressRun \/ PressStop \/ (\E allow \in BOOLEAN : PressAnswer(allow))

SessionNext == Person \/ PollTick \/ Deliver \/ ReadLoop \/ Worker

\* Both threads of the core run, both pipes deliver, and the watchdog's interval
\* keeps ticking.  Nothing is assumed of the person.
Fairness ==
  /\ WF_allVars(Worker)
  /\ WF_allVars(ReadLoop)
  /\ WF_allVars(Deliver)
  /\ WF_allVars(PollTick)

SessionSpec == SessionInit /\ [][SessionNext]_allVars /\ Fairness

-----------------------------------------------------------------------------
(* Properties.                                                             *)

\* A turn on screen is never blocked behind a card nobody can see: while the core
\* waits on a card of the turn on screen, some card comes up, whatever notification
\* went missing (usePendingConsentResync.ts: "a two-second blip instead of a wait
\* with no end").
OpenCardIsShown ==
  (pc = "wait" /\ ~entry[ask.tool].event /\ turn = job /\ turn # 0)
    ~> (shown # NoCard \/ pc # "wait" \/ turn # job)

\* What consent to an arming card rests on: the answer that grants it was given on
\* one of that request's own cards, never on an earlier request's.
ArmingGrantIsItsOwn ==
  [][(pc = "pop" /\ outcome' # outcome /\ outcome'.verdict = "GRANTED" /\ ask.nonce # 0)
       => pressedOn[ask.tool] > ask.first]_allVars
=============================================================================
