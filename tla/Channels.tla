------------------------------- MODULE Channels -------------------------------
(***************************************************************************)
(* A messaging channel: the loops that poll the transport, the jobs they   *)
(* put on the worker's queue, pairing, and the switches at the desk        *)
(* (agent_core/channel_service.py, channel_pairing.py, rpc/channels.py,    *)
(* channels/telegram.py).                                                  *)
(*                                                                         *)
(* Everything a person does at the desk and every message taken off the    *)
(* queue is a job of the one worker, hence one step.  The poll loops are   *)
(* threads of their own: switching off only sets an event, so a loop may   *)
(* go on for a while, beside the loop that replaced it.                    *)
(***************************************************************************)
EXTENDS Naturals, Integers, Sequences, FiniteSets, SequencesExt

CONSTANTS
  Channels,     \* ids of saved channels
  Phones,       \* senders the transport knows
  MaxAttempts,  \* automation_nonce.MAX_ATTEMPTS
  MaxNotes,     \* channel_service.MAX_PENDING_REQUESTS
  MaxLoops,     \* bound: poll threads of one launch
  MaxMessages,  \* bound: messages sent to the bot
  MaxWindows,   \* bound: pairing windows
  MaxActs       \* bound: acts of a person, of time and of the system, other than messages

ASSUME ChannelsAssumption ==
  /\ {MaxAttempts, MaxNotes, MaxLoops} \subseteq Nat \ {0}
  /\ {MaxMessages, MaxWindows, MaxActs} \subseteq Nat

VARIABLES
  row,      \* the channels table
  point,    \* the rows the last restore point holds
  paired,   \* the channel_pairings table
  open,     \* the profile is Developer
  closed,   \* the guards say auto_grant_scope "none"
  token,    \* what the keychain holds for the transport
  current,  \* _threads and _stops: the loop of each channel, 0 for none
  state,    \* _status, its state
  window,   \* _pending
  hushed,   \* chats told lately that nobody was listening
  notes,    \* _requests
  loop,     \* the poll threads
  queue,    \* channel turns waiting for the worker
  sent,     \* the transport: every update, the n-th has update_id n
  acked,    \* the transport: the first update it still keeps
  handed,   \* history: updates put on the queue
  opened,   \* pairing windows opened so far
  gone,     \* history: pairings that were undone
  acts      \* the acts so far

desk == <<row, point, paired, open, closed, gone>>
service == <<current, state, window, hushed, notes>>
transport == <<sent, acked>>
history == <<handed, opened>>
vars == <<desk, token, service, loop, queue, transport, history, acts>>

Loops == 1..MaxLoops
Windows == 1..MaxWindows

\* What an update says: the code of a window, plain words, or no text at all.
Words == 0
NoText == 0 - 1
Update == [from : Phones, says : {NoText, Words} \cup Windows]

NoRow == [saved |-> FALSE, enabled |-> FALSE, token |-> "unknown", wake |-> "decline"]
\* insert_channel: switched off, no token believed saved.
NewRow == [NoRow EXCEPT !.saved = TRUE]
Saved(c) == row[c].saved

SetChannelEnabled(c, on) == row' = [row EXCEPT ![c].enabled = on]
SetTokenPresent(c, presence) == row' = [row EXCEPT ![c].token = presence]
SetOnWake(c, wake) == row' = [row EXCEPT ![c].wake = wake]

\* The row takes its pairings with it (ON DELETE CASCADE).
DeleteChannel(c) ==
  /\ row' = [row EXCEPT ![c] = NoRow]
  /\ paired' = {p \in paired : p.channel # c}
  /\ gone' = gone \cup {p \in paired : p.channel = c}

InsertPairing(c, phone, code) ==
  paired' = paired \cup {[channel |-> c, phone |-> phone, code |-> code]}
DeletePairing(p) == paired' = paired \ {p} /\ gone' = gone \cup {p}
FindPairing(c, phone) == {p \in paired : p.channel = c /\ p.phone = phone}

\* A window nobody opened; an open one has the number of its code (channel_pairing.begin).
NoWindow == [code |-> 0, left |-> 0, live |-> FALSE]

Unstarted == [pc |-> "none", channel |-> CHOOSE c \in Channels : TRUE, stopped |-> FALSE,
              token |-> "none", cursor |-> 1, batch |-> {}]

Alive(t) == loop[t].pc \notin {"none", "dead"}

\* listening_channels
Listening(c) == current[c] # 0 /\ Alive(current[c])

FreshWindow(code) == [code |-> code, left |-> MaxAttempts, live |-> TRUE]

\* A launch, with what earlier ones left in the database and in the keychain.
Init ==
  /\ row \in [Channels -> {NoRow, [NewRow EXCEPT !.token = "present"]}]
  /\ point = [c \in Channels |-> NoRow]
  /\ paired = {} /\ gone = {}
  /\ open = TRUE /\ closed = FALSE
  /\ token = "good"
  /\ current = [c \in Channels |-> 0]
  /\ state = [c \in Channels |-> "stopped"]
  /\ window = [c \in Channels |-> NoWindow]
  /\ hushed = {} /\ notes = <<>>
  /\ loop = [t \in Loops |-> Unstarted]
  /\ queue = <<>> /\ sent = <<>> /\ acked = 1
  /\ handed = {} /\ opened = 0
  /\ acts = 0

-----------------------------------------------------------------------------
(* Loops.  An operator named ...Without or ...Past is a slip a change to   *)
(* the code could make; none of those is part of the specification.        *)

\* stop, called for several channels: forget the loop and tell it; nothing waits.
StopListening(cs) ==
  /\ loop' = [t \in Loops |-> IF \E c \in cs : current[c] = t
                              THEN [loop[t] EXCEPT !.stopped = TRUE] ELSE loop[t]]
  /\ current' = [c \in Channels |-> IF c \in cs THEN 0 ELSE current[c]]
  /\ state' = [c \in Channels |-> IF c \in cs THEN "stopped" ELSE state[c]]
  /\ window' = [c \in Channels |-> IF c \in cs THEN NoWindow ELSE window[c]]

\* stop_all: only the channels that have a loop; a window of another one stays open.
StopAll == StopListening({c \in Channels : current[c] # 0})

\* _token_rejected forgets the event but does not set it.
RejectedWithout(c) ==
  /\ current' = [current EXCEPT ![c] = 0]
  /\ state' = [state EXCEPT ![c] = "token_rejected"]
  /\ UNCHANGED loop

\* _token_rejected: whichever loop the channel has NOW is the one that is stopped.
TokenRejected(c) ==
  /\ loop' = IF current[c] = 0 THEN loop ELSE [loop EXCEPT ![current[c]].stopped = TRUE]
  /\ current' = [current EXCEPT ![c] = 0]
  /\ state' = [state EXCEPT ![c] = "token_rejected"]

\* A loop that learns of the rejection from its own poll also ends.
RejectedByLoop(t, c) ==
  /\ loop' = [u \in Loops |->
       IF u = t THEN [loop[t] EXCEPT !.pc = "dead", !.stopped = loop[t].stopped \/ current[c] = t]
       ELSE IF u = current[c] THEN [loop[u] EXCEPT !.stopped = TRUE] ELSE loop[u]]
  /\ current' = [current EXCEPT ![c] = 0]
  /\ state' = [state EXCEPT ![c] = "token_rejected"]

Act == acts < MaxActs /\ acts' = acts + 1
\* _set_state
LoopSays(t, s) == state' = [state EXCEPT ![loop[t].channel] = s]
Goes(t, pc) == loop' = [loop EXCEPT ![t].pc = pc]
Loop == UNCHANGED <<desk, token, window, hushed, notes, opened, sent>>
NoLoop == Loop /\ UNCHANGED acts

\* The top of _poll_loop: the event, then the token.  Asking from the cursor is what
\* makes the transport forget everything before it.
LoopAsks(t) ==
  /\ loop[t].pc = "top" /\ ~loop[t].stopped /\ token # "none"
  /\ loop' = [loop EXCEPT ![t].pc = "poll", ![t].token = token]
  /\ acked' = IF token = "good" THEN (IF loop[t].cursor > acked THEN loop[t].cursor ELSE acked) ELSE acked
  /\ NoLoop /\ UNCHANGED <<current, state, queue, handed>>

LoopHasNoToken(t) ==
  /\ loop[t].pc = "top" /\ ~loop[t].stopped /\ token = "none"
  /\ Goes(t, "ending") /\ LoopSays(t, "no_token")
  /\ NoLoop /\ UNCHANGED <<current, queue, acked, handed>>

\* A stopped loop leaves at its next look at the event; one without a token when it returns.
LoopEnds(t) ==
  /\ \/ loop[t].pc = "top" /\ loop[t].stopped
     \/ loop[t].pc = "ending"
  /\ Goes(t, "dead")
  /\ NoLoop /\ UNCHANGED <<current, state, queue, acked, handed>>

\* The keychain did not answer, or the poll failed for a reason that is not the token.
LoopFails(t) ==
  /\ \/ loop[t].pc = "top" /\ ~loop[t].stopped
     \/ loop[t].pc = "poll"
  /\ Goes(t, "wait") /\ LoopSays(t, "backing_off")
  /\ Act /\ Loop /\ UNCHANGED <<current, queue, acked, handed>>

\* The backoff is over, or the event was set.
LoopWakes(t) ==
  /\ loop[t].pc = "wait"
  /\ Goes(t, "top")
  /\ NoLoop /\ UNCHANGED <<current, state, queue, acked, handed>>

\* The cursor after a batch that ends with update n.
CursorPast(n) == n + 2
NextCursor(n) == n + 1

\* A poll keeps one message and drops the rest.
BatchOfOne(from) == LET b == {n \in from..Len(sent) : sent[n].says # NoText}
                    IN {n \in b : \A m \in b : n <= m}

\* What a poll returns: the updates with text, and the cursor past every one of them.
Batch(from) == {n \in from..Len(sent) : sent[n].says # NoText}
From(t) == IF loop[t].cursor > acked THEN loop[t].cursor ELSE acked

\* The poll answers.  A loop switched off meanwhile hands nothing on.
LoopHears(t) ==
  /\ loop[t].pc = "poll" /\ loop[t].token = "good"
  /\ loop' = [loop EXCEPT ![t] =
       IF loop[t].stopped THEN [@ EXCEPT !.pc = "dead"]
       ELSE [@ EXCEPT !.pc = "hand", !.batch = Batch(From(t)),
                      !.cursor = IF From(t) > Len(sent) THEN loop[t].cursor
                                 ELSE NextCursor(Len(sent))]]
  /\ NoLoop /\ UNCHANGED <<current, state, queue, acked, handed>>

LoopIsRefused(t) ==
  /\ loop[t].pc = "poll" /\ loop[t].token = "bad"
  /\ RejectedByLoop(t, loop[t].channel)
  /\ NoLoop /\ UNCHANGED <<queue, acked, handed>>

\* _hand_off: the job says which channel and which message; nothing answers it.
HandOff(c, n) == /\ queue' = Append(queue, [channel |-> c, n |-> n])
                 /\ handed' = handed \cup {n}

\* The next message of the batch onto the worker's queue; after the last one the state is
\* set.  The event is not looked at again before the top of the loop.
LoopHandsOff(t) ==
  /\ loop[t].pc = "hand"
  /\ \/ /\ loop[t].batch = {}
        /\ Goes(t, "top") /\ LoopSays(t, "listening") /\ UNCHANGED <<queue, handed>>
     \/ \E n \in loop[t].batch :
          /\ \A m \in loop[t].batch : n <= m
          /\ loop' = [loop EXCEPT ![t].batch = @ \ {n}]
          /\ HandOff(loop[t].channel, n)
          /\ UNCHANGED state
  /\ NoLoop /\ UNCHANGED <<current, acked>>

LoopStep(t) ==
  \/ LoopAsks(t) \/ LoopHasNoToken(t) \/ LoopEnds(t) \/ LoopFails(t)
  \/ LoopWakes(t) \/ LoopHears(t) \/ LoopIsRefused(t) \/ LoopHandsOff(t)

-----------------------------------------------------------------------------
(* The desk.  A refusal that changes nothing is not a step.                *)

NoJob == Act /\ UNCHANGED <<token, hushed, queue, transport, history>>
Snapshot == point' = [c \in Channels |-> [row[c] EXCEPT !.token = "unknown"]]

ChannelAdd(c) ==
  /\ open /\ ~Saved(c)
  /\ Snapshot
  /\ row' = [row EXCEPT ![c] = NewRow]
  /\ NoJob /\ UNCHANGED <<paired, open, closed, gone, service, loop>>

\* pending requests of a channel: forget_requests, and note_request with its bound.
NotesWithout(c) == SelectSeq(notes, LAMBDA r : r.channel # c)
NotesWith(c, n) ==
  LET more == Append(notes, [channel |-> c, n |-> n]) IN
  IF Len(more) > MaxNotes THEN Tail(more) ELSE more

\* channel.remove: the loop goes first, then the notes that name the channel.
ChannelRemove(c) ==
  /\ Saved(c)
  /\ Snapshot
  /\ StopListening({c})
  /\ notes' = NotesWithout(c)
  /\ DeleteChannel(c)
  /\ NoJob /\ UNCHANGED <<open, closed>>

\* channel.connect: only an answer about the token is written down.
ChannelConnect(c) ==
  /\ open /\ Saved(c)
  /\ token # "none"
  /\ SetTokenPresent(c, IF token = "good" THEN "present" ELSE "absent")
  /\ NoJob /\ UNCHANGED <<point, paired, open, closed, gone, service, loop>>

\* start hands the channel a thread, unless the one it has is still alive.
Start(c) ==
  IF Listening(c) THEN UNCHANGED <<loop, current, state>>
  ELSE \E t \in Loops :
    /\ loop[t].pc = "none" /\ \A u \in 1..(t - 1) : loop[u].pc # "none"
    /\ loop' = [loop EXCEPT ![t] = [Unstarted EXCEPT !.pc = "top", !.channel = c]]
    /\ current' = [current EXCEPT ![c] = t]
    /\ state' = [state EXCEPT ![c] = "listening"]

\* channel.setEnabled, on: a checked token, guards that answer, nobody else listening.
ChannelSwitchOn(c) ==
  /\ Saved(c) /\ open /\ row[c].token = "present" /\ ~closed
  /\ \A d \in Channels \ {c} : ~Listening(d)
  /\ Start(c)
  /\ SetChannelEnabled(c, TRUE)
  /\ NoJob /\ UNCHANGED <<point, paired, open, closed, gone, window, notes>>

ChannelSwitchOff(c) ==
  /\ Saved(c)
  /\ StopListening({c})
  /\ SetChannelEnabled(c, FALSE)
  /\ NoJob /\ UNCHANGED <<point, paired, open, closed, gone, notes>>

ChannelSetOnWake(c, wake) ==
  /\ Saved(c) /\ row[c].wake # wake
  /\ wake = "answer" => open
  /\ SetOnWake(c, wake)
  /\ NoJob /\ UNCHANGED <<point, paired, open, closed, gone, service, loop>>

\* channel.beginPairing: a fresh code in place of any window still open.
BeginPairing(c) ==
  /\ open /\ Saved(c) /\ opened < MaxWindows
  /\ window' = [window EXCEPT ![c] = FreshWindow(opened + 1)]
  /\ opened' = opened + 1
  /\ Act
  /\ UNCHANGED <<desk, token, current, state, hushed, notes, loop, queue, transport, handed>>

CancelPairing(c) ==
  /\ window[c] # NoWindow
  /\ window' = [window EXCEPT ![c] = NoWindow]
  /\ NoJob /\ UNCHANGED <<desk, current, state, notes, loop>>

RevokePairing(p) ==
  /\ DeletePairing(p)
  /\ NoJob /\ UNCHANGED <<row, point, open, closed, service, loop>>

\* dismissRequest, or a note that has aged out.
DropNote(i) ==
  /\ notes' = RemoveAt(notes, i)
  /\ NoJob /\ UNCHANGED <<desk, current, state, window, loop>>

\* profile.set; leaving Developer switches every loop off.
ProfileSet ==
  /\ open' = ~open
  /\ IF open THEN StopAll ELSE UNCHANGED <<loop, current, state, window>>
  /\ NoJob /\ UNCHANGED <<row, point, paired, closed, gone, notes>>

GuardsChange ==
  /\ closed' = ~closed
  /\ NoJob /\ UNCHANGED <<row, point, paired, open, gone, service, loop>>

\* snapshot.restore refills the table: the pairings go with the rows it deletes, no
\* token is believed saved, and no loop goes on.
Restore ==
  /\ point # row
  /\ row' = point
  /\ paired' = {} /\ gone' = gone \cup paired
  /\ StopAll
  /\ NoJob /\ UNCHANGED <<point, open, closed, notes>>

Desk ==
  \/ \E c \in Channels :
       \/ ChannelAdd(c) \/ ChannelRemove(c) \/ ChannelConnect(c)
       \/ ChannelSwitchOn(c) \/ ChannelSwitchOff(c)
       \/ \E wake \in {"decline", "answer"} : ChannelSetOnWake(c, wake)
       \/ BeginPairing(c) \/ CancelPairing(c)
  \/ \E p \in paired : RevokePairing(p)
  \/ \E i \in 1..Len(notes) : DropNote(i)
  \/ ProfileSet \/ GuardsChange \/ Restore

-----------------------------------------------------------------------------
(* What a message becomes: _run_channel_turn on the worker.                *)

Job == Head(queue)
Msg == sent[Job.n]
Chat == <<Job.channel, Msg.from>>
MayDecline(chat) == chat \notin hushed
TakesTurn ==
  /\ queue # <<>>
  /\ queue' = Tail(queue)
  /\ UNCHANGED <<row, point, open, closed, token, transport, handed, acts>>

\* deliver: every failure but the token's only says so; that one ends the channel's loop.
Deliver(c) ==
  \/ UNCHANGED <<loop, current, state>>
  \/ token = "bad" /\ TokenRejected(c)

\* The row is gone: nobody is told anything.
TurnWithoutChannel ==
  /\ TakesTurn /\ ~Saved(Job.channel)
  /\ UNCHANGED <<paired, gone, service, loop, opened>>

\* The profile was left with the message in flight.
TurnOutsideDeveloper ==
  /\ TakesTurn /\ Saved(Job.channel) /\ ~open
  /\ StopAll
  /\ UNCHANGED <<paired, gone, hushed, notes, opened>>

\* offer: the deadline, then the budget, then the code.
Matches(w, says) == w.live /\ w.left > 0 /\ says = w.code

\* _offer_pairing, a match: the row is written and the windows in "closes" are gone.
PairingTurn(closes) ==
  /\ TakesTurn
  /\ LET c == Job.channel IN
     /\ Saved(c) /\ open /\ FindPairing(c, Msg.from) = {}
     /\ window[c] # NoWindow /\ Matches(window[c], Msg.says)
     /\ InsertPairing(c, Msg.from, window[c].code)
     /\ window' = [d \in Channels |-> IF d \in closes THEN NoWindow ELSE window[d]]
     /\ Deliver(c)
  /\ UNCHANGED <<gone, hushed, notes, opened>>

PairsWithoutClosing == PairingTurn({})
TurnPairs == PairingTurn({Job.channel})

\* Anything else an unpaired phone sends is answered with silence; a wrong code costs an
\* attempt, the last one closes the window, and so does any code after the deadline.
TurnFromStranger ==
  /\ TakesTurn
  /\ LET c == Job.channel
         w == window[c]
         counts == w # NoWindow /\ w.live IN
     /\ Saved(c) /\ open /\ FindPairing(c, Msg.from) = {}
     /\ ~(w # NoWindow /\ Matches(w, Msg.says))
     /\ window' = [window EXCEPT ![c] = IF counts /\ w.left > 1 THEN [w EXCEPT !.left = @ - 1]
                                        ELSE NoWindow]
  /\ UNCHANGED <<paired, gone, current, state, hushed, notes, loop, opened>>

Welcome == queue # <<>> /\ Saved(Job.channel) /\ open /\ FindPairing(Job.channel, Msg.from) # {}

\* It waited while nobody was listening, and the row says decline: one apology a while.
TurnDeclined ==
  /\ TakesTurn /\ Welcome /\ row[Job.channel].wake = "decline"
  /\ IF MayDecline(Chat) THEN Deliver(Job.channel) ELSE UNCHANGED <<loop, current, state>>
  /\ hushed' = hushed \cup {Chat}
  /\ UNCHANGED <<paired, gone, window, notes, opened>>

TurnRefusedByGuards ==
  /\ TakesTurn /\ Welcome /\ closed
  /\ Deliver(Job.channel)
  /\ UNCHANGED <<paired, gone, window, hushed, notes, opened>>

\* The turn runs, or fails and says so; what it asked for that belongs at the desk is
\* written down afterwards, the oldest note giving way.
TurnRuns ==
  /\ TakesTurn /\ Welcome /\ ~closed
  /\ Deliver(Job.channel)
  /\ notes' \in {notes, NotesWith(Job.channel, Job.n)}
  /\ UNCHANGED <<paired, gone, window, hushed, opened>>

Turn ==
  \/ TurnWithoutChannel \/ TurnOutsideDeveloper \/ TurnPairs \/ TurnFromStranger
  \/ TurnDeclined \/ TurnRefusedByGuards \/ TurnRuns

-----------------------------------------------------------------------------
(* The world, and the end of the app.                                      *)

World == UNCHANGED <<desk, current, state, loop, queue, acked, handed, opened>>

\* Somebody writes to the bot; only a code that has been shown can be typed.
Arrives(u) ==
  /\ Len(sent) < MaxMessages
  /\ u.says <= opened
  /\ sent' = Append(sent, u)
  /\ World /\ UNCHANGED <<acts, token, window, hushed, notes>>

\* A token is pasted or removed at the desk, or revoked at the transport.
TokenChanges(t) ==
  /\ t # token /\ (t = "bad" => token = "good")
  /\ token' = t
  /\ Act /\ World /\ UNCHANGED <<sent, window, hushed, notes>>

WindowTimesOut(c) ==
  /\ window[c].live
  /\ window' = [window EXCEPT ![c].live = FALSE]
  /\ Act /\ World /\ UNCHANGED <<token, sent, hushed, notes>>

HushEnds ==
  /\ hushed # {} /\ hushed' = {}
  /\ Act /\ World /\ UNCHANGED <<token, sent, window, notes>>

\* Whatever the service and the queue held is gone; nothing listens after a launch.
Crash ==
  /\ Act
  /\ current' = [c \in Channels |-> 0] /\ state' = [c \in Channels |-> "stopped"]
  /\ window' = [c \in Channels |-> NoWindow] /\ hushed' = {} /\ notes' = <<>>
  /\ loop' = [t \in Loops |-> Unstarted] /\ queue' = <<>>
  /\ UNCHANGED <<desk, token, transport, history>>

Next ==
  \/ \E t \in Loops : LoopStep(t)
  \/ Desk \/ Turn \/ Crash \/ HushEnds
  \/ \E u \in Update : Arrives(u)
  \/ \E t \in {"none", "good", "bad"} : TokenChanges(t)
  \/ \E c \in Channels : WindowTimesOut(c)

\* A loop that can go on does (a wait and a request have a deadline); the
\* bound on acts is what keeps the transport and the keychain from failing for ever.
Fairness ==
  \A t \in Loops : WF_vars(LoopStep(t))

Spec == Init /\ [][Next]_vars /\ Fairness

-----------------------------------------------------------------------------

(* However a channel is switched off, rejected, restored or started again, at most one *)
(* loop has not been told to stop: nothing polls that no switch can reach.             *)
OneUnstoppedLoop ==
  Cardinality({t \in Loops : Alive(t) /\ ~loop[t].stopped}) <= 1

(* The transport forgets an update only when it has been put on the worker's queue, or *)
(* had no text to put there: the cursor is the acknowledgement.                        *)
AckedWasHanded ==
  \A n \in 1..(acked - 1) : sent[n].says # NoText => n \in handed

(* A code pairs one phone once.  A pairing that was revoked, removed or restored away  *)
(* does not come back, not even by the same message being delivered again.             *)
OneCodeOnePairing ==
  /\ paired \cap gone = {}
  /\ \A p, q \in paired \cup gone : p.code = q.code => p = q
  /\ \A p \in paired : row[p.channel].saved

(* A message that waits at the transport while a loop listens is put on the queue, or  *)
(* the listening ends: an outage delays it, and does not lose it.                      *)
Waits(n) == /\ n <= Len(sent) /\ n >= acked /\ sent[n].says # NoText
            /\ \E c \in Channels : Listening(c)
MessageIsTaken ==
  \A n \in 1..MaxMessages : Waits(n) ~> (n \in handed \/ ~\E c \in Channels : Listening(c))

=============================================================================
