------------------------------ MODULE Transcript ------------------------------
(***************************************************************************)
(* The conversation the model is shown and the one on disk                 *)
(* (agent_core/rpc/conversation.py, rpc/undo.py, memory/store.py).         *)
(*                                                                         *)
(* The worker keeps three accounts of the open conversation: the messages  *)
(* in memory, the store ids of those messages, and the rows on disk.  A    *)
(* turn works on the first, writes the other two when it is over, and may  *)
(* fail anywhere in between; rewinding indexes the first with a position   *)
(* found in the second.  The window keeps the ids it may rewind to.        *)
(***************************************************************************)
EXTENDS Naturals, Sequences, SequencesExt

CONSTANTS
  KeepRecentTurns,  \* context_budget.KEEP_RECENT_TURNS
  MaxToolCalls,     \* bound: tools one response asks for
  MaxRounds,        \* bound: tool rounds of one turn
  MaxConversations, \* bound: conversation ids
  MaxIds            \* bound: store ids

ASSUME TranscriptAssumption ==
  /\ KeepRecentTurns \in Nat \ {0}
  /\ MaxToolCalls \in Nat /\ MaxRounds \in Nat
  /\ MaxConversations \in Nat \ {0} /\ MaxIds \in Nat

VARIABLES
  pc,       \* what the worker does with the conversation
  active,   \* self.conversation.id
  mem,      \* self.conversation.messages
  ids,      \* _message_ids
  made,     \* conversations with a row; _conversation_created is active \in made
  store,    \* the message rows of each conversation
  fresh,    \* ids handed out so far; the n-th is the number n
  preTurn,  \* pre_turn: messages in memory when the model was first asked
  owed,     \* tool results of the last response not appended yet
  rounds,   \* tool rounds of this turn
  saved,    \* messages of this turn written to the store
  shown,    \* ids of the user messages in the window, oldest first
  slipped   \* history: a row of the open conversation could not be written, or one
            \* of a conversation it continues; one such failure for each time a
            \* conversation is opened is the bound

turnVars == <<preTurn, owed, rounds, saved>>
vars == <<pc, active, mem, ids, made, store, fresh, turnVars, shown, slipped>>

Conversations == 1..MaxConversations

\* A message: its kind, its store id once it has one, and how many tools it asks for.
\* "ask" is an assistant message that is nothing but tool calls, "say" one with words
\* besides, "past" words reloaded from disk that once came with calls; the others are
\* "system", "user", "answer" and "tool".
Msg(kind, calls, id) == [kind |-> kind, calls |-> calls, id |-> id]
Asks(m) == m.kind \in {"ask", "say"}

\* What a row keeps of a message.
Row(m, id) == Msg(IF m.kind = "past" THEN "answer" ELSE m.kind, m.calls, id)

IdsOf(s) == [i \in DOMAIN s |-> s[i].id]

FromUser(s) == {i \in DOMAIN s : s[i].kind = "user"}

\* The messages of s at the places of a set, in their order.
Nth(places, k) == CHOOSE i \in places : Cardinality({j \in places : j <= i}) = k
At(s, places) == [k \in 1..Cardinality(places) |-> s[Nth(places, k)]]
Unused == Conversations \ made

\* Bound: one id is left over for a conversation that is not on disk yet.
RoomToMake(c) == c \in made \/ Cardinality(Unused) > 1

Init ==
  /\ pc = "idle"
  /\ active = 1
  /\ mem = <<>> /\ ids = <<>>
  /\ made = {}
  /\ store = [c \in Conversations |-> <<>>]
  /\ fresh = 0
  /\ preTurn = 0 /\ owed = 0 /\ rounds = 0 /\ saved = 0
  /\ shown = <<>>
  /\ slipped = FALSE

\* The worker is done with the conversation, and with the turn's locals.
Done ==
  /\ pc' = "idle"
  /\ preTurn' = 0 /\ owed' = 0 /\ rounds' = 0 /\ saved' = 0

-----------------------------------------------------------------------------
(* _run_send_message.  Some operators come with a slip a change to them    *)
(* could make; none of those is part of the specification.                 *)

\* The person's message goes into memory and onto disk, and the system prompt in
\* front of it for this turn only.
Send ==
  /\ pc = "idle"
  /\ fresh < MaxIds
  /\ RoomToMake(active)
  /\ made' = made \cup {active}
  /\ fresh' = fresh + 1
  /\ store' = [store EXCEPT ![active] = Append(@, Msg("user", 0, fresh + 1))]
  /\ ids' = Append(ids, fresh + 1)
  /\ mem' = <<Msg("system", 0, 0)>> \o Append(mem, Msg("user", 0, fresh + 1))
  /\ preTurn' = Len(mem) + 2
  /\ owed' = 0 /\ rounds' = 0 /\ saved' = 0
  /\ pc' = "model"
  /\ UNCHANGED <<active, shown, slipped>>

\* The row of the person's message cannot be written: the send is answered with an
\* error, and the message is already in memory.
SendUnsaved ==
  /\ ~slipped
  /\ pc = "idle"
  /\ Len(mem) < MaxIds
  /\ RoomToMake(active)
  /\ made' = made \cup {active}
  /\ mem' = Append(mem, Msg("user", 0, 0))
  /\ slipped' = TRUE
  /\ UNCHANGED <<pc, active, ids, store, fresh, turnVars, shown>>

\* append_assistant_tool_calls: a response that asks for tools.
AskForTools(kind, calls) ==
  /\ pc = "model"
  /\ rounds < MaxRounds
  /\ rounds' = rounds + 1
  /\ mem' = Append(mem, Msg(kind, calls, 0))
  /\ owed' = calls
  /\ pc' = "tools"
  /\ UNCHANGED <<active, ids, made, store, fresh, preTurn, saved, shown, slipped>>

\* append_tool_result: refused, denied, failed or run, a call gets one result.
ToolResult ==
  /\ pc = "tools"
  /\ mem' = Append(mem, Msg("tool", 0, 0))
  /\ owed' = owed - 1
  /\ pc' = IF owed = 1 THEN "model" ELSE "tools"
  /\ UNCHANGED <<active, ids, made, store, fresh, preTurn, rounds, saved, shown, slipped>>

\* append_assistant_message: the answer, or the sentence that too many steps were
\* taken.
Answer ==
  /\ pc = "model"
  /\ mem' = Append(mem, Msg("answer", 0, 0))
  /\ pc' = "persist"
  /\ UNCHANGED <<active, ids, made, store, fresh, turnVars, shown, slipped>>

\* The system prompt goes and what the turn said stays.
KeepTheFragment == mem' = Tail(mem)

\* The two clauses that end a failed turn: what it appended goes, then the prompt.
RollBack == mem' = Tail(SubSeq(mem, 1, preTurn))

\* run_turn raises: no model answered, or an error outside a tool.
TurnFails ==
  /\ pc \in {"model", "tools"}
  /\ RollBack
  /\ Done
  /\ UNCHANGED <<active, ids, made, store, fresh, shown, slipped>>

\* The position of the next message of the turn to be written.
NextUnsaved == preTurn + saved + 1

\* The row is written and its id is not kept.
PersistWithoutId ==
  /\ pc = "persist"
  /\ NextUnsaved <= Len(mem)
  /\ fresh < MaxIds
  /\ fresh' = fresh + 1
  /\ store' = [store EXCEPT ![active] = Append(@, Row(mem[NextUnsaved], fresh + 1))]
  /\ mem' = [mem EXCEPT ![NextUnsaved].id = fresh + 1]
  /\ saved' = saved + 1
  /\ UNCHANGED <<pc, active, ids, made, preTurn, owed, rounds, shown, slipped>>

\* _persist_message, for each message of the turn in order.
PersistMessage ==
  /\ pc = "persist"
  /\ NextUnsaved <= Len(mem)
  /\ fresh < MaxIds
  /\ fresh' = fresh + 1
  /\ store' = [store EXCEPT ![active] = Append(@, Row(mem[NextUnsaved], fresh + 1))]
  /\ ids' = Append(ids, fresh + 1)
  /\ mem' = [mem EXCEPT ![NextUnsaved].id = fresh + 1]
  /\ saved' = saved + 1
  /\ UNCHANGED <<pc, active, made, preTurn, owed, rounds, shown, slipped>>

\* A row cannot be written: the same clauses as any failed turn.
PersistFails ==
  /\ ~slipped
  /\ pc = "persist"
  /\ NextUnsaved <= Len(mem)
  /\ RollBack
  /\ slipped' = TRUE
  /\ Done
  /\ UNCHANGED <<active, ids, made, store, fresh, shown>>

\* Everything is on disk; the system prompt goes.
TurnSaved ==
  /\ pc = "persist"
  /\ NextUnsaved > Len(mem)
  /\ mem' = Tail(mem)
  /\ pc' = "budget"
  /\ UNCHANGED <<active, ids, made, store, fresh, turnVars, shown, slipped>>

-----------------------------------------------------------------------------
(* _maybe_continue_for_budget, and the answer to the send.                 *)

\* choose_cut_point: the start of a turn, with whole turns kept after it, not right
\* behind a message that asked for tools.
Legal(i) ==
  /\ i \in 2..Len(mem)
  /\ mem[i].kind = "user"
  /\ mem[i - 1].kind \notin {"ask", "say", "past"}
UserAt == FromUser(mem)
CutPoints ==
  {i \in UserAt : /\ Legal(i)
                  /\ \E j \in UserAt : j < i
                  /\ Cardinality({j \in UserAt : j >= i}) >= KeepRecentTurns}

\* The send is answered with the id its message had when it was written.
Respond == shown' = Append(shown, mem[Max(UserAt)].id)

\* The chat still fits, or cannot be condensed.
CarryOn ==
  /\ pc = "budget"
  /\ Respond
  /\ Done
  /\ UNCHANGED <<active, mem, ids, made, store, fresh, slipped>>

\* The rows written for the seed of a continuation.
SeedRows(seed) == [i \in DOMAIN seed |-> Row(seed[i], fresh + i)]
Seed == <<Msg("user", 0, 0)>> \o SubSeq(mem, Max(CutPoints), Len(mem))

\* A new conversation takes over, seeded with the summary and the recent turns.
Continue(c) ==
  /\ pc = "budget"
  /\ CutPoints # {}
  /\ RoomToMake(c)
  /\ fresh + Len(Seed) <= MaxIds
  /\ made' = made \cup {c}
  /\ active' = c
  /\ fresh' = fresh + Len(Seed)
  /\ store' = [store EXCEPT ![c] = SeedRows(Seed)]
  /\ mem' = [i \in DOMAIN Seed |-> [Seed[i] EXCEPT !.id = fresh + i]]
  /\ ids' = IdsOf(mem')
  /\ Respond
  /\ Done
  /\ UNCHANGED slipped

\* The new conversation could not be written in full: the person stays where they
\* were, and the rows that were written stay on disk.
ContinueFails(c, n) ==
  /\ ~slipped
  /\ pc = "budget"
  /\ CutPoints # {}
  /\ RoomToMake(c)
  /\ n < Len(Seed)
  /\ fresh + n <= MaxIds
  /\ made' = made \cup {c}
  /\ fresh' = fresh + n
  /\ store' = [store EXCEPT ![c] = SubSeq(SeedRows(Seed), 1, n)]
  /\ slipped' = TRUE
  /\ Respond
  /\ Done
  /\ UNCHANGED <<active, mem, ids>>

-----------------------------------------------------------------------------
(* The other operations on a conversation, and the end of the process.     *)

Position(to, s) == CHOOSE i \in DOMAIN s : s[i] = to

\* del s[n:], whether s is that long or not.
Cut(s, n) == SubSeq(s, 1, IF n < Len(s) THEN n ELSE Len(s))

\* The list of ids is cut one short of the messages.
RewindOffByOne(to) ==
  /\ pc = "idle"
  /\ to \in Range(IdsOf(store[active]))
  /\ store' = [store EXCEPT ![active] = SubSeq(@, 1, Position(to, IdsOf(@)) - 1)]
  /\ LET at == Position(to, ids) IN
       IF to \in Range(ids)
       THEN /\ mem' = Cut(mem, at)
            /\ ids' = SubSeq(ids, 1, at - 1)
       ELSE UNCHANGED <<mem, ids>>
  /\ shown' = SubSeq(shown, 1, Position(to, shown) - 1)
  /\ UNCHANGED <<pc, active, made, fresh, turnVars, slipped>>

\* _handle_rewind: the rows from the anchor on go, and what stands at the anchor's
\* place in memory and after.  An id of another conversation changes nothing.
Rewind(to) ==
  /\ pc = "idle"
  /\ to \in Range(IdsOf(store[active]))
  /\ store' = [store EXCEPT ![active] = SubSeq(@, 1, Position(to, IdsOf(@)) - 1)]
  /\ LET at == Position(to, ids) IN
       IF to \in Range(ids)
       THEN /\ mem' = Cut(mem, at - 1)
            /\ ids' = SubSeq(ids, 1, at - 1)
       ELSE UNCHANGED <<mem, ids>>
  /\ shown' = SubSeq(shown, 1, Position(to, shown) - 1)
  /\ UNCHANGED <<pc, active, made, fresh, turnVars, slipped>>

OpenEmpty(c) ==
  /\ active' = c
  /\ mem' = <<>> /\ ids' = <<>> /\ shown' = <<>>
  /\ slipped' = FALSE

\* _handle_conversation_new.
New(c) ==
  /\ pc = "idle"
  /\ OpenEmpty(c)
  /\ UNCHANGED <<pc, made, store, fresh, turnVars>>

Words(rows, i) == i \in DOMAIN rows /\ rows[i].kind \in {"answer", "say"}

\* The words that carry dropped calls: those the calls led to, or the last ones.
CarriesCalls(rows, i) ==
  /\ Words(rows, i)
  /\ \/ rows[i].kind = "say"
     \/ \E j \in 1..(i - 1) : /\ rows[j].kind = "ask"
                              /\ \A k \in (j + 1)..(i - 1) : ~Words(rows, k)
     \/ \E j \in (i + 1)..Len(rows) : /\ rows[j].kind = "ask"
                                      /\ \A k \in (i + 1)..Len(rows) : ~Words(rows, k)

Marked(rows) ==
  [i \in DOMAIN rows |-> IF CarriesCalls(rows, i) THEN Msg("past", 0, rows[i].id) ELSE rows[i]]

\* The rows of a stored conversation that come back into memory: the words of both
\* sides, without calls and results.
Kept(rows) == {i \in DOMAIN rows : rows[i].kind = "user" \/ Words(rows, i)}
Reloaded(rows) == At(Marked(rows), Kept(rows))

\* _handle_conversation_load.
Load(c) ==
  /\ pc = "idle"
  /\ active' = c
  /\ mem' = Reloaded(store[c])
  /\ ids' = IdsOf(mem')
  /\ shown' = IdsOf(At(store[c], FromUser(store[c])))
  /\ slipped' = FALSE
  /\ UNCHANGED <<pc, made, store, fresh, turnVars>>

\* The app ends at any point and is started again.
Relaunch(c) ==
  /\ Done
  /\ OpenEmpty(c)
  /\ UNCHANGED <<made, store, fresh>>

-----------------------------------------------------------------------------
\* A new conversation gets an id no row has; the smallest stands for all.
FreshId(c) == c \in Unused /\ \A d \in Unused : c <= d

Next ==
  \/ Send \/ SendUnsaved
  \/ \E kind \in {"ask", "say"}, calls \in 1..MaxToolCalls : AskForTools(kind, calls)
  \/ ToolResult \/ Answer \/ TurnFails
  \/ PersistMessage \/ PersistFails \/ TurnSaved
  \/ CarryOn
  \/ \E c \in Unused : FreshId(c) /\ Continue(c)
  \/ \E c \in Unused : FreshId(c) /\ \E n \in 0..MaxIds : ContinueFails(c, n)
  \/ \E to \in Range(shown) : Rewind(to)
  \/ \E c \in Unused : FreshId(c) /\ New(c)
  \/ \E c \in made : Load(c)
  \/ \E c \in Unused : FreshId(c) /\ Relaunch(c)

Spec == Init /\ [][Next]_vars

-----------------------------------------------------------------------------
(* Properties.                                                             *)

\* Message i of s is followed by a result for every tool it asks for.
Answered(s, i) ==
  /\ i + s[i].calls <= Len(s)
  /\ \A j \in (i + 1)..(i + s[i].calls) : s[j].kind = "tool"

\* A message that asks for tools is answered, and a result has its call.
Paired(s) ==
  \A i \in DOMAIN s :
    /\ Asks(s[i]) => Answered(s, i)
    /\ s[i].kind = "tool" => \E j \in 1..(i - 1) : Asks(s[j]) /\ i <= j + s[j].calls

\* Whenever the model may be asked, every tool call in memory is followed by its
\* results and no result stands without its call, as long as rows could be written:
\* neither a failed turn, a relaunch in the middle of one, a rewind, a reload nor a
\* continuation leaves a history the provider would reject for the rest of the session.
CallsArePaired == pc # "tools" /\ ~slipped => Paired(mem)

\* Between turns the two lists in memory tell the same story: the n-th id is the id of
\* the n-th message, unless a row could not be written since the conversation, or the
\* one it continues, was opened.  Opening it again, or any other, mends that.
IdsFollowMessages == pc = "idle" /\ ~slipped => ids = IdsOf(mem)

\* Between turns the model is shown nothing the conversation on disk does not hold: a
\* message that was rewound away cannot come back through memory.
MemoryIsOnDisk ==
  pc = "idle" /\ ~slipped => Range(IdsOf(mem)) \subseteq Range(IdsOf(store[active]))
=============================================================================
