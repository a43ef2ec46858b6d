----------------------------- MODULE McpExchange -----------------------------
(***************************************************************************)
(* One tool call to a server, on the wire (mcp_client._Session and         *)
(* call_tool, net_vetting.open_vetted): handshake, notice, call, each a    *)
(* request that is vetted hop by hop, tried address by address and read    *)
(* chunk by chunk, all of it inside one budget of time.  The server says   *)
(* what it likes, when it likes, or nothing.                               *)
(*                                                                         *)
(* Time is counted in units; every wait takes some of them.  A wait on a   *)
(* socket takes at most the timeout it was given, and a server that lets a *)
(* little come each time gives rise to as many waits as it likes: a body   *)
(* is read under the clock, the head of a response is not.  A check of a   *)
(* server (discover_tools) is the same exchange with pages of tools/list   *)
(* at its end, which McpServers has.                                       *)
(***************************************************************************)
EXTENDS ToolAnswer

CONSTANTS
  Budget,           \* CALL_BUDGET_SECONDS
  SocketTimeout,    \* _SOCKET_TIMEOUT_SECONDS
  MaxLookup,        \* bound: how long the system takes to look a name up
  MaxRedirects,     \* _MAX_REDIRECTS
  MaxAttempts,      \* net_vetting.MAX_ADDRESS_ATTEMPTS
  MaxBytes,         \* _MAX_RESPONSE_BYTES, in chunks
  MaxPieces,        \* bound: what is sent and comes ahead of a head's last piece, in pieces
  MaxEvents,        \* _MAX_SSE_EVENTS
  Places,           \* where a redirect may point: [origin, named]
  Home,             \* the address the person typed
  Replies,          \* what a server may say: [status, type, events]
  Contents          \* what a tool may answer: [items, structured]

ASSUME TimesAssumption ==
  /\ Budget \in Nat \ {0} /\ SocketTimeout \in Nat \ {0} /\ MaxLookup \in Nat

ASSUME ExchangeAssumption ==
  /\ {MaxRedirects, MaxBytes, MaxPieces, MaxEvents} \subseteq Nat /\ MaxAttempts \in Nat \ {0}
  /\ Home \in Places
  /\ \A content \in Contents : IsAnswer(content)

VARIABLES
  phase,        \* what the exchange does next
  request,      \* which of the three requests it is at
  spent,        \* time since the session was made
  place,        \* the address asked at present
  hops,         \* redirects followed for this request
  addresses,    \* vetted addresses not tried yet
  wait,         \* the timeout the socket was given
  pieces,       \* what was sent and came ahead of the head's last piece, at the last address
  reply,        \* the response being read
  bytes,        \* how much of its body
  session,      \* the server's handle on the session, once it gave one
  outcome       \* how it ended, or the content of the answer

conn == <<place, hops, addresses, wait, reply, bytes>>
told == <<request, session, outcome>>
exchangeVars == <<phase, spent, conn, pieces, told>>

Requests == <<"initialize", "initialized", "tools/call">>

\* The id a request carries; a notification has none.
RequestId == IF request = 1 THEN 1 ELSE 2

Nothing == "none"
NoReply == [status |-> 0, type |-> Nothing, events |-> <<>>]

Remaining == IF spent < Budget THEN Budget - spent ELSE 0
Shorter(t) == IF t < Remaining THEN t ELSE Remaining

\* A failure is one plain sentence, and the end of the exchange and its session.
Fail(why) ==
  /\ phase' = "over" /\ outcome' = [said |-> why]
  /\ place' = Home /\ hops' = 0 /\ addresses' = 0 /\ wait' = 0
  /\ reply' = NoReply /\ bytes' = 0 /\ session' = Nothing
  /\ UNCHANGED request

Takes(t) == spent' = spent + t

-----------------------------------------------------------------------------
(* The hops.                                                               *)

\* _post: the budget is asked before anything is sent.
Post ==
  /\ phase = "post" /\ UNCHANGED <<spent, pieces>>
  /\ IF Remaining = 0 THEN Fail("took too long")
     ELSE /\ phase' = "vet" /\ place' = Home /\ hops' = 0
          /\ UNCHANGED <<told, addresses, wait, reply, bytes>>

\* The head of open_vetted's loop, and vet_url: a name is looked up, however long
\* that takes; a literal address is its own answer.
Vet ==
  /\ phase = "vet" /\ UNCHANGED pieces
  /\ IF Remaining = 0 THEN UNCHANGED spent /\ Fail("took too long")
     ELSE \E t \in 0..(IF place.named THEN MaxLookup ELSE 0) :
            /\ Takes(t)
            /\ \/ /\ phase' = "try"
                  /\ addresses' \in 1..(IF place.named THEN MaxAttempts ELSE 1)
                  /\ wait' = Shorter(SocketTimeout)
                  /\ UNCHANGED <<told, place, hops, reply, bytes>>
               \/ Fail("could not reach")

\* _one_hop: the clock again, and an address that takes the connection, does not,
\* or does not say; what is encrypted on it is a wait of its own.  The hop's timeout
\* was read before the name was looked up.
TryAddress ==
  /\ phase = "try" /\ pieces' = 0
  /\ IF Remaining = 0 THEN UNCHANGED spent /\ Fail("took too long")
     ELSE LET limit == Shorter(wait)
          IN  \E connects, agrees \in 0..limit :
                /\ Takes(connects + agrees)
                /\ \/ /\ phase' = "head" /\ wait' = limit
                      /\ UNCHANGED <<told, place, hops, addresses, reply, bytes>>
                   \/ /\ addresses > 1 /\ addresses' = addresses - 1
                      /\ UNCHANGED <<phase, told, place, hops, wait, reply, bytes>>
                   \/ addresses = 1 /\ Fail("could not reach")

\* Slip: the redirects followed are not counted.
FollowsAnyRedirect(to) ==
  IF to.origin # Home.origin THEN Fail("not allowed")
  ELSE /\ phase' = "vet" /\ place' = to /\ addresses' = 0 /\ wait' = 0
       /\ UNCHANGED <<told, hops, reply, bytes>>

\* The next place is nowhere but at the origin the person typed, and securely so
\* if that is how it was typed; the origin has both in it.
Redirect(to) ==
  IF to.origin # Home.origin THEN Fail("not allowed")
  ELSE IF hops = MaxRedirects THEN Fail("too many redirects")
  ELSE /\ phase' = "vet" /\ place' = to /\ hops' = hops + 1 /\ addresses' = 0 /\ wait' = 0
       /\ UNCHANGED <<told, reply, bytes>>

\* The request goes out, and the head comes in, in one piece or in more: the timeout is
\* the socket's, for each, and no clock is asked until the body.
HeadPiece ==
  /\ phase = "head" /\ pieces < MaxPieces /\ pieces' = pieces + 1
  /\ \E t \in 0..wait : Takes(t)
  /\ UNCHANGED <<phase, conn, told>>

\* _request_once, with the last piece of the response's head.
ResponseHead ==
  /\ phase = "head" /\ UNCHANGED pieces
  /\ \E t \in 0..wait :
       /\ Takes(t)
       /\ \/ t = wait /\ Fail("took too long")
          \/ Fail("could not reach")
          \/ \E to \in Places : Redirect(to)
          \/ \E r \in Replies :
               IF r.status = "sign in" THEN Fail("needs sign in")
               ELSE /\ phase' = "body" /\ reply' = r /\ bytes' = 0
                    /\ UNCHANGED <<told, place, hops, addresses, wait>>

-----------------------------------------------------------------------------
(* The body.                                                               *)

\* Slip: only the socket's own timeout ends a body that dribbles in.
ReadsOn(arrived) ==
  IF bytes = MaxBytes THEN Fail("too much back")
  ELSE /\ bytes' = bytes + 1
       /\ UNCHANGED <<phase, told, place, hops, addresses, wait, reply>>

\* The loop of _read_answer: the clock and the size are asked at every chunk.
TakeChunk(arrived) ==
  IF arrived >= Budget THEN Fail("took too long")
  ELSE IF bytes = MaxBytes THEN Fail("too much back")
  ELSE /\ bytes' = bytes + 1
       /\ UNCHANGED <<phase, told, place, hops, addresses, wait, reply>>

Chunk ==
  /\ phase = "body" /\ UNCHANGED pieces
  /\ \E t \in 0..wait :
       /\ Takes(t)
       /\ \/ t = wait /\ Fail("took too long")
          \/ Fail("could not reach")
          \/ TakeChunk(spent + t)

IsResponse(event) == event.kind \in {"result", "error"} /\ event.id # 0

\* _sse_payload: the first response among the first events of a stream.
FirstResponse(events) ==
  LET responses == {i \in DOMAIN events : i <= MaxEvents /\ IsResponse(events[i])}
  IN  IF responses = {} THEN [kind |-> "unreadable", id |-> 0] ELSE events[Min(responses)]

\* What _read_answer makes of a body it has in full.
Payload ==
  CASE reply.status = "error" -> [kind |-> "unreadable", id |-> 0]
    [] reply.status = "ok" /\ reply.type = "empty" -> [kind |-> "nothing", id |-> 0]
    [] reply.status = "ok" /\ reply.type = "json" -> reply.events[1]
    [] reply.status = "ok" /\ reply.type = "stream" -> FirstResponse(reply.events)

\* _call: the answer to a different question is not an answer.
AnswersTheRequest(payload) == payload.kind = "result" /\ payload.id = RequestId

\* The body ends.  A notification wants no answer; the others want theirs, the
\* handshake one in a version Addison speaks.
BodyEnds ==
  /\ phase = "body" /\ UNCHANGED pieces
  /\ \E t \in 0..wait : Takes(t)
  /\ IF \/ Payload.kind = "unreadable"
        \/ Requests[request] # "initialized" /\ ~AnswersTheRequest(Payload)
     THEN Fail("not a tool server")
     ELSE \/ Requests[request] = "initialize" /\ Fail("unknown version")
          \/ /\ session' \in {session, "handle"}
             /\ place' = Home /\ hops' = 0 /\ addresses' = 0 /\ wait' = 0
             /\ reply' = NoReply /\ bytes' = 0 /\ UNCHANGED outcome
             /\ IF request < Len(Requests)
                THEN request' = request + 1 /\ phase' = "post"
                ELSE UNCHANGED request /\ phase' = "answered"

\* What the answer holds is put into parts; Result(content) is what a model reads.
Answered ==
  /\ phase = "answered" /\ UNCHANGED <<spent, pieces>>
  /\ \/ Fail("not a tool server")
     \/ /\ \E content \in Contents : outcome' = [said |-> "answer", content |-> content]
        /\ phase' = "over" /\ session' = Nothing
        /\ UNCHANGED <<request, conn>>

-----------------------------------------------------------------------------

ExchangeInit ==
  /\ phase = "post" /\ request = 1 /\ spent = 0
  /\ place = Home /\ hops = 0 /\ addresses = 0 /\ wait = 0 /\ pieces = 0
  /\ reply = NoReply /\ bytes = 0
  /\ session = Nothing /\ outcome = [said |-> Nothing]

ExchangeNext ==
  \/ Post \/ Vet \/ TryAddress \/ HeadPiece \/ ResponseHead \/ Chunk \/ BodyEnds \/ Answered

\* Every wait ends, by the timeout it was given at the latest.
ExchangeSpec == ExchangeInit /\ [][ExchangeNext]_exchangeVars /\ WF_exchangeVars(ExchangeNext)

-----------------------------------------------------------------------------
(* Properties.                                                             *)

\* mcp_client, "ONE CALL, ONE SESSION, ONE BUDGET", as far as it is kept: with three
\* requests, redirects, several addresses each and bodies that dribble in, the person has
\* waited no longer than the budget and the attempt that began in its last moment, or one
\* lookup.  The attempt is three waits on a socket (to connect, to agree on a cipher, for
\* a last piece), and one more for every piece that was sent or came ahead of it: the
\* server says how many.
InTime ==
  \/ spent <= Budget + (pieces + 3) * SocketTimeout
  \/ spent < Budget + MaxLookup

\* A call to a server ends, one that never stops sending included.
CallEnds == <>(phase = "over")

\* redaction ahead of every cut and of the serializer: no character of what is a key of
\* one word, at a boundary, to somebody who reads what the tool sent (in its text, or in a
\* key or a value of its structured answer) is in what the model reads, wherever invisible
\* characters cut the key in pieces, a cap falls into it or the serializer would have
\* written it differently.
KeysStayBehind ==
  outcome.said = "answer" => KeepsKeysBack(outcome.content, Result(outcome.content))

\* compose_result: what a model reads of an answer fits one budget across both channels.
\* Of the text and the document as they were redacted whatever is not there is told: a cut
\* with two numbers, what the whole answer held and what of it is here, a document in full
\* or as one too big to pass on; and an answer of nothing says so.
LeftOutIsTold ==
  outcome.said = "answer" => TellsWhatIsMissing(outcome.content, Result(outcome.content))
===============================================================================
