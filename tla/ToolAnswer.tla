------------------------------ MODULE ToolAnswer ------------------------------
(***************************************************************************)
(* What a model gets to read of a tool server's answer (mcp_client.py:     *)
(* clean_result_text, _structured_answer, trim_result, compose_result;     *)
(* redaction.py; McpTool.execute).                                         *)
(*                                                                         *)
(* A text is a sequence of characters, each with the place it had in the   *)
(* answer.  Of a character only what the code tells apart is kept: whether *)
(* keys are made of it, and then whether a key's prefix ("k") or the word  *)
(* ahead of one ("b", as Bearer) begins with it; whether it is white       *)
(* space, a letter of no key ("letter"), or visible otherwise ("sign");    *)
(* and of what nobody sees, whether it is printable: "hidden" is not (an   *)
(* escape sequence included), "mark" is (the zero-width joiner included),  *)
(* and "filler" is besides a letter to a regular expression.               *)
(*                                                                         *)
(* The rules of redaction.py come in two shapes.  A WORD is a prefix at a  *)
(* word boundary and a body right behind it; a PHRASE is a word, white     *)
(* space, and a body (Bearer, the AWS secret, the lines of a private key). *)
(***************************************************************************)
EXTENDS Naturals, Sequences, FiniteSets, SequencesExt

CONSTANTS
  MaxResult,      \* mcp_client.MAX_RESULT_CHARS
  MaxStructured   \* mcp_client.MAX_STRUCTURED_CHARS

ASSUME CapsAssumption ==
  MaxResult \in Nat /\ MaxStructured \in 0..MaxResult

CredentialAlphabet == {"k", "b", "a"}
VisibleChars == CredentialAlphabet \cup {"blank", "letter", "sign", "redacted"}
Printable    == VisibleChars \cup {"mark", "filler"}

\* What \b of a regular expression takes for part of a word.
WordChars == CredentialAlphabet \cup {"letter", "filler"}

Texts(places) == Seq([ch : Printable \cup {"hidden"}, at : places])

\* What a list has at some of its places, in order.
At(list, places) ==
  LET kept[n \in 0..Len(list)] ==
        IF n = 0 THEN <<>>
        ELSE IF n \in places THEN Append(kept[n - 1], list[n]) ELSE kept[n - 1]
  IN  kept[Len(list)]

VisiblePlaces(text) == {i \in DOMAIN text : text[i].ch \in VisibleChars}

Joined(texts, between) ==
  LET joined[n \in 0..Len(texts)] ==
        IF n = 0 THEN <<>>
        ELSE IF joined[n - 1] = <<>> THEN texts[n]
        ELSE joined[n - 1] \o <<between>> \o texts[n]
  IN  joined[Len(texts)]

-----------------------------------------------------------------------------
(* Cleaning and redacting.                                                 *)

\* Both nearest visible characters are such as keys are made of.
BetweenKeyCharacters(text, i) ==
  LET before == {j \in VisiblePlaces(text) : j < i}
      after  == {j \in VisiblePlaces(text) : j > i}
  IN  /\ before # {} /\ text[Max(before)].ch \in CredentialAlphabet
      /\ after # {} /\ text[Min(after)].ch \in CredentialAlphabet

\* clean_result_text
Clean(text) ==
  At(text, {i \in DOMAIN text :
              \/ text[i].ch \in VisibleChars
              \/ text[i].ch \in Printable /\ ~BetweenKeyCharacters(text, i)})

\* A match begins at i, and the characters of a key go on from there to j.
Begins(text, i, with) == text[i].ch = with /\ (i > 1 => text[i - 1].ch \notin WordChars)
GoesOn(text, i, j) == \A m \in i..j : m \in DOMAIN text /\ text[m].ch \in CredentialAlphabet

\* The places of a text that match a rule of one word, and of several.
IsWord(text, i) == Begins(text, i, "k") /\ GoesOn(text, i, i + 1)
InKey(text) == {n \in DOMAIN text : \E i \in 1..n : IsWord(text, i) /\ GoesOn(text, i, n)}

IsPhrase(text, i, body) ==
  /\ Begins(text, i, "b") /\ body > i + 1
  /\ \A m \in (i + 1)..(body - 1) : m \in DOMAIN text /\ text[m].ch = "blank"
  /\ GoesOn(text, body, body + 1)
InPhrase(text) ==
  {n \in DOMAIN text : \E i \in 1..n, body \in DOMAIN text :
                         IsPhrase(text, i, body) /\ GoesOn(text, body, n)}

\* re.sub: each match makes room for one visible mark, where it began.  Two matches of a
\* rule never touch: neither kind of match can begin right behind another.
Sealed(text, matched) ==
  LET marked == [i \in DOMAIN text |->
                   IF i \in matched THEN [ch |-> "redacted", at |-> text[i].at] ELSE text[i]]
  IN  At(marked, {i \in DOMAIN text : i \in matched => i - 1 \notin matched})

\* redact: one rule after another.
RedactWords(text) == Sealed(text, InKey(text))
Redact(text) ==
  LET once == RedactWords(text) IN Sealed(once, InPhrase(once))

\* str.strip
Strip(text) ==
  LET there == {i \in DOMAIN text : text[i].ch # "blank"}
  IN  IF there = {} THEN <<>> ELSE SubSeq(text, Min(there), Max(there))

-----------------------------------------------------------------------------
(* The two channels of an answer.                                          *)

\* json.dumps: what cannot be printed is written out in characters that can.
Escaped(text) ==
  [i \in DOMAIN text |-> IF text[i].ch = "hidden" THEN [text[i] EXCEPT !.ch = "sign"]
                         ELSE text[i]]
NoPlace == <<0, 0>>
Quote == [ch |-> "sign", at |-> NoPlace]
Break == [ch |-> "blank", at |-> NoPlace]

\* A document is a list of keys with their values, every one of them a text.
Written(entry) == <<Quote>> \o Escaped(entry.key) \o <<Quote>> \o Escaped(entry.value)
Serialized(entries) == Joined([e \in DOMAIN entries |-> Written(entries[e])], Quote)

\* Slip: the document is written out first, and what comes of it cleaned.
ScrubsTheDocument(structured) ==
  [text |-> IF structured.unreadable THEN <<>> ELSE Redact(Clean(Serialized(structured.entries))),
   unreadable |-> structured.unreadable]

\* _scrub_strings: every key and every value by itself.  Keys that now read alike are one
\* key, at the first one's place and with the last one's value: the values between are gone.
Scrub(text) == Redact(Clean(text))
Alike(s, t) == Len(s) = Len(t) /\ \A i \in DOMAIN s : s[i].ch = t[i].ch
SameKey(entries, e) == {d \in DOMAIN entries : Alike(Scrub(entries[d].key), Scrub(entries[e].key))}
ScrubStrings(entries) ==
  At([e \in DOMAIN entries |-> [key   |-> Scrub(entries[e].key),
                                value |-> Scrub(entries[Max(SameKey(entries, e))].value)]],
     {e \in DOMAIN entries : e = Min(SameKey(entries, e))})

\* _structured_answer: scrubbed, then written out.
StructuredAnswer(structured) ==
  [text |-> IF structured.unreadable THEN <<>>
            ELSE Serialized(ScrubStrings(structured.entries)),
   unreadable |-> structured.unreadable]

\* _Session.call_tool: text items and resources that are text, put together;
\* every other item is counted by what it is.
TextKinds == {"text", "resource"}
CarriedText(items) ==
  LET carried == At(items, {i \in DOMAIN items : items[i].kind \in TextKinds})
  IN  Strip(Clean(Joined([i \in DOMAIN carried |-> carried[i].text], Break)))

PartKind(kind) ==
  CASE kind = "image" -> "images"
    [] kind = "audio" -> "sounds"
    [] kind \in {"blob", "resource_link"} -> "files"
    [] OTHER -> "other"
LeftParts(items) ==
  LET left == {i \in DOMAIN items : items[i].kind \notin TextKinds}
  IN  [part \in {"images", "sounds", "files", "other"} |->
         Cardinality({i \in left : PartKind(items[i].kind) = part})]

-----------------------------------------------------------------------------
(* compose_result: the structured answer settles its size first, whole or  *)
(* not at all; the text takes the room that is left; what is left out is   *)
(* said.                                                                   *)

\* Slip: the numbers of the text alone, in a sentence about the answer.
TrimsTheText(text, offered, spent) ==
  LET room == MaxResult - spent
  IN  IF Len(text) <= room THEN [shown |-> text, sent |-> 0, told |-> 0]
      ELSE [shown |-> SubSeq(text, 1, room), sent |-> Len(text), told |-> room]

\* trim_result; sent and told are the numbers in the marker, 0 where there is none.
Trim(text, offered, spent) ==
  LET room == MaxResult - spent
  IN  IF Len(text) <= room THEN [shown |-> text, sent |-> 0, told |-> 0]
      ELSE [shown |-> SubSeq(text, 1, room), sent |-> Len(text) + offered, told |-> room + spent]

Compose(text, structured, parts) ==
  LET offered == Len(structured.text)
      block   == IF offered > MaxStructured THEN <<>> ELSE structured.text
      body    == IF Strip(text) = <<>> THEN [shown |-> <<>>, sent |-> 0, told |-> 0]
                 ELSE Trim(text, offered, Len(block))
  IN  [body |-> body.shown, block |-> block, sent |-> body.sent, told |-> body.told,
       notes |-> (IF structured.unreadable THEN {"unreadable"} ELSE {})
                   \cup (IF offered > MaxStructured THEN {"too big"} ELSE {}),
       parts |-> parts,
       nothing |-> body.shown = <<>> /\ block = <<>>]

\* McpTool.execute, once the answer is there: redacted, then cut.
Result(answer) ==
  Compose(Redact(CarriedText(answer.items)), StructuredAnswer(answer.structured),
          LeftParts(answer.items))

-----------------------------------------------------------------------------
(* What is said of a result, against the answer as it came.                *)

\* To somebody who sees the text a key of one word begins at q: between it and any
\* letter ahead of it, a blank one (a filler) included, stands a character that is seen
\* and is no part of a word.
SeenToBegin(text, q) ==
  /\ text[q].ch = "k"
  /\ \A j \in 1..(q - 1) : text[j].ch \in WordChars =>
       \E m \in (j + 1)..(q - 1) : text[m].ch \in VisibleChars \ WordChars

\* It goes on to y, with another of its characters at least.
SeenToGoOn(text, q, y) ==
  /\ y \in VisiblePlaces(text) /\ q < y
  /\ \A v \in VisiblePlaces(text) : q <= v /\ v <= y => text[v].ch \in CredentialAlphabet

\* The places of what makes a key of one word to somebody who sees the text, whatever
\* nobody sees is in between.
KeyPlaces(text) ==
  {text[i].at : i \in {n \in VisiblePlaces(text) :
     \E q, y \in DOMAIN text : SeenToBegin(text, q) /\ SeenToGoOn(text, q, y) /\ q <= n /\ n <= y}}

\* The places of characters that are shown as they came.
ShownPlaces(text) ==
  {text[i].at : i \in {j \in DOMAIN text : text[j].ch # "redacted"}}

\* Every text of an answer as it came.
RawTexts(answer) ==
  {answer.items[i].text : i \in {j \in DOMAIN answer.items : answer.items[j].kind \in TextKinds}}
    \cup {entry.key : entry \in Range(answer.structured.entries)}
    \cup {entry.value : entry \in Range(answer.structured.entries)}

\* What a server may send: lists of texts, every character at a place of its own.
IsAnswer(answer) ==
  /\ answer.items \in Seq(Range(answer.items))
  /\ answer.structured.entries \in Seq(Range(answer.structured.entries))
  /\ \A text \in RawTexts(answer) : text \in Texts({char.at : char \in Range(text)})
  /\ \A t, u \in RawTexts(answer) : \A i \in DOMAIN t, j \in DOMAIN u :
       /\ t[i].at = u[j].at => t = u /\ i = j
       /\ t[i].at # NoPlace

KeepsKeysBack(answer, result) ==
  (UNION {KeyPlaces(text) : text \in RawTexts(answer)})
    \cap (ShownPlaces(result.body) \cup ShownPlaces(result.block)) = {}

\* Both numbers are the whole answer's: what there was of it, and what is here.
TellsBoth(result, text, document) ==
  /\ result.sent = Len(text) + Len(document)
  /\ result.told = Len(result.body) + Len(result.block)

TellsWhatIsMissing(answer, result) ==
  LET text     == Redact(CarriedText(answer.items))
      document == StructuredAnswer(answer.structured).text
  IN  /\ Len(result.body) + Len(result.block) <= MaxResult
      /\ IF result.body = text THEN result.sent = 0 /\ result.told = 0
         ELSE TellsBoth(result, text, document)
      /\ result.block = document \/ (result.block = <<>> /\ "too big" \in result.notes)
      /\ answer.structured.unreadable => "unreadable" \in result.notes
      /\ result.body = <<>> /\ result.block = <<>> => result.nothing
===============================================================================
