-------------------------------- MODULE Routing --------------------------------
(***************************************************************************)
(* Which model answers (agent_core/orchestrator.py, providers/router.py,   *)
(* rpc/routing.py, rpc/providers.py, rpc/models.py, rpc/conversation.py).  *)
(*                                                                         *)
(* A provider's models live in two places: the catalog, which names the    *)
(* provider of each model, and the router's pool, which holds what will be *)
(* asked.  A message turns into a chain of candidates from both; the turn  *)
(* walks the chain until a candidate answers, within limits of time,       *)
(* rounds and calls.  The setup relay is an outside service for a person   *)
(* who has no key yet.                                                     *)
(***************************************************************************)
EXTENDS Naturals, Sequences, FiniteSets, SequencesExt

CONSTANTS
  Clouds,      \* cloud providers
  Home,        \* the one whose models are built in (anthropic)
  Builtin,     \* its built-in catalog, a sequence of model ids
  Lists,       \* the model lists each provider may answer with
  Locals,      \* the models of this computer, in order
  Rank,        \* quality_rank of each cloud model, from 1
  Free,        \* models that cost nothing
  CustomLists, \* the orders a person may choose
  MaxRounds, MaxCalls,
  MaxActs      \* bound: what the person does, messages and relaunches included

ASSUME RoutingAssumption ==
  /\ Home \in Clouds /\ Builtin # <<>>
  /\ {MaxRounds, MaxCalls} \subseteq Nat \ {0} /\ MaxActs \in Nat

\* The names of this computer and of the relay are no provider's, and neither is "unknown".
ASSUME ModelsAssumption ==
  /\ IsFiniteSet(Clouds) /\ {"ollama", "relay", "unknown"} \cap Clouds = {}
  /\ Rank \in [DOMAIN Rank -> Nat]
  /\ Builtin \in Seq(DOMAIN Rank) /\ Lists \in [Clouds -> SUBSET Seq(DOMAIN Rank)]
  /\ Locals \in Seq(Range(Locals))
  /\ CustomLists \subseteq Seq(DOMAIN Rank \cup Range(Locals))

VARIABLES
  pool,      \* _primary_models: which provider's client stands behind each id
  selected,  \* _selected_primary
  catalog,   \* _cloud_catalog: the provider each id belongs to
  loaded,    \* _cloud_catalog_loaded
  rows,      \* provider_config
  keys,      \* providers whose key is in the keychain
  readable,  \* the keychain can be read
  strategy, custom,
  cooled, cooledModels,
  turn,
  acts

connections == <<pool, selected, catalog, loaded, rows>>
settings == <<strategy, custom>>
vars == <<connections, keys, readable, settings, cooled, cooledModels, turn, acts>>

None == "none"
Unknown == "unknown"
LocalIds == Range(Locals)
NoRow == [is |-> FALSE, connected |-> FALSE, rejected |-> FALSE, presence |-> "absent"]

\* The state of one turn; voices, asked and keyed are its history.
Idle == [is |-> "idle", role |-> None, chain |-> <<>>, active |-> <<>>, at |-> 1,
         committed |-> None, noted |-> FALSE, preferredRejected |-> FALSE,
         failed |-> FALSE, rounds |-> 0, calls |-> 0,
         answered |-> None, voices |-> {}, asked |-> {}, keyed |-> FALSE]

-----------------------------------------------------------------------------
(* Sequences by their places.  The prover knows nothing of SelectSeq and   *)
(* SortSeq; it does of a function from places.                             *)

Ahead(i, places, before) == {j \in places : <<j, i>> \in before}

\* The elements of s at some of its places, in the order `before` has those in.
Arranged(s, places, before) ==
  <<>> \o [n \in 1..Cardinality(places) |->
     s[CHOOSE i \in places : Cardinality(Ahead(i, places, before)) = n - 1]]

\* The same in the order they have.
At(s, places) == Arranged(s, places, {p \in places \X places : p[1] < p[2]})

-----------------------------------------------------------------------------
(* The catalog and the pool.                                               *)

Ids(s) == {s[i].id : i \in DOMAIN s}
From(p, list) == [i \in DOMAIN list |-> [id |-> list[i], provider |-> p]]

\* find_cloud_model, whose entry names the provider.
FindCloudModel(m) ==
  IF m \in Ids(catalog) THEN (CHOOSE e \in Range(catalog) : e.id = m).provider ELSE Unknown

\* merge_catalogs: the first to claim an id keeps it.
MergeCatalogs(one, other) == one \o At(other, {i \in DOMAIN other : other[i].id \notin Ids(one)})

\* Less what is a provider's.
Without(p) == At(catalog, {i \in DOMAIN catalog : catalog[i].provider # p})

\* _set_provider_models replaces the provider's slice of the catalog.
SetProviderModels(p, list) ==
  catalog' = MergeCatalogs(Without(p), From(p, list))

\* register_primary_model: the last to register an id stands behind it, in the first's place.
Registered(s, p, list) ==
  LET again == [i \in DOMAIN s |-> IF s[i].id \in Range(list) THEN [s[i] EXCEPT !.provider = p] ELSE s[i]] IN
  MergeCatalogs(again, From(p, list))
RegisterPrimaryModels(p, list) ==
  /\ pool' = Registered(pool, p, list)
  /\ selected' = IF selected = None /\ list # <<>> THEN Head(list) ELSE selected

\* unregister_primary_model, of each id in ms.
UnregisterPrimaryModels(ms) ==
  /\ pool' = At(pool, {i \in DOMAIN pool : pool[i].id \notin ms})
  /\ selected' = IF selected \notin ms THEN selected
                 ELSE IF pool' = <<>> THEN None ELSE Head(pool').id

-----------------------------------------------------------------------------
(* provider_config.                                                        *)

\* What the keychain says of a provider's key right now.
PresenceNow(p) == IF ~readable THEN "unknown" ELSE IF p \in keys THEN "present" ELSE "absent"

UpsertProviderConfig(p, connected, rejected) ==
  [rows EXCEPT ![p] = [is |-> TRUE, connected |-> connected, rejected |-> rejected, presence |-> PresenceNow(p)]]

\* record_secret_presence: a new row is connected when the key is there.
RecordSecretPresence(p) ==
  [rows EXCEPT ![p] = IF @.is THEN [@ EXCEPT !.presence = PresenceNow(p)]
                      ELSE [NoRow EXCEPT !.is = TRUE, !.connected = (PresenceNow(p) = "present"),
                                         !.presence = PresenceNow(p)]]

\* record_key_rejected, which leaves connected and presence alone.
RecordKeyRejected(p) ==
  IF p \notin Clouds THEN rows
  ELSE [rows EXCEPT ![p] = IF @.is THEN [@ EXCEPT !.rejected = TRUE]
                           ELSE [NoRow EXCEPT !.is = TRUE, !.rejected = TRUE, !.presence = "unknown"]]

OtherCloudProviderConnected == \E p \in Clouds \ {Home} : rows[p].connected

-----------------------------------------------------------------------------
(* The chain.                                                              *)

Cloud(e) == [id |-> e.id, provider |-> FindCloudModel(e.id),
             rank |-> IF e.id \in Ids(catalog) THEN Rank[e.id] ELSE 0,
             free |-> e.id \in Ids(catalog) /\ e.id \in Free, local |-> FALSE]
Local(m) == [id |-> m, provider |-> "ollama", rank |-> 0, free |-> TRUE, local |-> TRUE]
RoutingCandidates ==
  [i \in DOMAIN pool |-> Cloud(pool[i])] \o [i \in DOMAIN Locals |-> Local(Locals[i])]

OnlyLocal(cs) == At(cs, {i \in DOMAIN cs : cs[i].local})
OnlyCloud(cs) == At(cs, {i \in DOMAIN cs : ~cs[i].local})

\* This computer last, the others by rank, an unknown one (0) before every known one.
Stronger(c, d) == (~c.local /\ d.local) \/ (c.local = d.local /\ c.rank < d.rank)
\* _quality_order, a stable sort.
QualityOrder(cs) ==
  Arranged(cs, DOMAIN cs,
           {p \in (DOMAIN cs) \X (DOMAIN cs) :
              \/ Stronger(cs[p[1]], cs[p[2]])
              \/ p[1] < p[2] /\ ~Stronger(cs[p[2]], cs[p[1]])})

Headed(head, cs) == At(cs, {i \in DOMAIN cs : cs[i].id = head})
Rest(head, cs) == At(cs, {i \in DOMAIN cs : cs[i].id # head})

QualityFirst(cs, head) == Headed(head, cs) \o QualityOrder(Rest(head, cs))
CostFirst(cs, head) ==
  LET paid == At(cs, {i \in DOMAIN cs : ~cs[i].free}) IN
  At(cs, {i \in DOMAIN cs : cs[i].free}) \o Headed(head, paid) \o QualityOrder(Rest(head, paid))
LocalOnly(cs, head) == Headed(head, OnlyLocal(cs)) \o Rest(head, OnlyLocal(cs))
CustomChain(cs, head) ==
  LET still == At(custom, {i \in DOMAIN custom : custom[i] \in Ids(cs)}) IN
  IF still = <<>> THEN QualityFirst(cs, head)
  ELSE [i \in DOMAIN still |-> CHOOSE c \in Range(cs) : c.id = still[i]]

ResolveChain(how, cs, head) ==
  CASE how = "local_only" -> LocalOnly(cs, head)
    [] how = "custom"     -> CustomChain(cs, head)
    [] how = "cost_first" -> CostFirst(cs, head)
    [] OTHER              -> QualityFirst(cs, head)

\* _routing_chain; an empty chain sends a turn down the single path, but never a local one.
ChainIgnoresTheRole(role, pick) == ResolveChain("quality_first", RoutingCandidates, pick)
RoutingChain(role, pick) ==
  LET all == RoutingCandidates
      local == IF pick # None THEN pick ELSE IF Locals = <<>> THEN None ELSE Head(Locals) IN
  IF role = "local" \/ strategy = "local_only" THEN LocalOnly(all, local)
  ELSE IF pick \in LocalIds THEN QualityFirst(OnlyLocal(all), pick)
  ELSE IF pick # None THEN QualityFirst(OnlyCloud(all), pick)
  ELSE ResolveChain(strategy, all, selected)

-----------------------------------------------------------------------------
(* Settings and connections.                                               *)

Init ==
  /\ pool = From(Home, Builtin) /\ catalog = From(Home, Builtin)
  /\ selected = Head(Builtin)
  /\ loaded = FALSE
  /\ rows = [p \in Clouds |-> NoRow]
  /\ keys \in SUBSET {Home} /\ readable = TRUE
  /\ strategy = "quality_first" /\ custom = <<>>
  /\ cooled = {} /\ cooledModels = {}
  /\ turn = Idle /\ acts = 0

BetweenTurns == turn.is \notin {"walk", "single"}
Act == acts < MaxActs /\ acts' = acts + 1
Configure == BetweenTurns /\ Act /\ UNCHANGED <<keys, readable, cooled, cooledModels, turn>>

\* routing.set
RoutingSet ==
  /\ Configure /\ UNCHANGED connections
  /\ \/ strategy' \in {"quality_first", "cost_first", "local_only", "custom"} \ {strategy}
        /\ UNCHANGED custom
     \/ custom' \in {c \in CustomLists : Range(c) \subseteq Ids(pool) \cup LocalIds} \ {custom}
        /\ UNCHANGED strategy

\* provider.connect
ProviderConnect(p) ==
  /\ Configure /\ UNCHANGED <<settings, loaded>>
  /\ \/ \E list \in Lists[p] :
          /\ RegisterPrimaryModels(p, list)
          /\ SetProviderModels(p, list)
          /\ rows' = UpsertProviderConfig(p, TRUE, FALSE)
     \/ /\ rows' = UpsertProviderConfig(p, FALSE, rows[p].rejected)
        /\ UNCHANGED <<pool, selected, catalog>>

\* provider.disconnect, of a provider that was never connected too.
ProviderDisconnect(p) ==
  /\ Configure /\ UNCHANGED <<settings, loaded>>
  /\ rows' = [rows EXCEPT ![p] = NoRow]
  /\ UnregisterPrimaryModels({e.id : e \in {x \in Range(catalog) : x.provider = p}})
  /\ catalog' = Without(p)

\* _maybe_load_live_catalog: once a key may be there, and only until it has worked.
LoadLiveCatalog ==
  /\ BetweenTurns /\ ~loaded /\ rows[Home].presence # "absent"
  /\ readable /\ Home \in keys
  /\ loaded' = TRUE
  /\ \E list \in Lists[Home] : SetProviderModels(Home, list) /\ RegisterPrimaryModels(Home, list)
  /\ UNCHANGED <<rows, keys, readable, settings, cooled, cooledModels, turn, acts>>

\* The keychain is the shell's and the person's; a turn looks into it once, as it begins.
KeychainChanges ==
  /\ BetweenTurns /\ Act
  /\ \/ \E p \in Clouds : keys' \in {keys \cup {p}, keys \ {p}} \ {keys} /\ UNCHANGED readable
     \/ readable' = ~readable /\ UNCHANGED keys
  /\ UNCHANGED <<connections, settings, cooled, cooledModels, turn>>

\* The lists of some providers one after another, whichever comes first.
OneAfterAnother(lists) ==
  LET entries == UNION {Range(From(p, lists[p])) : p \in DOMAIN lists} IN
  {s \in [1..Cardinality(entries) -> entries] :
     \A p \in DOMAIN lists :
       \E k \in 0..Cardinality(entries) : \A i \in DOMAIN lists[p] :
         i + k \in DOMAIN s /\ s[i + k] = From(p, lists[p])[i]}

\* A launch: the built-in catalog, then _maybe_reconnect_saved_providers.
Relaunch ==
  /\ Act
  /\ \E got \in SUBSET {p \in Clouds \ {Home} : rows[p].connected} :
       \E lists \in {f \in [got -> UNION {Lists[p] : p \in got}] : \A p \in got : f[p] \in Lists[p]} :
       \E more \in OneAfterAnother(lists) :
         /\ pool' = MergeCatalogs(From(Home, Builtin), more)
         /\ catalog' = MergeCatalogs(From(Home, Builtin), more)
  /\ selected' = Head(Builtin) /\ loaded' = FALSE
  /\ cooled' = {} /\ cooledModels' = {} /\ turn' = Idle
  /\ UNCHANGED <<rows, keys, readable, settings>>

\* A cooldown runs out: sixty seconds, whenever that is; only RunTurn reads it.
CooldownEnds ==
  /\ BetweenTurns /\ cooled \cup cooledModels # {}
  /\ \E x \in cooled \cup cooledModels : cooled' = cooled \ {x} /\ cooledModels' = cooledModels \ {x}
  /\ UNCHANGED <<connections, keys, readable, settings, turn, acts>>

-----------------------------------------------------------------------------
(* A message.                                                              *)

\* _selection_error
SelectionError(role, pick) ==
  pick # None /\ IF role = "local" THEN pick \notin LocalIds
                 ELSE catalog # <<>> /\ pick \notin Ids(catalog)

\* Under local_only a cloud pick is refused, and so is an empty pool.
LocalOnlyRefuses(role, pick) ==
  strategy = "local_only" /\ (role = "primary" \/ (pick # None /\ pick \notin LocalIds) \/ LocalIds = {})

\* may_reach_setup_relay, of what the turn's own look into the keychain said.
UnreadableMeansNoKey == PresenceNow(Home) # "present" /\ ~OtherCloudProviderConnected
MayReachSetupRelay == PresenceNow(Home) = "absent" /\ ~OtherCloudProviderConnected

\* run_turn: the chain, less what is cooling down unless everything is.
RunTurn(role, pick) ==
  LET chain == IF role = "setup" THEN <<>> ELSE RoutingChain(role, pick)
      warm == At(chain, {i \in DOMAIN chain : chain[i].provider \notin cooled
                                                /\ chain[i].id \notin cooledModels}) IN
  turn' = [Idle EXCEPT
    !.is = IF role = "setup" \/ (chain = <<>> /\ role # "local" /\ pick \notin LocalIds)
           THEN "single" ELSE "walk",
    !.role = role, !.chain = chain, !.active = IF warm = <<>> THEN chain ELSE warm,
    !.keyed = Home \in keys]

\* _run_send_message up to run_turn; a refusal leaves no more than what the probe wrote.
SendMessage(asked, pick) ==
  LET role == IF strategy = "local_only" \/ asked = "local" THEN "local" ELSE "primary"
      primary == role # "local" IN
  /\ BetweenTurns /\ Act
  /\ ~SelectionError(asked, pick) /\ ~LocalOnlyRefuses(asked, pick)
  /\ rows' = IF primary THEN RecordSecretPresence(Home) ELSE rows
  /\ IF primary /\ MayReachSetupRelay
       THEN \/ RunTurn("setup", pick)
            \/ turn' = Idle                    \* the Developer profile asks for a key
       ELSE IF primary /\ PresenceNow(Home) = "unknown" THEN turn' = Idle
       ELSE RunTurn(role, pick)
  /\ UNCHANGED <<pool, selected, catalog, loaded, keys, readable, settings, cooled, cooledModels>>

-----------------------------------------------------------------------------
(* The turn.                                                               *)

\* What a send ends in.
Failures == {"key_rejected", "unavailable", "model_gone", "rejected"}

\* What is left of a turn is what it did.
Ends(t, how) == [Idle EXCEPT !.is = how, !.role = t.role, !.asked = t.asked, !.keyed = t.keyed,
                             !.voices = t.voices, !.answered = t.answered, !.noted = t.noted]

\* One answer with tool calls: a round is used, and calls beyond the budget are not run.
AfterTools(t, n, provider) ==
  LET over == t.calls + n > MaxCalls \/ t.rounds + 1 >= MaxRounds IN
  IF over THEN Ends(t, "over_budget")
  ELSE [t EXCEPT !.calls = @ + n, !.rounds = @ + 1, !.committed = provider]

\* The candidate to ask next: once a tool round is done, only of the same provider.
Eligible(t) == {i \in t.at..Len(t.active) : t.committed \in {None, t.active[i].provider}}
Candidate ==
  LET left == Eligible(turn) IN IF left = {} THEN 0 ELSE CHOOSE i \in left : \A j \in left : i <= j

\* _DeltaRelay: text, when the client has a window for it.
Relayed(t, text, m) == IF text THEN [t EXCEPT !.voices = @ \cup {m}] ELSE t
Shown(t) == t.voices # {}

\* The server behind a candidate.
Server(c) == IF c.local THEN "ollama" ELSE (CHOOSE e \in Range(pool) : e.id = c.id).provider

\* The note only after a failure of this turn forgets the candidates that were cooling down.
NotedIfTried(t, c) ==
  [t EXCEPT !.noted = @ \/ (t.failed /\ ~t.preferredRejected /\ c.id # t.chain[1].id)]
\* The fallback note, once, unless the person's own choice refused the key.
Noted(t, c) ==
  [t EXCEPT !.noted = @ \/ (~t.preferredRejected /\ c.id # t.chain[1].id)]

Answered(c, text) ==
  LET t == Noted(Relayed([turn EXCEPT !.asked = @ \cup {Server(c)}], text, c.id), c) IN
  /\ turn' = Ends([t EXCEPT !.answered = c.id], "answered")
  /\ UNCHANGED <<rows, cooled, cooledModels>>

CallsTools(c, text, n) ==
  LET t == Noted(Relayed([turn EXCEPT !.asked = @ \cup {Server(c)}], text, c.id), c) IN
  /\ turn' = AfterTools([t EXCEPT !.at = Candidate], n, c.provider)
  /\ UNCHANGED <<rows, cooled, cooledModels>>

MovesRound(i) == IF i = Len(turn.active) THEN 1 ELSE i + 1
MovesOn(i) == i + 1

MoveOnRegardless(t, how) == how # "rejected"
\* A failure moves on only when it is of a kind another candidate may not share, and
\* only while nothing of this turn is on the screen.
MayMoveOn(t, how) == how # "rejected" /\ ~Shown(t)

Fails(c, text, how) ==
  LET t == [Relayed([turn EXCEPT !.asked = @ \cup {Server(c)}], text, c.id) EXCEPT
              !.preferredRejected = @ \/ (how = "key_rejected" /\ c.provider = turn.chain[1].provider)]
      on == MayMoveOn(t, how) IN
  /\ rows' = IF how = "key_rejected" THEN RecordKeyRejected(c.provider) ELSE rows
  /\ turn' = IF on THEN [t EXCEPT !.at = MovesOn(Candidate), !.failed = TRUE] ELSE Ends(t, "failed")
  /\ cooled' = IF on /\ how \in {"key_rejected", "unavailable"} THEN cooled \cup {c.provider} ELSE cooled
  /\ cooledModels' = IF on /\ how = "model_gone" THEN cooledModels \cup {c.id} ELSE cooledModels

\* _run_with_fallback: one send.
Attempt ==
  /\ turn.is = "walk" /\ Candidate # 0
  /\ LET c == turn.active[Candidate] IN
     \/ \E text \in BOOLEAN : Answered(c, text)
     \/ \E text \in BOOLEAN, n \in 1..MaxCalls + 1 : CallsTools(c, text, n)
     \/ \E text \in BOOLEAN, how \in Failures : Fails(c, text, how)
  /\ UNCHANGED <<pool, selected, catalog, loaded, keys, readable, settings, acts>>

\* The chain is used up, or the turn's 120 seconds, waiting for the person included.
GivesUp ==
  /\ turn.is = "walk"
  /\ turn' = Ends(turn, IF turn.failed THEN "failed" ELSE "no_model")
  /\ UNCHANGED <<connections, keys, readable, settings, cooled, cooledModels, acts>>
Exhausted == Candidate = 0 /\ GivesUp
TimesOut == Candidate # 0 /\ GivesUp

\* _run_single: the relay, or what stands for the primary role; any failure ends it.
SingleSend ==
  /\ turn.is = "single"
  /\ LET at == IF turn.role = "setup" THEN "relay" ELSE Home
         t == [turn EXCEPT !.asked = @ \cup {at}] IN
     \/ turn' = Ends(t, "answered")
     \/ \E n \in 1..MaxCalls + 1 : turn' = AfterTools(t, n, None)
     \/ turn' = Ends(t, "failed")
  /\ UNCHANGED <<connections, keys, readable, settings, cooled, cooledModels, acts>>

TurnStep == Attempt \/ Exhausted \/ SingleSend

Next ==
  \/ RoutingSet \/ LoadLiveCatalog \/ KeychainChanges \/ Relaunch \/ CooldownEnds
  \/ \E p \in Clouds : ProviderConnect(p) \/ ProviderDisconnect(p)
  \/ \E role \in {None, "primary", "local"}, pick \in {None} \cup Ids(pool) \cup LocalIds :
       SendMessage(role, pick)
  \/ TurnStep \/ TimesOut

\* The worker runs a turn to its end; a provider answers or its deadline passes.
Spec == Init /\ [][Next]_vars /\ WF_vars(TurnStep)

-----------------------------------------------------------------------------
(* A turn that is to stay on this computer asks no one else: neither a cloud model nor *)
(* the setup relay, whatever is cooling down, missing or disconnected                   *)
(* (rpc/routing.py _routing_chain, rpc/conversation.py "no model call leaves this       *)
(* machine").                                                                          *)
LocalTurnsStayLocal == turn.role = "local" => turn.asked \subseteq {"ollama"}

(* A message reaches the setup relay only when the person's key was not in the keychain *)
(* as the turn began; a keychain that cannot be read is no reason                       *)
(* (secret_presence.py may_reach_setup_relay).                                          *)
RelayOnlyWithoutAKey == "relay" \in turn.asked => ~turn.keyed

(* One message on the screen is one model's: after some of it was shown, no other       *)
(* candidate adds to it (orchestrator.py _run_with_fallback, _DeltaRelay).              *)
OneVoice == Cardinality(turn.voices) <= 1

(* When another model than the person's own choice answers, the person is told: by the  *)
(* note of this turn, or by the rejection recorded for that choice's provider           *)
(* (orchestrator.py "the exact quiet substitution the note exists to surface").  One    *)
(* substitution is silent by intent: a choice on this computer whose server refused the *)
(* call as if for a key (_record_key_rejected, "degrades through the same chain walk    *)
(* either way, silently").  A model that left the catalog has no provider to record a   *)
(* rejection for.                                                                       *)
SubstitutionIsTold ==
  [][turn'.is = "answered" /\ turn.is = "walk" /\ turn.chain[1].provider \in Clouds \cup {"ollama"} =>
       \/ turn'.answered = turn.chain[1].id
       \/ turn'.noted
       \/ IF turn.chain[1].provider = "ollama" THEN turn.preferredRejected
          ELSE rows[turn.chain[1].provider].rejected]_vars

(* Every turn ends, however its candidates fail.                                        *)
TurnEnds == turn.is \in {"walk", "single"} ~> BetweenTurns

(* "drop that provider's models from the picker union and the router pool":             *)
(* after provider.disconnect nothing in the pool is that provider's                     *)
(* (rpc/providers.py _provider_disconnect).                                             *)
DisconnectDropsThePool ==
  [][\A p \in Clouds : ProviderDisconnect(p) => \A e \in Range(pool') : e.provider # p]_vars
=============================================================================
