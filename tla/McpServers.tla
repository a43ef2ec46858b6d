------------------------------ MODULE McpServers ------------------------------
(***************************************************************************)
(* Tool servers (agent_core/rpc/mcp.py, mcp_catalog.py, mcp_client.py,     *)
(* tools/registry.py): the saved rows, what a check of a server finds, and *)
(* the ids it puts into the one registry every dispatch looks in.  The     *)
(* rows are captured by restore points; what was found is in memory only.  *)
(*                                                                         *)
(* This module has the state and the operations; Routines puts them beside *)
(* the routines that share the registry, on the one worker both run on.    *)
(***************************************************************************)
EXTENDS Naturals, Sequences, FiniteSets, SequencesExt

CONSTANTS
  ServerNames,
  Unusable,     \* what a server may offer that is no tool's name
  Answers,      \* how a server may answer a check: [hello, pages]
  Native,       \* Addison's own tools
  OpenOnly,     \* those of them only Developer may run
  LiveOnly,     \* those of them no stored plan may name
  MaxTools,     \* mcp_client.MAX_TOOLS_PER_SERVER
  MaxPages,     \* mcp_client._MAX_PAGES
  MaxServers    \* bound: rows ever added

ASSUME ServersAssumption ==
  /\ {MaxTools, MaxPages} \subseteq Nat \ {0} /\ MaxServers \in Nat
  /\ OpenOnly \cup LiveOnly \subseteq Native
  /\ \A answer \in Answers :
       /\ answer.pages \in Seq(Range(answer.pages))
       /\ \A n \in DOMAIN answer.pages :
            answer.pages[n].entries \in Seq(Range(answer.pages[n].entries))

None == "none"

VARIABLES
  servers,      \* the mcp_servers table: [id, name]; an id has one address for good
  minted,       \* row ids given out
  found,        \* _by_server: what the last check of a server came to
  idsOf,        \* _ids_by_server
  registry,     \* the removable tools: the registry's id and the server it came from
  mode          \* the profile: Developer and Custom are OPEN

catalog == <<found, idsOf, registry>>
serverVars == <<servers, minted, catalog, mode>>

Modes == {"safe", "open"}

-----------------------------------------------------------------------------
(* The registry.                                                           *)

\* mcp:<server>:<tool>; the server's name, never its row.
ToolId(name, tool) == <<"mcp", name, tool>>

Registered == {entry.id : entry \in registry}
Has(id) == id \in Native \/ id \in Registered

\* Every discovered tool is registered dev_only.
DevOnly(id) == id \in OpenOnly \/ id \in Registered
Visible(id, m) == Has(id) /\ (m = "open" \/ ~DevOnly(id))

-----------------------------------------------------------------------------
(* A check: the handshake, then the pages of tools/list.                   *)

TakeEntry(so, entry) ==
  IF /\ Len(so.admitted) < MaxTools
     /\ entry \notin Unusable /\ entry \notin Range(so.admitted)
  THEN [so EXCEPT !.admitted = Append(@, entry)]
  ELSE [so EXCEPT !.skipped = @ + 1]

TakeEntries(so, entries) ==
  LET taken[n \in 0..Len(entries)] ==
        IF n = 0 THEN so ELSE TakeEntry(taken[n - 1], entries[n])
  IN  taken[Len(entries)]

\* Slip: the pages a limit keeps Addison from asking for are not counted.
EndsUncounted(so, next) ==
  IF next = None \/ next \in so.cursors \/ Len(so.admitted) >= MaxTools \/ so.page = MaxPages
  THEN [so EXCEPT !.over = TRUE]
  ELSE [so EXCEPT !.cursors = @ \cup {next}, !.page = @ + 1]

\* A cursor that was there before ends the walk; one not followed because of a
\* limit counts as something left behind.
TurnPage(so, next) ==
  IF next = None \/ next \in so.cursors THEN [so EXCEPT !.over = TRUE]
  ELSE IF Len(so.admitted) >= MaxTools \/ so.page = MaxPages
  THEN [so EXCEPT !.over = TRUE, !.skipped = @ + 1]
  ELSE [so EXCEPT !.cursors = @ \cup {next}, !.page = @ + 1]

ReadPage(so, page) ==
  IF so.over THEN so ELSE TurnPage(TakeEntries(so, page.entries), page.next)

NothingListed == [admitted |-> <<>>, skipped |-> 0, cursors |-> {}, page |-> 1, over |-> FALSE]

ListTools(pages) ==
  LET listed[n \in 0..Len(pages)] ==
        IF n = 0 THEN NothingListed ELSE ReadPage(listed[n - 1], pages[n])
  IN  listed[Len(pages)]

\* Any reply but the one the session asked for ends it, a page that never
\* comes included.
Lands(answer) == answer.hello = "result" /\ ListTools(answer.pages).over

-----------------------------------------------------------------------------
(* The catalog.                                                            *)

IdsOf(s) == IF s \in DOMAIN idsOf THEN idsOf[s] ELSE {}

Keeping(f, keep) == [s \in DOMAIN f \cap keep |-> f[s]]
With(f, s, value) == [t \in DOMAIN f \cup {s} |-> IF t = s THEN value ELSE f[t]]

\* _drop_registrations; an id not in the registry is no error.
Dropped(s) == {entry \in registry : entry.id \notin IdsOf(s)}

\* _register_all, for the tools of one check, all of different names: the ids of
\* the check before go first, and an id that is taken is refused, never replaced.
Refused(row, tools) ==
  {tool \in tools : \/ ToolId(row.name, tool) \in Native
                    \/ \E entry \in Dropped(row.id) : entry.id = ToolId(row.name, tool)}

NewIds(row, tools) == {ToolId(row.name, tool) : tool \in tools \ Refused(row, tools)}

RegisterAll(row, tools) ==
  Dropped(row.id) \cup {[id |-> id, server |-> row.id] : id \in NewIds(row, tools)}

\* record_success, when every registration went well.
RecordSuccess(row, listed) ==
  LET tools == Range(listed.admitted)
  IN  /\ registry' = RegisterAll(row, tools)
      /\ idsOf' = With(idsOf, row.id, NewIds(row, tools))
      /\ found' = With(found, row.id,
                       [status |-> "ok", tools |-> tools,
                        refused |-> Refused(row, tools), skipped |-> listed.skipped])

\* Slip: what was registered before it raised stays registered.
KeepsWhatItTook(row, done) == RegisterAll(row, done)

\* What a registration that raised after `done` leaves: the ids of this call are
\* taken out again and the server counts as never checked.
Unwound(row, done) ==
  {entry \in RegisterAll(row, done) : entry.id \notin NewIds(row, done)}

RecordBroken(row, done) ==
  /\ registry' = Unwound(row, done)
  /\ idsOf' = With(idsOf, row.id, {})
  /\ found' = Keeping(found, DOMAIN found \ {row.id})

RecordFailure(row) ==
  /\ registry' = Dropped(row.id)
  /\ idsOf' = Keeping(idsOf, DOMAIN idsOf \ {row.id})
  /\ found' = With(found, row.id,
                   [status |-> "failed", tools |-> {}, refused |-> {}, skipped |-> 0])

\* forget, for the servers that are gone.
Forget(gone) ==
  /\ registry' = {entry \in registry : \A s \in gone : entry.id \notin IdsOf(s)}
  /\ idsOf' = Keeping(idsOf, DOMAIN idsOf \ gone)
  /\ found' = Keeping(found, DOMAIN found \ gone)

KnownServers == DOMAIN found \cup DOMAIN idsOf

-----------------------------------------------------------------------------
(* The methods.  Each is one job of the worker; the caller takes care of   *)
(* the restore point an added or removed server mints.                     *)

McpAdd(name) ==
  /\ mode = "open" /\ minted < MaxServers
  /\ \A row \in servers : row.name # name
  /\ minted' = minted + 1
  /\ servers' = servers \cup {[id |-> minted', name |-> name]}
  /\ UNCHANGED <<catalog, mode>>

\* In every mode; a capture that fails refuses the removal.
McpRemove(row) ==
  /\ servers' = servers \ {row}
  /\ Forget({row.id})
  /\ UNCHANGED <<minted, mode>>

McpRefresh(row, answer) ==
  /\ mode = "open"
  /\ IF Lands(answer)
     THEN RecordSuccess(row, ListTools(answer.pages))
     ELSE RecordFailure(row)
  /\ UNCHANGED <<servers, minted, mode>>

McpRefreshBreaks(row, answer, n) ==
  /\ mode = "open" /\ Lands(answer)
  /\ n < Len(ListTools(answer.pages).admitted)
  /\ RecordBroken(row, Range(SubSeq(ListTools(answer.pages).admitted, 1, n)))
  /\ UNCHANGED <<servers, minted, mode>>

\* The part of a restore that concerns servers: the rows of the point, then
\* the ids of servers they do not hold.
ServersRestored(rows) ==
  /\ servers' = rows
  /\ Forget(KnownServers \ {row.id : row \in rows})

\* _mcp_endpoint_for: the address at the moment of use, or nothing.
Endpoint(entry) ==
  LET rows == {row \in servers : row.id = entry.server /\ row.name = entry.id[2]}
  IN  IF rows = {} THEN 0 ELSE (CHOOSE row \in rows : TRUE).id

\* mcp.list, as the surface renders one row.
Available(s) == found[s].tools \ found[s].refused
NotTaken(s) == found[s].skipped + Cardinality(found[s].refused)

ServersInit ==
  /\ servers = {} /\ minted = 0
  /\ found = <<>> /\ idsOf = <<>> /\ registry = {}
  /\ mode \in Modes

-----------------------------------------------------------------------------
(* Properties.                                                             *)

\* What Addison believes a server offers and what is registered for it move
\* together (class McpCatalog): a tool in the registry belongs to one saved
\* server under its present name, and a server shown as checked has exactly the
\* tools it shows, through removals, restores, a check that fails and a
\* registration that breaks half-way.
ToolsBelongToServers ==
  /\ \A entry \in registry :
       /\ Endpoint(entry) = entry.server
       /\ {s \in DOMAIN idsOf : entry.id \in IdsOf(s)} = {entry.server}
  /\ \A row \in servers :
       IdsOf(row.id) =
         IF row.id \in DOMAIN found /\ found[row.id].status = "ok"
         THEN {ToolId(row.name, tool) : tool \in Available(row.id)} ELSE {}

\* The entries of the first n pages.
Heard(pages, n) ==
  LET heard[k \in 0..Len(pages)] ==
        IF k = 0 THEN 0 ELSE heard[k - 1] + Len(pages[k].entries)
  IN  heard[n]

\* The last page asked for named another that was never asked for before.
NamesAnother(pages, page) ==
  pages[page].next # None /\ \A n \in 1..(page - 1) : pages[n].next # pages[page].next

\* What a server's row shows after a check that landed accounts for all of it.
NothingLeftOut(row, answer) ==
  LET page  == ListTools(answer.pages).page
      heard == Heard(answer.pages, page)
      shown == Cardinality(Available(row.id)')
  IN  /\ shown + NotTaken(row.id)' = heard + (IF NamesAnother(answer.pages, page) THEN 1 ELSE 0)
      /\ shown <= MaxTools
      /\ \A tool \in Available(row.id)' :
           \E n \in 1..page : tool \in Range(answer.pages[n].entries)

EveryCheckAccounts ==
  \A row \in servers, answer \in Answers :
    McpRefresh(row, answer) /\ Lands(answer) => NothingLeftOut(row, answer)

\* mcp_client.list_tools and the wire row (skipped + refused): whatever pages a
\* server answers with, the tools shown and the number said to have been left
\* behind are together every entry the server was heard to offer, and exactly one
\* more where the walk stopped short of a page it had not asked for: not where it
\* came to the end, nor where the server sent it in a circle.  No tool is shown
\* that was not offered, nor more than a server may have.
NothingIsDroppedSilently == [][EveryCheckAccounts]_serverVars
===============================================================================
