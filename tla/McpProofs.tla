------------------------------ MODULE McpProofs ------------------------------
(***************************************************************************)
(* Tool servers: what they leave in the registry (McpServers), what a      *)
(* routine's run does beside them (Routines), the time one call to a       *)
(* server takes (McpExchange) and what is read of its answer (ToolAnswer). *)
(*                                                                         *)
(* ToolsBelongToServers is not inductive: a check of a server may disturb  *)
(* another's only if an id belonged to both, and a restore brings rows     *)
(* back about which it says nothing.  RowsInv says that an id has one row  *)
(* for good, wherever the row is kept; CatalogInv that the ids known of a  *)
(* server are those registered for it, and of no server that is not there. *)
(*                                                                         *)
(* Loops over lists are recursive functions.  That such a definition has a *)
(* value is shown by taking its steps one after the other (Folded,         *)
(* Repeated), and what it is worth by the least place where it would not   *)
(* be (UpTo, NatHasLeast).                                                 *)
(***************************************************************************)
EXTENDS Routines, McpExchange, FiniteSetTheorems, WellFoundedInduction, TLAPS

Rows == servers \cup UNION {point.servers : point \in points}
ServerIds == {row.id : row \in servers}

\* An id has one row for good.
RowsInv ==
  /\ minted \in Nat
  /\ \A row \in Rows : row.id \in 1..minted
  /\ \A row, other \in Rows : row.id = other.id => row = other

ShownIsKept ==
  \A row \in servers :
    IdsOf(row.id) =
      IF row.id \in DOMAIN found /\ found[row.id].status = "ok"
      THEN {ToolId(row.name, tool) : tool \in Available(row.id)} ELSE {}

\* What is known of a server is what is registered for it.
CatalogInv ==
  /\ DOMAIN found \subseteq ServerIds /\ DOMAIN idsOf \subseteq ServerIds
  /\ \A entry \in registry :
       /\ entry.server \in DOMAIN idsOf
       /\ \A s \in DOMAIN idsOf : entry.id \in idsOf[s] <=> s = entry.server
       /\ \E row \in servers : row.id = entry.server /\ row.name = entry.id[2]
  /\ \A s \in DOMAIN idsOf : \A id \in idsOf[s] : \E entry \in registry : entry.id = id
  /\ ShownIsKept

-----------------------------------------------------------------------------
(* The operators of the catalog.                                           *)

LEMMA KeepingFacts ==
  ASSUME NEW f, NEW keep
  PROVE  /\ DOMAIN Keeping(f, keep) = DOMAIN f \cap keep
         /\ \A s \in DOMAIN f \cap keep : Keeping(f, keep)[s] = f[s]
BY DEF Keeping

LEMMA NameOfToolId == \A name, tool : ToolId(name, tool)[2] = name
BY DEF ToolId

\* What is dropped of a server is what is registered for it.
LEMMA DroppedFacts ==
  ASSUME CatalogInv, NEW s
  PROVE  Dropped(s) = {entry \in registry : entry.server # s}
<1>1. ASSUME NEW entry \in registry PROVE entry.id \in IdsOf(s) <=> entry.server = s
  <2>1. /\ entry.server \in DOMAIN idsOf
        /\ \A t \in DOMAIN idsOf : entry.id \in idsOf[t] <=> t = entry.server
    BY DEF CatalogInv
  <2>2. CASE s \in DOMAIN idsOf
    BY <2>1, <2>2 DEF IdsOf
  <2>3. CASE s \notin DOMAIN idsOf
    BY <2>1, <2>3 DEF IdsOf
  <2> QED
    BY <2>2, <2>3
<1> QED
  BY <1>1 DEF Dropped

\* A registration that broke leaves nothing of its call behind.
LEMMA UnwoundIsDropped ==
  ASSUME NEW row, NEW tools
  PROVE  Unwound(row, tools) = Dropped(row.id)
<1>1. ASSUME NEW entry \in Dropped(row.id) PROVE entry.id \notin NewIds(row, tools)
  BY DEF NewIds, Refused
<1>2. ASSUME NEW id \in NewIds(row, tools), NEW entry, entry = [id |-> id, server |-> row.id]
      PROVE  entry.id \in NewIds(row, tools)
  BY <1>2
<1> QED
  BY <1>1, <1>2 DEF Unwound, RegisterAll

-----------------------------------------------------------------------------
(* The methods, as they change the catalog.                                *)

\* The rows that are there after a step, and what of servers that are gone is
\* forgotten: a removal and a restore.
LEMMA ForgetStep ==
  ASSUME RowsInv, CatalogInv, NEW gone,
         servers' \subseteq Rows, Forget(gone),
         \A row \in servers' : row.id \notin gone,
         \A s \in KnownServers : s \in gone \/ \E row \in servers' : row.id = s
  PROVE  CatalogInv'
<1>1. DOMAIN found' = DOMAIN found \cap (DOMAIN found \ gone)
      /\ \A s \in DOMAIN found \cap (DOMAIN found \ gone) : found'[s] = found[s]
  <2>1. found' = Keeping(found, DOMAIN found \ gone)
    BY DEF Forget
  <2>2. /\ DOMAIN Keeping(found, DOMAIN found \ gone) = DOMAIN found \cap (DOMAIN found \ gone)
        /\ \A s \in DOMAIN found \cap (DOMAIN found \ gone) :
             Keeping(found, DOMAIN found \ gone)[s] = found[s]
    BY KeepingFacts
  <2> QED
    BY <2>1, <2>2
<1>2. DOMAIN idsOf' = DOMAIN idsOf \cap (DOMAIN idsOf \ gone)
      /\ \A s \in DOMAIN idsOf \cap (DOMAIN idsOf \ gone) : idsOf'[s] = idsOf[s]
  <2>1. idsOf' = Keeping(idsOf, DOMAIN idsOf \ gone)
    BY DEF Forget
  <2>2. /\ DOMAIN Keeping(idsOf, DOMAIN idsOf \ gone) = DOMAIN idsOf \cap (DOMAIN idsOf \ gone)
        /\ \A s \in DOMAIN idsOf \cap (DOMAIN idsOf \ gone) :
             Keeping(idsOf, DOMAIN idsOf \ gone)[s] = idsOf[s]
    BY KeepingFacts
  <2> QED
    BY <2>1, <2>2
<1>3. registry' = {entry \in registry : entry.server \notin gone}
  <2>1. registry' = {entry \in registry : \A s \in gone : entry.id \notin IdsOf(s)}
    BY DEF Forget
  <2>2. ASSUME NEW entry \in registry
        PROVE  (\A s \in gone : entry.id \notin IdsOf(s)) <=> entry.server \notin gone
    <3>1. /\ entry.server \in DOMAIN idsOf
          /\ \A t \in DOMAIN idsOf : entry.id \in idsOf[t] <=> t = entry.server
      BY DEF CatalogInv
    <3>2. \A s : entry.id \in IdsOf(s) <=> s = entry.server
      BY <3>1 DEF IdsOf
    <3> QED
      BY <3>2
  <2> QED
    BY <2>1, <2>2
\* The rows of the servers that stay known are the rows they had.
<1>4. ASSUME NEW row \in servers', row.id \in DOMAIN found \cup DOMAIN idsOf PROVE row \in servers
  <2>1. PICK old \in servers : old.id = row.id
    BY <1>4 DEF CatalogInv, ServerIds
  <2>2. old \in Rows /\ row \in Rows
    BY DEF Rows
  <2> QED
    BY <2>1, <2>2 DEF RowsInv
<1>5. (DOMAIN found \subseteq ServerIds /\ DOMAIN idsOf \subseteq ServerIds)'
  BY <1>1, <1>2 DEF KnownServers, ServerIds
<1>6. ASSUME NEW entry \in registry'
      PROVE  /\ entry.server \in DOMAIN idsOf'
             /\ \A s \in DOMAIN idsOf' : entry.id \in idsOf'[s] <=> s = entry.server
             /\ \E row \in servers' : row.id = entry.server /\ row.name = entry.id[2]
  <2>1. entry \in registry /\ entry.server \notin gone
    BY <1>3
  <2>2. /\ entry.server \in DOMAIN idsOf
        /\ \A s \in DOMAIN idsOf : entry.id \in idsOf[s] <=> s = entry.server
        /\ \E row \in servers : row.id = entry.server /\ row.name = entry.id[2]
    BY <2>1 DEF CatalogInv
  <2>3. entry.server \in DOMAIN idsOf'
    BY <1>2, <2>1, <2>2
  <2>4. PICK row \in servers' : row.id = entry.server
    BY <2>1, <2>2 DEF KnownServers
  <2>5. row \in servers
    BY <1>4, <2>2, <2>4
  <2>6. PICK old \in servers : old.id = entry.server /\ old.name = entry.id[2]
    BY <2>2
  <2>7. old = row
    BY <2>4, <2>5, <2>6 DEF RowsInv, Rows
  <2> QED
    BY <1>2, <2>2, <2>3, <2>4, <2>6, <2>7
<1>7. ASSUME NEW s \in DOMAIN idsOf', NEW id \in idsOf'[s]
      PROVE  \E entry \in registry' : entry.id = id
  <2>1. s \in DOMAIN idsOf /\ s \notin gone /\ idsOf'[s] = idsOf[s]
    BY <1>2
  <2>2. PICK entry \in registry : entry.id = id
    BY <1>7, <2>1 DEF CatalogInv
  <2>3. entry.server = s
    BY <1>7, <2>1, <2>2 DEF CatalogInv
  <2> QED
    BY <1>3, <2>1, <2>2, <2>3
<1>8. ShownIsKept'
  <2> SUFFICES ASSUME NEW row \in servers'
               PROVE  IdsOf(row.id)' =
                        IF row.id \in DOMAIN found' /\ found'[row.id].status = "ok"
                        THEN {ToolId(row.name, tool) : tool \in Available(row.id)'} ELSE {}
    BY DEF ShownIsKept
  <2>1. row.id \notin gone
    OBVIOUS
  <2>2. CASE row.id \in DOMAIN found \cup DOMAIN idsOf
    <3>1. row \in servers
      BY <1>4, <2>2
    <3>2. IdsOf(row.id) =
            IF row.id \in DOMAIN found /\ found[row.id].status = "ok"
            THEN {ToolId(row.name, tool) : tool \in Available(row.id)} ELSE {}
      BY <3>1 DEF CatalogInv, ShownIsKept
    <3>3. IdsOf(row.id)' = IdsOf(row.id)
      BY <1>2, <2>1 DEF IdsOf
    <3>4. row.id \in DOMAIN found' <=> row.id \in DOMAIN found
      BY <1>1, <2>1
    <3>5. CASE row.id \in DOMAIN found
      <4>1. found'[row.id] = found[row.id]
        BY <1>1, <2>1, <3>5
      <4> QED
        BY <3>2, <3>3, <3>4, <4>1 DEF Available
    <3>6. CASE row.id \notin DOMAIN found
      BY <3>2, <3>3, <3>4, <3>6
    <3> QED
      BY <3>5, <3>6
  <2>3. CASE row.id \notin DOMAIN found \cup DOMAIN idsOf
    BY <1>1, <1>2, <2>3 DEF IdsOf
  <2> QED
    BY <2>2, <2>3
<1> QED
  BY <1>5, <1>6, <1>7, <1>8 DEF CatalogInv

\* A check of one server: what it leaves of the others is what they had, and
\* what it registers is what it says it registered.
LEMMA CheckStep ==
  ASSUME CatalogInv, NEW row \in servers, RowsInv, servers' = servers, NEW ids,
         \A id \in ids : id[2] = row.name /\ \A entry \in Dropped(row.id) : entry.id # id,
         registry' = Dropped(row.id) \cup {[id |-> id, server |-> row.id] : id \in ids},
         \/ idsOf' = With(idsOf, row.id, ids)
         \/ ids = {} /\ idsOf' = Keeping(idsOf, DOMAIN idsOf \ {row.id}),
         DOMAIN found' \subseteq DOMAIN found \cup {row.id},
         \A s \in DOMAIN found \ {row.id} : s \in DOMAIN found' /\ found'[s] = found[s],
         ids = IF row.id \in DOMAIN found' /\ found'[row.id].status = "ok"
               THEN {ToolId(row.name, tool) : tool \in Available(row.id)'} ELSE {}
  PROVE  CatalogInv'
<1>1. /\ DOMAIN idsOf' \subseteq DOMAIN idsOf \cup {row.id}
      /\ DOMAIN idsOf \ {row.id} \subseteq DOMAIN idsOf'
      /\ \A s \in DOMAIN idsOf \ {row.id} : idsOf'[s] = idsOf[s]
      /\ row.id \in DOMAIN idsOf' => idsOf'[row.id] = ids
      /\ row.id \notin DOMAIN idsOf' => ids = {}
  <2>1. CASE idsOf' = With(idsOf, row.id, ids)
    <3>1. /\ DOMAIN With(idsOf, row.id, ids) = DOMAIN idsOf \cup {row.id}
          /\ With(idsOf, row.id, ids)[row.id] = ids
          /\ \A t \in DOMAIN idsOf \ {row.id} : With(idsOf, row.id, ids)[t] = idsOf[t]
      BY DEF With
    <3> QED
      BY <2>1, <3>1
  <2>2. CASE ids = {} /\ idsOf' = Keeping(idsOf, DOMAIN idsOf \ {row.id})
    <3>1. /\ DOMAIN Keeping(idsOf, DOMAIN idsOf \ {row.id})
               = DOMAIN idsOf \cap (DOMAIN idsOf \ {row.id})
          /\ \A s \in DOMAIN idsOf \cap (DOMAIN idsOf \ {row.id}) :
               Keeping(idsOf, DOMAIN idsOf \ {row.id})[s] = idsOf[s]
      BY KeepingFacts
    <3> QED
      BY <2>2, <3>1
  <2> QED
    BY <2>1, <2>2
<1>2. Dropped(row.id) = {entry \in registry : entry.server # row.id}
  BY DroppedFacts
<1>3. (DOMAIN found \subseteq ServerIds /\ DOMAIN idsOf \subseteq ServerIds)'
  <2>1. row.id \in ServerIds'
    BY DEF ServerIds
  <2>2. ServerIds' = ServerIds
    BY DEF ServerIds
  <2> QED
    BY <1>1, <2>1, <2>2 DEF CatalogInv
\* The entries of the others, and the new ones.
<1>4. ASSUME NEW entry \in Dropped(row.id)
      PROVE  /\ entry.server \in DOMAIN idsOf'
             /\ \A s \in DOMAIN idsOf' : entry.id \in idsOf'[s] <=> s = entry.server
             /\ \E other \in servers' : other.id = entry.server /\ other.name = entry.id[2]
  <2>1. entry \in registry /\ entry.server # row.id
    BY <1>2
  <2>2. /\ entry.server \in DOMAIN idsOf
        /\ \A s \in DOMAIN idsOf : entry.id \in idsOf[s] <=> s = entry.server
        /\ \E other \in servers : other.id = entry.server /\ other.name = entry.id[2]
    BY <2>1 DEF CatalogInv
  <2>3. entry.id \notin ids
    OBVIOUS
  <2> QED
    BY <1>1, <2>1, <2>2, <2>3
<1>5. ASSUME NEW id \in ids, NEW entry, entry = [id |-> id, server |-> row.id]
      PROVE  /\ entry.server \in DOMAIN idsOf'
             /\ \A s \in DOMAIN idsOf' : entry.id \in idsOf'[s] <=> s = entry.server
             /\ \E other \in servers' : other.id = entry.server /\ other.name = entry.id[2]
  <2>1. entry.id = id /\ entry.server = row.id /\ id[2] = row.name
    BY <1>5
  <2>2. ASSUME NEW s \in DOMAIN idsOf \ {row.id} PROVE id \notin idsOf[s]
    <3> SUFFICES ASSUME id \in idsOf[s] PROVE FALSE
      OBVIOUS
    <3>1. PICK old \in registry : old.id = id
      BY DEF CatalogInv
    <3>2. old.server = s
      BY <3>1 DEF CatalogInv
    <3>3. old \in Dropped(row.id)
      BY <1>2, <3>2
    <3> QED
      BY <3>1, <3>3
  <2>3. row.id \in DOMAIN idsOf'
    BY <1>1
  <2> QED
    BY <1>1, <2>1, <2>2, <2>3
<1>6. ASSUME NEW entry \in registry'
      PROVE  /\ entry.server \in DOMAIN idsOf'
             /\ \A s \in DOMAIN idsOf' : entry.id \in idsOf'[s] <=> s = entry.server
             /\ \E other \in servers' : other.id = entry.server /\ other.name = entry.id[2]
  <2>1. CASE entry \in Dropped(row.id)
    BY <1>4, <2>1
  <2>2. CASE entry \notin Dropped(row.id)
    <3>1. PICK id \in ids : entry = [id |-> id, server |-> row.id]
      BY <2>2
    <3> QED
      BY <1>5, <3>1
  <2> QED
    BY <2>1, <2>2
<1>7. ASSUME NEW s \in DOMAIN idsOf', NEW id \in idsOf'[s]
      PROVE  \E entry \in registry' : entry.id = id
  <2>1. CASE s = row.id
    <3>1. id \in ids
      BY <1>1, <1>7, <2>1
    <3>2. [id |-> id, server |-> row.id].id = id
      OBVIOUS
    <3> QED
      BY <3>1, <3>2
  <2>2. CASE s # row.id
    <3>1. s \in DOMAIN idsOf /\ id \in idsOf[s]
      BY <1>1, <1>7, <2>2
    <3>2. PICK entry \in registry : entry.id = id
      BY <3>1 DEF CatalogInv
    <3>3. entry.server = s
      BY <3>1, <3>2 DEF CatalogInv
    <3> QED
      BY <1>2, <2>2, <3>2, <3>3
  <2> QED
    BY <2>1, <2>2
<1>8. ShownIsKept'
  <2> SUFFICES ASSUME NEW other \in servers'
               PROVE  IdsOf(other.id)' =
                        IF other.id \in DOMAIN found' /\ found'[other.id].status = "ok"
                        THEN {ToolId(other.name, tool) : tool \in Available(other.id)'} ELSE {}
    BY DEF ShownIsKept
  <2>1. CASE other = row
    <3>1. IdsOf(row.id)' = ids
      BY <1>1 DEF IdsOf
    <3> QED
      BY <2>1, <3>1
  <2>2. CASE other # row
    <3>1. other.id # row.id
      BY <2>2 DEF RowsInv, Rows
    <3>2. IdsOf(other.id)' = IdsOf(other.id)
      BY <1>1, <3>1 DEF IdsOf
    <3>3. other.id \in DOMAIN found' <=> other.id \in DOMAIN found
      BY <3>1
    <3>4. other.id \in DOMAIN found => found'[other.id] = found[other.id]
      BY <3>1
    <3>5. IdsOf(other.id) =
            IF other.id \in DOMAIN found /\ found[other.id].status = "ok"
            THEN {ToolId(other.name, tool) : tool \in Available(other.id)} ELSE {}
      BY DEF CatalogInv, ShownIsKept
    <3>6. CASE other.id \in DOMAIN found
      <4>1. Available(other.id)' = Available(other.id)
        BY <3>4, <3>6 DEF Available
      <4> QED
        BY <3>2, <3>3, <3>4, <3>5, <3>6, <4>1
    <3>7. CASE other.id \notin DOMAIN found
      BY <3>2, <3>3, <3>5, <3>7
    <3> QED
      BY <3>6, <3>7
  <2> QED
    BY <2>1, <2>2
<1> QED
  BY <1>3, <1>6, <1>7, <1>8 DEF CatalogInv

\* Every method keeps the catalog in step with the rows.
LEMMA McpAddStep ==
  ASSUME RowsInv, CatalogInv, NEW name, McpAdd(name)
  PROVE  CatalogInv'
<1>1. /\ servers' = servers \cup {[id |-> minted + 1, name |-> name]}
      /\ found' = found /\ idsOf' = idsOf /\ registry' = registry
  BY DEF McpAdd, catalog
<1>2. \A row \in servers : row.id \in 1..minted
  BY DEF RowsInv, Rows
<1>3. minted + 1 \notin DOMAIN found \cup DOMAIN idsOf
  BY <1>2 DEF CatalogInv, ServerIds, RowsInv
<1>4. (DOMAIN found \subseteq ServerIds /\ DOMAIN idsOf \subseteq ServerIds)'
  BY <1>1 DEF CatalogInv, ServerIds
<1>5. ShownIsKept'
  <2> SUFFICES ASSUME NEW row \in servers'
               PROVE  IdsOf(row.id)' =
                        IF row.id \in DOMAIN found' /\ found'[row.id].status = "ok"
                        THEN {ToolId(row.name, tool) : tool \in Available(row.id)'} ELSE {}
    BY DEF ShownIsKept
  <2>1. IdsOf(row.id)' = IdsOf(row.id) /\ Available(row.id)' = Available(row.id)
    BY <1>1 DEF IdsOf, Available
  <2>2. CASE row \in servers
    BY <1>1, <2>1, <2>2 DEF CatalogInv, ShownIsKept
  <2>3. CASE row \notin servers
    <3>1. row.id = minted + 1
      BY <1>1, <2>3
    <3> QED
      BY <1>1, <1>3, <2>1, <3>1 DEF IdsOf
  <2> QED
    BY <2>2, <2>3
<1> QED
  BY <1>1, <1>4, <1>5 DEF CatalogInv

\* A server is removed.
LEMMA McpRemoveStep ==
  ASSUME RowsInv, CatalogInv, NEW row \in servers, McpRemove(row)
  PROVE  CatalogInv'
<1>1. servers' = servers \ {row} /\ Forget({row.id})
  BY DEF McpRemove
<1>2. servers' \subseteq Rows
  BY <1>1 DEF Rows
<1>3. \A other \in servers' : other.id \notin {row.id}
  BY <1>1 DEF RowsInv, Rows
<1>4. \A s \in KnownServers : s \in {row.id} \/ \E other \in servers' : other.id = s
  BY <1>1 DEF KnownServers, CatalogInv, ServerIds
<1> QED
  BY <1>1, <1>2, <1>3, <1>4, ForgetStep

\* A restore brings back other rows.
LEMMA ServersRestoredStep ==
  ASSUME RowsInv, CatalogInv, NEW point \in points, ServersRestored(point.servers)
  PROVE  CatalogInv'
<1> DEFINE gone == KnownServers \ {row.id : row \in point.servers}
<1>1. servers' = point.servers /\ Forget(gone)
  BY DEF ServersRestored
<1>2. servers' \subseteq Rows
  BY <1>1 DEF Rows
<1>3. \A row \in servers' : row.id \notin gone
  BY <1>1
<1>4. \A s \in KnownServers : s \in gone \/ \E row \in servers' : row.id = s
  BY <1>1
<1> HIDE DEF gone
<1> QED
  BY <1>1, <1>2, <1>3, <1>4, ForgetStep

\* What a check took is not of another server.
LEMMA NewIdsFacts ==
  ASSUME NEW row, NEW tools
  PROVE  \A id \in NewIds(row, tools) :
           id[2] = row.name /\ \A entry \in Dropped(row.id) : entry.id # id
<1> SUFFICES ASSUME NEW id \in NewIds(row, tools)
             PROVE  id[2] = row.name /\ \A entry \in Dropped(row.id) : entry.id # id
  OBVIOUS
<1>1. PICK tool \in tools \ Refused(row, tools) : id = ToolId(row.name, tool)
  BY DEF NewIds
<1> QED
  BY <1>1, NameOfToolId DEF Refused

\* A check lands.
LEMMA RecordSuccessStep ==
  ASSUME RowsInv, CatalogInv, NEW row \in servers, servers' = servers, NEW listed,
         RecordSuccess(row, listed)
  PROVE  CatalogInv'
<1>1. PICK tools : tools = Range(listed.admitted)
  OBVIOUS
<1>2. PICK state : state = [status |-> "ok", tools |-> tools, refused |-> Refused(row, tools),
                            skipped |-> listed.skipped]
  OBVIOUS
<1>3. PICK ids : ids = NewIds(row, tools)
  OBVIOUS
<1>4. /\ registry' = RegisterAll(row, tools)
      /\ idsOf' = With(idsOf, row.id, NewIds(row, tools))
      /\ found' = With(found, row.id, state)
  BY <1>1, <1>2 DEF RecordSuccess
<1>5. registry' = Dropped(row.id) \cup {[id |-> id, server |-> row.id] : id \in ids}
  BY <1>3, <1>4 DEF RegisterAll
<1>6. idsOf' = With(idsOf, row.id, ids)
  BY <1>3, <1>4
<1>7. /\ DOMAIN found' = DOMAIN found \cup {row.id}
      /\ found'[row.id] = state
      /\ \A s \in DOMAIN found \ {row.id} : found'[s] = found[s]
  BY <1>4 DEF With
<1>8. ids = IF row.id \in DOMAIN found' /\ found'[row.id].status = "ok"
            THEN {ToolId(row.name, tool) : tool \in Available(row.id)'} ELSE {}
  <2>1. state.status = "ok" /\ state.tools = tools /\ state.refused = Refused(row, tools)
    BY <1>2
  <2>2. Available(row.id)' = tools \ Refused(row, tools)
    BY <1>7, <2>1 DEF Available
  <2> QED
    BY <1>3, <1>7, <2>1, <2>2 DEF NewIds
<1>9. \A id \in ids : id[2] = row.name /\ \A entry \in Dropped(row.id) : entry.id # id
  BY <1>3, NewIdsFacts
<1> QED
  BY <1>5, <1>6, <1>7, <1>8, <1>9, CheckStep

LEMMA NothingRegistered ==
  ASSUME RowsInv, CatalogInv, NEW row \in servers, servers' = servers,
         registry' = Dropped(row.id),
         \/ idsOf' = With(idsOf, row.id, {})
         \/ idsOf' = Keeping(idsOf, DOMAIN idsOf \ {row.id}),
         DOMAIN found' \subseteq DOMAIN found \cup {row.id},
         \A s \in DOMAIN found \ {row.id} : s \in DOMAIN found' /\ found'[s] = found[s],
         row.id \notin DOMAIN found' \/ found'[row.id].status # "ok"
  PROVE  CatalogInv'
<1>1. PICK ids : ids = {}
  OBVIOUS
<1>2. registry' = Dropped(row.id) \cup {[id |-> id, server |-> row.id] : id \in ids}
  BY <1>1
<1>3. \/ idsOf' = With(idsOf, row.id, ids)
      \/ ids = {} /\ idsOf' = Keeping(idsOf, DOMAIN idsOf \ {row.id})
  BY <1>1
<1>4. ids = IF row.id \in DOMAIN found' /\ found'[row.id].status = "ok"
            THEN {ToolId(row.name, tool) : tool \in Available(row.id)'} ELSE {}
  BY <1>1
<1>5. \A id \in ids : id[2] = row.name /\ \A entry \in Dropped(row.id) : entry.id # id
  BY <1>1
<1> QED
  BY <1>2, <1>3, <1>4, <1>5, CheckStep

\* A check fails.
LEMMA RecordFailureStep ==
  ASSUME RowsInv, CatalogInv, NEW row \in servers, servers' = servers, RecordFailure(row)
  PROVE  CatalogInv'
<1>1. PICK state : state = [status |-> "failed", tools |-> {}, refused |-> {}, skipped |-> 0]
  OBVIOUS
<1>2. /\ registry' = Dropped(row.id)
      /\ idsOf' = Keeping(idsOf, DOMAIN idsOf \ {row.id})
      /\ found' = With(found, row.id, state)
  BY <1>1 DEF RecordFailure
<1>3. /\ DOMAIN found' = DOMAIN found \cup {row.id}
      /\ found'[row.id] = state
      /\ \A s \in DOMAIN found \ {row.id} : found'[s] = found[s]
  BY <1>2 DEF With
<1>4. state.status # "ok"
  BY <1>1
<1> QED
  BY <1>2, <1>3, <1>4, NothingRegistered

\* A registration raises half-way.
LEMMA RecordBrokenStep ==
  ASSUME RowsInv, CatalogInv, NEW row \in servers, servers' = servers, NEW done,
         RecordBroken(row, done)
  PROVE  CatalogInv'
<1>1. /\ registry' = Unwound(row, done)
      /\ idsOf' = With(idsOf, row.id, {})
      /\ found' = Keeping(found, DOMAIN found \ {row.id})
  BY DEF RecordBroken
<1>2. registry' = Dropped(row.id)
  BY <1>1, UnwoundIsDropped
<1>3. /\ DOMAIN found' = DOMAIN found \cap (DOMAIN found \ {row.id})
      /\ \A s \in DOMAIN found \cap (DOMAIN found \ {row.id}) : found'[s] = found[s]
  BY <1>1 DEF Keeping
<1> QED
  BY <1>1, <1>2, <1>3, NothingRegistered

\* A check, however it ends.
LEMMA McpRefreshStep ==
  ASSUME RowsInv, CatalogInv, NEW row \in servers, NEW heard, McpRefresh(row, heard)
  PROVE  CatalogInv'
<1>1. servers' = servers
  BY DEF McpRefresh
<1>2. CASE RecordSuccess(row, ListTools(heard.pages))
  BY <1>1, <1>2, RecordSuccessStep
<1>3. CASE RecordFailure(row)
  BY <1>1, <1>3, RecordFailureStep
<1> QED
  BY <1>2, <1>3 DEF McpRefresh

\* A check whose registration raises.
LEMMA McpRefreshBreaksStep ==
  ASSUME RowsInv, CatalogInv, NEW row \in servers, NEW heard, NEW n,
         McpRefreshBreaks(row, heard, n)
  PROVE  CatalogInv'
<1>1. servers' = servers
  BY DEF McpRefreshBreaks
<1>2. PICK done : RecordBroken(row, done)
  BY DEF McpRefreshBreaks
<1> QED
  BY <1>1, <1>2, RecordBrokenStep

-----------------------------------------------------------------------------
(* The rows, here and in the restore points.                               *)

\* Rows that were there before, in the table or a point, are no new rows.
LEMMA RowsStep ==
  ASSUME RowsInv, Rows' \subseteq Rows, minted' = minted
  PROVE  RowsInv'
BY DEF RowsInv

\* A restore point holds the rows of its moment.
LEMMA MintedRows ==
  ASSUME servers' \subseteq Rows, Mint
  PROVE  Rows' \subseteq Rows
<1>1. Now.servers = servers
  BY DEF Now
<1>2. points' = points \cup {Now}
  BY DEF Mint
<1> QED
  BY <1>1, <1>2 DEF Rows

LEMMA SameRows ==
  ASSUME servers' \subseteq Rows, points' = points
  PROVE  Rows' \subseteq Rows
BY DEF Rows

LEMMA AddedRows ==
  ASSUME RowsInv, NEW name, McpAdd(name), Mint
  PROVE  RowsInv'
<1>1. PICK row : row = [id |-> minted + 1, name |-> name]
  OBVIOUS
<1>2. servers' = servers \cup {row} /\ minted' = minted + 1
  BY <1>1 DEF McpAdd
<1>3. Rows' \subseteq Rows \cup {row}
  <2>1. Now.servers = servers
    BY DEF Now
  <2>2. points' = points \cup {Now}
    BY DEF Mint
  <2> QED
    BY <1>2, <2>1, <2>2 DEF Rows
<1>4. row.id = minted + 1
  BY <1>1
<1> QED
  BY <1>2, <1>3, <1>4 DEF RowsInv

-----------------------------------------------------------------------------
(* The steps.                                                              *)

\* What a step changes of the servers, and what it keeps.
LEMMA ServersStand ==
  ASSUME RowsInv, CatalogInv, UNCHANGED serverVars, points' = points \/ Mint
  PROVE  RowsInv' /\ CatalogInv'
<1>1. servers' = servers /\ minted' = minted /\ found' = found /\ idsOf' = idsOf
      /\ registry' = registry
  BY DEF serverVars, catalog
<1>2. CatalogInv'
  BY <1>1 DEF CatalogInv, ServerIds, ShownIsKept, IdsOf, Available
<1>3. servers' \subseteq Rows
  BY <1>1 DEF Rows
<1> QED
  BY <1>1, <1>2, <1>3, SameRows, MintedRows, RowsStep

\* A routine's run touches no server.
LEMMA WorkerKeepsServers ==
  WorkerStep => UNCHANGED <<serverVars, points>>
<1> SUFFICES ASSUME WorkerStep PROVE UNCHANGED <<serverVars, points>>
  OBVIOUS
<1>1. StillSaved
  BY DEF WorkerStep, Unresolved, StepRefused, GateAsks, GateDenies, ToolRuns, Unrecorded, KeepGoing
<1> QED
  BY <1>1 DEF StillSaved

\* Every step keeps rows, catalog and registry together.
LEMMA ServersStep == RowsInv /\ CatalogInv /\ [Next]_vars => RowsInv' /\ CatalogInv'
<1> SUFFICES ASSUME RowsInv, CatalogInv, [Next]_vars PROVE RowsInv' /\ CatalogInv'
  OBVIOUS
<1>1. CASE AddServer
  <2>1. PICK name \in ServerNames : McpAdd(name)
    BY <1>1 DEF AddServer
  <2>2. Mint
    BY <1>1 DEF AddServer
  <2> QED
    BY <2>1, <2>2, McpAddStep, AddedRows
<1>2. CASE RemoveServer
  <2>1. PICK row \in servers : McpRemove(row)
    BY <1>2 DEF RemoveServer
  <2>2. servers' \subseteq Rows /\ minted' = minted
    BY <2>1 DEF McpRemove, Rows
  <2>3. Mint
    BY <1>2 DEF RemoveServer
  <2> QED
    BY <2>1, <2>2, <2>3, McpRemoveStep, MintedRows, RowsStep
<1>3. CASE RefreshServer
  <2>1. PICK row \in servers, heard \in Answers : McpRefresh(row, heard)
    BY <1>3 DEF RefreshServer
  <2>2. servers' \subseteq Rows /\ minted' = minted
    BY <2>1 DEF McpRefresh, Rows
  <2>3. points' = points
    BY <1>3 DEF RefreshServer
  <2> QED
    BY <2>1, <2>2, <2>3, McpRefreshStep, SameRows, RowsStep
<1>4. CASE RefreshBreaks
  <2>1. PICK row \in servers, heard \in Answers, n \in 0..MaxTools :
          McpRefreshBreaks(row, heard, n)
    BY <1>4 DEF RefreshBreaks
  <2>2. servers' \subseteq Rows /\ minted' = minted
    BY <2>1 DEF McpRefreshBreaks, Rows
  <2>3. points' = points
    BY <1>4 DEF RefreshBreaks
  <2> QED
    BY <2>1, <2>2, <2>3, McpRefreshBreaksStep, SameRows, RowsStep
<1>5. CASE ProfileSet
  <2>1. servers' = servers /\ minted' = minted /\ found' = found /\ idsOf' = idsOf
        /\ registry' = registry /\ Mint
    BY <1>5 DEF ProfileSet, catalog
  <2>2. CatalogInv'
    BY <2>1 DEF CatalogInv, ServerIds, ShownIsKept, IdsOf, Available
  <2>3. servers' \subseteq Rows
    BY <2>1 DEF Rows
  <2> QED
    BY <2>1, <2>2, <2>3, MintedRows, RowsStep
<1>6. CASE Restore
  <2>1. PICK point \in points : ServersRestored(point.servers)
    BY <1>6 DEF Restore
  <2>2. servers' \subseteq Rows
    BY <2>1 DEF ServersRestored, Rows
  <2>3. points' = points \cup {Now} /\ minted' = minted
    BY <1>6 DEF Restore
  <2>4. Mint
    BY <2>3 DEF Mint
  <2> QED
    BY <2>1, <2>2, <2>3, <2>4, ServersRestoredStep, MintedRows, RowsStep
<1>7. CASE ChatTurn \/ Propose \/ ConfirmSave \/ ImportPreview \/ StartRun \/ Respond \/ Stop
  <2>1. UNCHANGED <<serverVars, points>>
    BY <1>7 DEF ChatTurn, Propose, ConfirmSave, ImportPreview, StartRun, Respond, Stop, library
  <2> QED
    BY <2>1, ServersStand
<1>8. CASE ImportConfirm \/ RoutineDelete
  <2>1. UNCHANGED serverVars /\ (points' = points \/ Mint)
    BY <1>8 DEF ImportConfirm, RoutineDelete
  <2> QED
    BY <2>1, ServersStand
<1>9. CASE WorkerStep
  BY <1>9, WorkerKeepsServers, ServersStand
<1>10. CASE Relaunch
  <2>1. servers' = servers /\ minted' = minted /\ points' = points /\ found' = <<>>
        /\ idsOf' = <<>> /\ registry' = {}
    BY <1>10 DEF Relaunch
  <2>2. DOMAIN found' = {} /\ DOMAIN idsOf' = {}
    BY <2>1
  <2>3. CatalogInv'
    BY <2>1, <2>2 DEF CatalogInv, ShownIsKept, IdsOf
  <2>4. servers' \subseteq Rows
    BY <2>1 DEF Rows
  <2> QED
    BY <2>1, <2>3, <2>4, SameRows, RowsStep
<1>11. CASE UNCHANGED vars
  <2>1. UNCHANGED <<serverVars, points>>
    BY <1>11 DEF vars
  <2> QED
    BY <2>1, ServersStand
<1> QED
  BY <1>1, <1>2, <1>3, <1>4, <1>5, <1>6, <1>7, <1>8, <1>9, <1>10, <1>11 DEF Next

\* At first there is no server.
LEMMA ServersAtFirst == Init => RowsInv /\ CatalogInv
<1> SUFFICES ASSUME Init PROVE RowsInv /\ CatalogInv
  OBVIOUS
<1>1. servers = {} /\ minted = 0 /\ found = <<>> /\ idsOf = <<>> /\ registry = {} /\ points = {}
  BY DEF Init, ServersInit
<1>2. DOMAIN found = {} /\ DOMAIN idsOf = {}
  BY <1>1
<1> QED
  BY <1>1, <1>2 DEF RowsInv, CatalogInv, Rows, ShownIsKept

\* The address of a tool is its own server's.
LEMMA EndpointFacts ==
  ASSUME RowsInv, CatalogInv, NEW entry \in registry
  PROVE  Endpoint(entry) = entry.server
<1>1. PICK row \in servers : row.id = entry.server /\ row.name = entry.id[2]
  BY DEF CatalogInv
<1> DEFINE its == {other \in servers : other.id = entry.server /\ other.name = entry.id[2]}
<1>2. its = {row}
  BY <1>1 DEF RowsInv, Rows
<1>3. (CHOOSE other \in its : TRUE) = row
  BY <1>2
<1> QED
  BY <1>1, <1>2, <1>3 DEF Endpoint

\* What Addison believes a server offers and what is registered for it move
\* together (class McpCatalog), for any servers, answers and restore points: no
\* tool without its server, no server shown with tools it does not have.
THEOREM ToolsKeepTheirServer == Spec => []ToolsBelongToServers
<1>1. ASSUME RowsInv, CatalogInv PROVE ToolsBelongToServers
  <2>1. ASSUME NEW entry \in registry
        PROVE  {s \in DOMAIN idsOf : entry.id \in IdsOf(s)} = {entry.server}
    <3>1. /\ entry.server \in DOMAIN idsOf
          /\ \A s \in DOMAIN idsOf : entry.id \in idsOf[s] <=> s = entry.server
      BY <1>1 DEF CatalogInv
    <3> QED
      BY <3>1 DEF IdsOf
  <2>2. ShownIsKept
    BY <1>1 DEF CatalogInv
  <2> QED
    BY <1>1, <2>1, <2>2, EndpointFacts DEF ToolsBelongToServers, ShownIsKept
<1>2. RowsInv /\ CatalogInv => ToolsBelongToServers
  BY <1>1
<1> QED
  BY <1>2, ServersAtFirst, ServersStep, PTL DEF Spec

-----------------------------------------------------------------------------
(* A routine's run (RoutineEngine.run, taint.py).  What the run remembers  *)
(* of files is inductive only with this: every text that is anywhere in a  *)
(* result is some step's of this run, and a step that read a text long     *)
(* enough to be recognised is among the sources; and a card that is up     *)
(* said what the gate had to say when it was put up.                       *)

IsARun ==
  job = [run |-> job.run, plan |-> job.plan, at |-> job.at, results |-> job.results,
         sources |-> job.sources, told |-> job.told, yes |-> job.yes]

TextsAreKnown ==
  \A id \in DOMAIN job.results :
    /\ job.results[id].carries \subseteq DOMAIN job.results
    /\ job.results[id].ok /\ job.results[id].long => id \in job.sources

JobInv ==
  /\ job # NoJob => IsARun /\ TextsAreKnown
  /\ card # None => job # NoJob
  /\ card = "permission" /\ TaintLine => job.told

LEMMA ARunIsNotNoJob ==
  \A run, plan, at, results, sources, warned, yes :
    [run |-> run, plan |-> plan, at |-> at, results |-> results,
     sources |-> sources, told |-> warned, yes |-> yes] # NoJob
<1> SUFFICES ASSUME NEW run, NEW plan, NEW at, NEW results, NEW sources, NEW warned, NEW yes
             PROVE  [run |-> run, plan |-> plan, at |-> at, results |-> results,
                     sources |-> sources, told |-> warned, yes |-> yes] # NoJob
  OBVIOUS
<1>1. "plan" \in DOMAIN [run |-> run, plan |-> plan, at |-> at, results |-> results,
                         sources |-> sources, told |-> warned, yes |-> yes]
  OBVIOUS
<1>2. "plan" \notin DOMAIN NoJob
  BY DEF NoJob
<1> QED
  BY <1>1, <1>2

\* The texts a step's arguments hold are of steps of this run.
LEMMA ArgsAreOfTheRun ==
  ASSUME TextsAreKnown
  PROVE  Args \subseteq DOMAIN job.results
BY DEF TextsAreKnown, Args

\* A run put aside, or a run that goes on without a card that says anything.
LEMMA Ended ==
  ASSUME job' = NoJob, card' = None
  PROVE  JobInv'
BY DEF JobInv, None

LEMMA AdvancedFurther ==
  ASSUME NEW run, NEW plan, NEW at, NEW results, NEW sources, NEW warned, NEW yes,
         job' = [run |-> run, plan |-> plan, at |-> at, results |-> results,
                 sources |-> sources, told |-> warned, yes |-> yes],
         \A id \in DOMAIN results :
           /\ results[id].carries \subseteq DOMAIN results
           /\ results[id].ok /\ results[id].long => id \in sources,
         card' # "permission"
  PROVE  JobInv'
<1>1. job' # NoJob
  BY ARunIsNotNoJob
<1>2. /\ job'.run = run /\ job'.plan = plan /\ job'.at = at /\ job'.results = results
      /\ job'.sources = sources /\ job'.told = warned /\ job'.yes = yes
  OBVIOUS
<1>3. IsARun'
  BY <1>2 DEF IsARun
<1>4. TextsAreKnown'
  BY <1>2 DEF TextsAreKnown
<1> QED
  BY <1>1, <1>3, <1>4 DEF JobInv

\* The next step, or the end.
LEMMA AdvanceStep ==
  ASSUME NEW run, NEW plan, NEW at, NEW results, NEW sources, NEW warned, NEW yes, NEW done,
         done = [run |-> run, plan |-> plan, at |-> at, results |-> results,
                 sources |-> sources, told |-> warned, yes |-> yes],
         \A id \in DOMAIN results :
           /\ results[id].carries \subseteq DOMAIN results
           /\ results[id].ok /\ results[id].long => id \in sources,
         Advance(done)
  PROVE  JobInv'
<1>1. CASE Finish("completed")
  BY <1>1, Ended DEF Finish, NoCard
<1>2. CASE job' = [done EXCEPT !.at = @ + 1, !.told = FALSE] /\ NoCard
  <2>1. PICK next : next = done.at + 1
    OBVIOUS
  <2>2. job' = [run |-> run, plan |-> plan, at |-> next, results |-> results,
                sources |-> sources, told |-> FALSE, yes |-> yes]
    BY <1>2, <2>1
  <2>3. card' # "permission"
    BY <1>2 DEF NoCard, None
  <2> QED
    BY <2>2, <2>3, AdvancedFurther
<1> QED
  BY <1>1, <1>2 DEF Advance

LEMMA RecordStepStep ==
  ASSUME JobInv, job # NoJob, NEW result, NEW sources,
         result.carries \subseteq DOMAIN job.results \cup {Step.id},
         result.ok /\ result.long => Step.id \in sources,
         job.sources \subseteq sources,
         RecordStep(result, sources)
  PROVE  JobInv'
<1>1. IsARun /\ TextsAreKnown
  BY DEF JobInv
<1>2. PICK results : results = With(job.results, Step.id, result)
  OBVIOUS
<1>3. /\ DOMAIN results = DOMAIN job.results \cup {Step.id}
      /\ results[Step.id] = result
      /\ \A id \in DOMAIN job.results \ {Step.id} : results[id] = job.results[id]
  BY <1>2 DEF With
<1>4. \A id \in DOMAIN results :
        /\ results[id].carries \subseteq DOMAIN results
        /\ results[id].ok /\ results[id].long => id \in sources
  <2> SUFFICES ASSUME NEW id \in DOMAIN results
               PROVE  /\ results[id].carries \subseteq DOMAIN results
                      /\ results[id].ok /\ results[id].long => id \in sources
    OBVIOUS
  <2>1. CASE id = Step.id
    BY <1>3, <2>1
  <2>2. CASE id # Step.id
    <3>1. id \in DOMAIN job.results /\ results[id] = job.results[id]
      BY <1>3, <2>2
    <3>2. /\ job.results[id].carries \subseteq DOMAIN job.results
          /\ job.results[id].ok /\ job.results[id].long => id \in job.sources
      BY <1>1, <3>1 DEF TextsAreKnown
    <3> QED
      BY <1>3, <3>1, <3>2
  <2> QED
    BY <2>1, <2>2
<1>5. PICK done : done = [job EXCEPT !.results = With(@, Step.id, result), !.sources = sources]
  OBVIOUS
<1>6. done = [run |-> job.run, plan |-> job.plan, at |-> job.at, results |-> results,
              sources |-> sources, told |-> job.told, yes |-> job.yes]
  BY <1>1, <1>2, <1>5 DEF IsARun
<1>7. \/ Finish("failed") \/ Finish("cancelled") \/ Advance(done)
      \/ job' = done /\ card' = "keepGoing"
  BY <1>5 DEF RecordStep
<1>8. CASE Finish("failed") \/ Finish("cancelled")
  BY <1>8, Ended DEF Finish, NoCard
<1>9. CASE Advance(done)
  BY <1>4, <1>6, <1>9, AdvanceStep
<1>10. CASE job' = done /\ card' = "keepGoing"
  <2>1. card' # "permission"
    BY <1>10
  <2>2. job' = [run |-> job.run, plan |-> job.plan, at |-> job.at, results |-> results,
                sources |-> sources, told |-> job.told, yes |-> job.yes]
    BY <1>6, <1>10
  <2> QED
    BY <1>4, <2>1, <2>2, AdvancedFurther
<1> QED
  BY <1>7, <1>8, <1>9, <1>10

\* What a tool came back with holds texts of the run, and its own if it is a
\* file's.
LEMMA OutcomeFacts ==
  ASSUME TextsAreKnown, NEW result \in Outcomes
  PROVE  /\ result.carries \subseteq DOMAIN job.results \cup {Step.id}
         /\ result.ok /\ result.long => Step.tool \in FileTools
<1>1. CASE result = Failed
  BY <1>1 DEF Failed
<1>2. CASE result # Failed
  <2>1. PICK own : own = IF Step.tool \in FileTools THEN {Step.id} ELSE {}
    OBVIOUS
  <2>2. /\ result \in [ok : {TRUE}, carries : {own, own \cup Args}, long : BOOLEAN]
        /\ result.long => Step.tool \in FileTools
    BY <1>2, <2>1 DEF Outcomes
  <2>3. result.carries \subseteq own \cup Args
    BY <2>2
  <2> QED
    BY <2>1, <2>2, <2>3, ArgsAreOfTheRun
<1> QED
  BY <1>1, <1>2

LEMMA ToolRunsStep ==
  ASSUME JobInv, ToolRuns
  PROVE  JobInv'
<1>1. job # NoJob
  BY DEF JobInv, ToolRuns, Cleared, Working, Idle, None
<1>2. TextsAreKnown
  BY <1>1 DEF JobInv
<1>3. PICK result \in Outcomes :
        RecordStep(result, IF result.ok THEN Tainted(Step.id, Step.tool, result.long)
                           ELSE job.sources)
  BY DEF ToolRuns
<1>4. PICK sources : sources = IF result.ok THEN Tainted(Step.id, Step.tool, result.long)
                               ELSE job.sources
  OBVIOUS
<1>5. /\ result.carries \subseteq DOMAIN job.results \cup {Step.id}
      /\ result.ok /\ result.long => Step.tool \in FileTools
  BY <1>2, OutcomeFacts
<1>6. /\ job.sources \subseteq sources
      /\ result.ok /\ result.long => Step.id \in sources
  BY <1>4, <1>5 DEF Tainted
<1>7. RecordStep(result, sources)
  BY <1>3, <1>4
<1> QED
  BY <1>1, <1>5, <1>6, <1>7, RecordStepStep

LEMMA GateAsksStep ==
  ASSUME JobInv, GateAsks
  PROVE  JobInv'
<1>1. job # NoJob /\ IsARun /\ TextsAreKnown
  BY DEF JobInv, GateAsks, Working, Idle
<1>2. PICK line : line = TaintLine
  OBVIOUS
<1>3. job' = [run |-> job.run, plan |-> job.plan, at |-> job.at, results |-> job.results,
              sources |-> job.sources, told |-> line, yes |-> job.yes]
  BY <1>1, <1>2 DEF GateAsks, IsARun
<1>4. job' # NoJob
  BY <1>3, ARunIsNotNoJob
<1>5. /\ job'.run = job.run /\ job'.plan = job.plan /\ job'.at = job.at
      /\ job'.results = job.results /\ job'.sources = job.sources /\ job'.yes = job.yes
      /\ job'.told = line
  BY <1>3
<1>6. IsARun'
  BY <1>3, <1>5 DEF IsARun
<1>7. TextsAreKnown'
  BY <1>1, <1>5 DEF TextsAreKnown
<1>8. TaintLine' = TaintLine
  <2>1. Step' = Step
    BY <1>5 DEF Step
  <2>2. Args' = Args
    BY <1>5, <2>1 DEF Args
  <2> QED
    BY <1>5, <2>1, <2>2 DEF TaintLine
<1>9. TaintLine' => job'.told
  BY <1>2, <1>5, <1>8
<1> QED
  BY <1>4, <1>6, <1>7, <1>9 DEF JobInv

LEMMA KeepGoingStep ==
  ASSUME JobInv, KeepGoing
  PROVE  JobInv'
<1>1. job # NoJob /\ IsARun /\ TextsAreKnown
  BY DEF JobInv, KeepGoing, None
<1>2. CASE Finish("cancelled")
  BY <1>2, Ended DEF Finish, NoCard
<1>3. CASE Advance([job EXCEPT !.yes = @ \cup {Step.id}])
  <2>1. PICK yes : yes = job.yes \cup {Step.id}
    OBVIOUS
  <2>2. PICK done : done = [job EXCEPT !.yes = @ \cup {Step.id}]
    OBVIOUS
  <2>3. done = [run |-> job.run, plan |-> job.plan, at |-> job.at, results |-> job.results,
                sources |-> job.sources, told |-> job.told, yes |-> yes]
    BY <1>1, <2>1, <2>2 DEF IsARun
  <2>4. Advance(done)
    BY <1>3, <2>2
  <2> QED
    BY <1>1, <2>3, <2>4, AdvanceStep DEF TextsAreKnown
<1> QED
  BY <1>2, <1>3 DEF KeepGoing

LEMMA StartRunStep ==
  ASSUME JobInv, StartRun
  PROVE  JobInv'
<1>1. PICK plan \in routines :
        LET n == Len(runs) + 1
            circle == TopologicallySorted(plan).failed
        IN  job' = IF circle THEN NoJob
                   ELSE [run |-> n, plan |-> Ordered(plan), at |-> 1, results |-> <<>>,
                         sources |-> {}, told |-> FALSE, yes |-> {}]
  BY DEF StartRun
<1>2. card = None
  BY DEF StartRun, Quiet, Idle, JobInv
<1>3. card' = None
  BY <1>2 DEF StartRun
<1>4. CASE job' = NoJob
  BY <1>3, <1>4, Ended
<1>5. CASE job' # NoJob
  <2>1. PICK n, order : job' = [run |-> n, plan |-> order, at |-> 1, results |-> <<>>,
                                sources |-> {}, told |-> FALSE, yes |-> {}]
    BY <1>1, <1>5
  <2>2. PICK results : results = <<>> /\ DOMAIN results = {}
    OBVIOUS
  <2>3. job' = [run |-> n, plan |-> order, at |-> 1, results |-> results,
                sources |-> {}, told |-> FALSE, yes |-> {}]
    BY <2>1, <2>2
  <2>4. card' # "permission"
    BY <1>3 DEF None
  <2> QED
    BY <2>2, <2>3, <2>4, AdvancedFurther
<1> QED
  BY <1>4, <1>5

LEMMA JobStands ==
  ASSUME JobInv, UNCHANGED <<job, card>>
  PROVE  JobInv'
<1>1. Step' = Step
  BY DEF Step
<1>2. Args' = Args
  BY <1>1 DEF Args
<1>3. TaintLine' = TaintLine
  BY <1>1, <1>2 DEF TaintLine
<1> QED
  BY <1>3 DEF JobInv, IsARun, TextsAreKnown

\* Every step keeps what is known of the job.
LEMMA JobStep == JobInv /\ [Next]_vars => JobInv'
<1> SUFFICES ASSUME JobInv, [Next]_vars PROVE JobInv'
  OBVIOUS
<1>1. CASE AddServer \/ RemoveServer \/ RefreshServer \/ RefreshBreaks \/ ChatTurn \/ ProfileSet
           \/ Propose \/ ConfirmSave \/ ImportPreview \/ ImportConfirm
  BY <1>1, JobStands DEF AddServer, RemoveServer, RefreshServer, RefreshBreaks, ChatTurn,
     ProfileSet, Propose, ConfirmSave, ImportPreview, ImportConfirm, Act, running
<1>2. CASE Restore \/ RoutineDelete
  BY <1>2, JobStands DEF Restore, RoutineDelete, running
<1>3. CASE Respond \/ Stop
  BY <1>3, JobStands DEF Respond, Stop
<1>4. CASE StartRun
  BY <1>4, StartRunStep
<1>5. CASE Unresolved \/ GateDenies \/ Unrecorded
  <2>1. job' = NoJob /\ card' = None
    BY <1>5 DEF Unresolved, GateDenies, Unrecorded, Finish, NoCard
  <2> QED
    BY <2>1, Ended
<1>6. CASE StepRefused
  <2>1. job # NoJob /\ RecordStep(Failed, job.sources)
    BY <1>6 DEF StepRefused, Working, Idle
  <2>2. PICK result : result = Failed
    OBVIOUS
  <2>3. result.carries = {} /\ ~result.ok
    BY <2>2 DEF Failed
  <2>4. RecordStep(result, job.sources)
    BY <2>1, <2>2
  <2> QED
    BY <2>1, <2>3, <2>4, RecordStepStep
<1>7. CASE GateAsks
  BY <1>7, GateAsksStep
<1>8. CASE ToolRuns
  BY <1>8, ToolRunsStep
<1>9. CASE KeepGoing
  BY <1>9, KeepGoingStep
<1>10. CASE Relaunch
  BY <1>10, Ended DEF Relaunch, NoCard
<1>11. CASE UNCHANGED vars
  BY <1>11, JobStands DEF vars, running
<1> QED
  BY <1>1, <1>2, <1>3, <1>4, <1>5, <1>6, <1>7, <1>8, <1>9, <1>10, <1>11 DEF Next, WorkerStep

\* Text of a file that can be recognised does not go to the web without a card
\* that says so (taint.py), for any plan and by whatever steps it got there.
THEOREM NoFileLeavesUntold == Spec => FileTextIsTold
<1>1. Init => JobInv
  BY DEF Init, JobInv, None
<1>2. ASSUME JobInv, ToolRuns, Step.tool \in WebTools,
             NEW id \in Args, job.results[id].ok, job.results[id].long
      PROVE  card = "permission" /\ answer = "allow" /\ job.told
  <2>1. job # NoJob
    BY <1>2 DEF JobInv, ToolRuns, Cleared, Working, Idle, None
  <2>2. TextsAreKnown
    BY <1>2, <2>1 DEF JobInv
  <2>3. id \in DOMAIN job.results
    BY <2>2, ArgsAreOfTheRun
  <2>4. id \in job.sources
    BY <1>2, <2>2, <2>3 DEF TextsAreKnown
  <2>5. TaintLine
    BY <1>2, <2>4 DEF TaintLine
  <2>6. card = "permission" /\ answer = "allow"
    BY <1>2, <2>5 DEF ToolRuns, Cleared
  <2> QED
    BY <1>2, <2>5, <2>6 DEF JobInv
<1>3. JobInv => [ToolRuns /\ Step.tool \in WebTools
                   /\ (\E id \in Args : job.results[id].ok /\ job.results[id].long) =>
                     card = "permission" /\ answer = "allow" /\ job.told]_vars
  BY <1>2
<1> QED
  BY <1>1, <1>3, JobStep, PTL DEF Spec, FileTextIsTold

-----------------------------------------------------------------------------
(* Counting and repeating.                                                 *)

\* A set of numbers has a least one.
LEMMA NatHasLeast ==
  ASSUME NEW S \in SUBSET Nat, S # {}
  PROVE  \E n \in S : \A m \in S : n <= m
<1> DEFINE R == OpToRel(<, Nat)
<1>1. IsWellFoundedOn(R, Nat)
  BY NatLessThanWellFounded
<1>2. \E n \in S : \A m \in S : <<m, n>> \notin R
  BY <1>1, WFMin
<1>3. ASSUME NEW m \in S, NEW n \in S, <<m, n>> \notin R PROVE n <= m
  BY <1>3 DEF OpToRel
<1> QED
  BY <1>2, <1>3

\* n steps taken one after the other: the values there are on the way.
Repeats(S, first, step, n) ==
  {f \in [0..n -> S] : f[0] = first /\ \A i \in 0..(n - 1) : f[i + 1] = step[i][f[i]]}

\* There is one way to take them.
LEMMA RepeatsAgree ==
  ASSUME NEW S, NEW first, NEW step, NEW n \in Nat, NEW m \in Nat,
         NEW f \in Repeats(S, first, step, n), NEW g \in Repeats(S, first, step, m),
         NEW k \in Nat, k <= n, k <= m
  PROVE  f[k] = g[k]
<1> DEFINE Wrong == {i \in Nat : i <= k /\ f[i] # g[i]}
<1>1. SUFFICES ASSUME f[k] # g[k] PROVE FALSE
  OBVIOUS
<1>2. PICK i \in Wrong : \A j \in Wrong : i <= j
  <2>1. Wrong \in SUBSET Nat /\ k \in Wrong
    BY <1>1
  <2> HIDE DEF Wrong
  <2> QED
    BY <2>1, NatHasLeast
<1>3. i # 0
  BY <1>2 DEF Repeats
<1>4. i - 1 \in Nat /\ i - 1 <= k /\ i - 1 \notin Wrong
  BY <1>2, <1>3
<1>5. f[i - 1] = g[i - 1]
  BY <1>4
<1>6. f[(i - 1) + 1] = step[i - 1][f[i - 1]] /\ g[(i - 1) + 1] = step[i - 1][g[i - 1]]
  BY <1>2, <1>3, <1>4 DEF Repeats
<1> QED
  BY <1>2, <1>5, <1>6

Endless(f, step) == \A n \in Nat : f[n + 1] = step[n][f[n]]

\* Steps that stay in a set can be taken one after the other without end.
LEMMA Repeated ==
  ASSUME NEW S, NEW first \in S, NEW step \in [Nat -> [S -> S]]
  PROVE  \E f \in [Nat -> S] : f[0] = first /\ Endless(f, step)
<1> DEFINE Missing == {n \in Nat : Repeats(S, first, step, n) = {}}
<1>1. Missing = {}
  <2>1. SUFFICES ASSUME Missing # {} PROVE FALSE
    OBVIOUS
  <2>2. PICK n \in Missing : \A m \in Missing : n <= m
    BY <2>1, NatHasLeast
  <2>3. n # 0
    <3>1. [i \in 0..0 |-> first] \in Repeats(S, first, step, 0)
      BY DEF Repeats
    <3> QED
      BY <3>1, <2>2
  <2>4. n - 1 \in Nat /\ n - 1 \notin Missing
    BY <2>2, <2>3
  <2>5. PICK f : f \in Repeats(S, first, step, n - 1)
    BY <2>4
  <2> DEFINE g == [i \in 0..n |-> IF i = n THEN step[n - 1][f[n - 1]] ELSE f[i]]
  <2>6. f \in [0..(n - 1) -> S] /\ f[0] = first
        /\ \A i \in 0..((n - 1) - 1) : f[i + 1] = step[i][f[i]]
    BY <2>5 DEF Repeats
  <2>7. g \in [0..n -> S]
    BY <2>4, <2>6
  <2>8. g[0] = first
    BY <2>3, <2>4, <2>6
  <2>9. ASSUME NEW i \in 0..(n - 1) PROVE g[i + 1] = step[i][g[i]]
    <3>1. g[i] = f[i]
      BY <2>4
    <3>2. CASE i = n - 1
      BY <2>4, <3>1, <3>2
    <3>3. CASE i # n - 1
      <4>1. i \in 0..((n - 1) - 1) /\ i + 1 # n /\ i + 1 \in 0..n
        BY <2>4, <3>3
      <4>2. g[i + 1] = f[i + 1]
        BY <4>1
      <4> QED
        BY <2>6, <3>1, <4>1, <4>2
    <3> QED
      BY <3>2, <3>3
  <2>10. g \in Repeats(S, first, step, n)
    BY <2>7, <2>8, <2>9 DEF Repeats
  <2> QED
    BY <2>2, <2>10
<1> DEFINE way(n) == CHOOSE f : f \in Repeats(S, first, step, n)
<1>2. ASSUME NEW n \in Nat PROVE way(n) \in Repeats(S, first, step, n)
  BY <1>1
<1> HIDE DEF way
<1> DEFINE all == [n \in Nat |-> way(n)[n]]
<1>3. all \in [Nat -> S]
  <2>1. ASSUME NEW n \in Nat PROVE way(n)[n] \in S
    BY <1>2 DEF Repeats
  <2> QED
    BY <2>1
<1>4. all[0] = first
  BY <1>2 DEF Repeats
<1>5. ASSUME NEW n \in Nat PROVE all[n + 1] = step[n][all[n]]
  <2>1. n + 1 \in Nat /\ n <= n /\ n <= n + 1 /\ n \in 0..((n + 1) - 1)
    OBVIOUS
  <2>2. way(n)[n] = way(n + 1)[n]
    BY <1>2, <2>1, RepeatsAgree
  <2>3. way(n + 1)[n + 1] = step[n][way(n + 1)[n]]
    BY <1>2, <2>1 DEF Repeats
  <2> QED
    BY <2>1, <2>2, <2>3
<1> QED
  BY <1>3, <1>4, <1>5 DEF Endless

IsFold(f, first, n, step) == f[0] = first /\ \A i \in 1..n : f[i] = step[i][f[i - 1]]

\* The recursion of a fold over a list.
LEMMA Folded ==
  ASSUME NEW S, NEW first \in S, NEW n \in Nat, NEW step \in [1..n -> [S -> S]]
  PROVE  \E f \in [0..n -> S] : IsFold(f, first, n, step)
<1>1. PICK steps : steps = [i \in Nat |-> IF i + 1 \in 1..n THEN step[i + 1] ELSE [x \in S |-> x]]
  OBVIOUS
<1>2. steps \in [Nat -> [S -> S]]
  BY <1>1
<1>3. PICK f \in [Nat -> S] : f[0] = first /\ Endless(f, steps)
  BY <1>2, Repeated
<1>4. PICK g : g = [i \in 0..n |-> f[i]]
  OBVIOUS
<1>5. ASSUME NEW i \in 1..n PROVE g[i] = step[i][g[i - 1]]
  <2>1. i - 1 \in Nat /\ (i - 1) + 1 = i /\ i - 1 \in 0..n /\ i \in 0..n
    OBVIOUS
  <2>2. steps[i - 1] = step[i]
    BY <1>1, <2>1
  <2>3. f[(i - 1) + 1] = steps[i - 1][f[i - 1]]
    BY <1>3, <2>1 DEF Endless
  <2> QED
    BY <1>4, <2>1, <2>2, <2>3
<1>6. g \in [0..n -> S] /\ g[0] = first
  BY <1>3, <1>4
<1> QED
  BY <1>5, <1>6 DEF IsFold

\* What goes from each number to the next goes from 0 to all up to n.
LEMMA UpTo ==
  ASSUME NEW n \in Nat, NEW P, 0 \in P, \A i \in 1..n : i - 1 \in P => i \in P
  PROVE  \A i \in 0..n : i \in P
<1> DEFINE Rest == (0..n) \ P
<1>1. SUFFICES ASSUME Rest # {} PROVE FALSE
  OBVIOUS
<1>2. PICK i \in Rest : \A j \in Rest : i <= j
  <2>1. Rest \in SUBSET Nat
    OBVIOUS
  <2> HIDE DEF Rest
  <2> QED
    BY <1>1, <2>1, NatHasLeast
<1>3. i # 0 /\ i \in 1..n
  BY <1>2
<1>4. i - 1 \in 0..n /\ i - 1 \notin Rest
  BY <1>2, <1>3
<1> QED
  BY <1>2, <1>3, <1>4

-----------------------------------------------------------------------------
(* What a check of a server lists (mcp_client.list_tools).                 *)

Listings(entries, cursors) ==
  [admitted : Seq(entries), skipped : Nat, cursors : SUBSET cursors, page : Nat, over : BOOLEAN]

\* n entries are accounted for: admitted, each once and not too many, or skipped.
Accounted(so, n) ==
  /\ \A i, j \in DOMAIN so.admitted : so.admitted[i] = so.admitted[j] => i = j
  /\ Len(so.admitted) <= MaxTools
  /\ Len(so.admitted) + so.skipped = n

\* Every entry counts once, admitted or skipped.
LEMMA EntryTaken ==
  ASSUME NEW E, NEW C, NEW so \in Listings(E, C), NEW entry \in E, NEW n \in Nat, Accounted(so, n)
  PROVE  /\ TakeEntry(so, entry) \in Listings(E, C) /\ Accounted(TakeEntry(so, entry), n + 1)
         /\ TakeEntry(so, entry).cursors = so.cursors /\ TakeEntry(so, entry).page = so.page
         /\ TakeEntry(so, entry).over = so.over
         /\ Range(TakeEntry(so, entry).admitted) \subseteq Range(so.admitted) \cup {entry}
<1>1. PICK more : more = TakeEntry(so, entry)
  OBVIOUS
<1>2. /\ so = [admitted |-> so.admitted, skipped |-> so.skipped, cursors |-> so.cursors,
               page |-> so.page, over |-> so.over]
      /\ so.admitted \in Seq(E) /\ so.skipped \in Nat /\ so.cursors \in SUBSET C
      /\ so.page \in Nat /\ so.over \in BOOLEAN /\ MaxTools \in Nat
  BY ServersAssumption DEF Listings
<1>3. CASE Len(so.admitted) < MaxTools /\ entry \notin Unusable /\ entry \notin Range(so.admitted)
  <2>1. PICK longer : longer = Append(so.admitted, entry)
    OBVIOUS
  <2>2. more = [admitted |-> longer, skipped |-> so.skipped, cursors |-> so.cursors,
                page |-> so.page, over |-> so.over]
    BY <1>1, <1>2, <1>3, <2>1 DEF TakeEntry
  <2>3. PICK k \in Nat : k = Len(so.admitted)
    BY <1>2
  <2>4. /\ longer \in Seq(E) /\ Len(longer) = k + 1 /\ DOMAIN longer = 1..(k + 1)
        /\ longer[k + 1] = entry /\ \A i \in 1..k : longer[i] = so.admitted[i]
        /\ DOMAIN so.admitted = 1..k
    BY <1>2, <2>1, <2>3
  <2>5. \A i \in 1..(k + 1) : i = k + 1 \/ i \in 1..k
    OBVIOUS
  <2>6. \A i \in 1..k : so.admitted[i] # entry
    BY <1>3, <2>4 DEF Range
  <2>7. \A i, j \in 1..(k + 1) : longer[i] = longer[j] => i = j
    BY <2>4, <2>5, <2>6 DEF Accounted
  <2>8. Range(longer) \subseteq Range(so.admitted) \cup {entry}
    BY <2>4, <2>5 DEF Range
  <2>9. /\ more.admitted = longer /\ more.skipped = so.skipped /\ more.cursors = so.cursors
        /\ more.page = so.page /\ more.over = so.over
    BY <2>2
  <2>10. more \in Listings(E, C)
    BY <1>2, <2>2, <2>4 DEF Listings
  <2>11. Accounted(more, n + 1)
    BY <1>2, <1>3, <2>3, <2>4, <2>7, <2>9 DEF Accounted
  <2> QED
    BY <1>1, <2>8, <2>9, <2>10, <2>11
<1>4. CASE ~(/\ Len(so.admitted) < MaxTools
             /\ entry \notin Unusable /\ entry \notin Range(so.admitted))
  <2>1. PICK skipped : skipped = so.skipped + 1
    OBVIOUS
  <2>2. more = [admitted |-> so.admitted, skipped |-> skipped, cursors |-> so.cursors,
                page |-> so.page, over |-> so.over]
    BY <1>1, <1>2, <1>4, <2>1 DEF TakeEntry
  <2>3. /\ more.admitted = so.admitted /\ more.skipped = skipped /\ more.cursors = so.cursors
        /\ more.page = so.page /\ more.over = so.over
    BY <2>2
  <2>4. more \in Listings(E, C)
    BY <1>2, <2>1, <2>2 DEF Listings
  <2>5. Accounted(more, n + 1)
    BY <1>2, <2>1, <2>3 DEF Accounted
  <2> QED
    BY <1>1, <2>3, <2>4, <2>5
<1> QED
  BY <1>3, <1>4

\* One page's entries, whatever was there before.
LEMMA EntriesTaken ==
  ASSUME NEW E, NEW C, NEW so \in Listings(E, C), NEW entries \in Seq(E),
         NEW n \in Nat, Accounted(so, n)
  PROVE  /\ TakeEntries(so, entries) \in Listings(E, C)
         /\ Accounted(TakeEntries(so, entries), n + Len(entries))
         /\ TakeEntries(so, entries).cursors = so.cursors
         /\ TakeEntries(so, entries).page = so.page
         /\ TakeEntries(so, entries).over = so.over
         /\ Range(TakeEntries(so, entries).admitted) \subseteq Range(so.admitted) \cup Range(entries)
<1> DEFINE N == Len(entries)
           S == Listings(E, C)
<1>1. N \in Nat /\ \A i \in 1..N : entries[i] \in E
  OBVIOUS
\* TakeEntry stays among the listings, accounted or not.
<1>2. ASSUME NEW x \in S, NEW entry \in E PROVE TakeEntry(x, entry) \in S
  <2>1. /\ x = [admitted |-> x.admitted, skipped |-> x.skipped, cursors |-> x.cursors,
                page |-> x.page, over |-> x.over]
        /\ x.admitted \in Seq(E) /\ x.skipped \in Nat /\ x.cursors \in SUBSET C
        /\ x.page \in Nat /\ x.over \in BOOLEAN
    BY DEF Listings
  <2>2. \/ TakeEntry(x, entry) = [x EXCEPT !.admitted = Append(@, entry)]
        \/ TakeEntry(x, entry) = [x EXCEPT !.skipped = @ + 1]
    BY DEF TakeEntry
  <2>3. Append(x.admitted, entry) \in Seq(E) /\ x.skipped + 1 \in Nat
    BY <2>1
  <2> QED
    BY <2>1, <2>2, <2>3 DEF Listings
<1>3. PICK step : step = [i \in 1..N |-> [x \in S |-> TakeEntry(x, entries[i])]]
  OBVIOUS
<1>4. step \in [1..N -> [S -> S]]
  BY <1>1, <1>2, <1>3
<1>5. PICK f \in [0..N -> S] : IsFold(f, so, N, step)
  BY <1>1, <1>4, Folded
<1>6. f = [i \in 0..N |-> IF i = 0 THEN so ELSE TakeEntry(f[i - 1], entries[i])]
  <2>1. ASSUME NEW i \in 0..N PROVE f[i] = IF i = 0 THEN so ELSE TakeEntry(f[i - 1], entries[i])
    <3>1. CASE i = 0
      BY <1>5, <3>1 DEF IsFold
    <3>2. CASE i # 0
      <4>1. i \in 1..N /\ i - 1 \in 0..N
        BY <1>1, <3>2
      <4>2. f[i] = step[i][f[i - 1]] /\ f[i - 1] \in S
        BY <1>5, <4>1 DEF IsFold
      <4> QED
        BY <1>3, <3>2, <4>1, <4>2
    <3> QED
      BY <3>1, <3>2
  <2> QED
    BY <1>5, <2>1
<1> HIDE DEF S
<1>7. PICK g : /\ g = [i \in 0..N |-> IF i = 0 THEN so ELSE TakeEntry(g[i - 1], entries[i])]
               /\ TakeEntries(so, entries) = g[N]
  BY <1>6 DEF TakeEntries
<1> DEFINE P == {i \in 0..N : /\ g[i] \in S /\ Accounted(g[i], n + i)
                              /\ g[i].cursors = so.cursors /\ g[i].page = so.page
                              /\ g[i].over = so.over
                              /\ Range(g[i].admitted) \subseteq Range(so.admitted) \cup Range(entries)}
<1>8. 0 \in P
  <2>1. g[0] = so
    BY <1>1, <1>7
  <2> QED
    BY <1>1, <2>1 DEF S
<1>9. ASSUME NEW i \in 1..N, i - 1 \in P PROVE i \in P
  <2>1. g[i] = TakeEntry(g[i - 1], entries[i])
    BY <1>1, <1>7
  <2>2. PICK x, m : x = g[i - 1] /\ m = n + (i - 1)
    OBVIOUS
  <2>3. /\ x \in S /\ m \in Nat /\ Accounted(x, m) /\ entries[i] \in E
        /\ x.cursors = so.cursors /\ x.page = so.page /\ x.over = so.over
        /\ Range(x.admitted) \subseteq Range(so.admitted) \cup Range(entries)
    BY <1>1, <1>9, <2>2
  <2>4. PICK entry \in E : entry = entries[i]
    BY <2>3
  <2>8. x \in Listings(E, C)
    BY <2>3 DEF S
  <2>9. Accounted(x, m) /\ m \in Nat
    BY <2>3
  <2>10. /\ TakeEntry(x, entry) \in Listings(E, C) /\ Accounted(TakeEntry(x, entry), m + 1)
         /\ TakeEntry(x, entry).cursors = x.cursors /\ TakeEntry(x, entry).page = x.page
         /\ TakeEntry(x, entry).over = x.over
         /\ Range(TakeEntry(x, entry).admitted) \subseteq Range(x.admitted) \cup {entry}
    BY <2>8, <2>9, EntryTaken
  <2>5. /\ TakeEntry(x, entry) \in Listings(E, C) /\ Accounted(TakeEntry(x, entry), m + 1)
        /\ TakeEntry(x, entry).cursors = so.cursors /\ TakeEntry(x, entry).page = so.page
        /\ TakeEntry(x, entry).over = so.over
        /\ Range(TakeEntry(x, entry).admitted) \subseteq Range(x.admitted) \cup {entry}
    BY <2>3, <2>10
  <2>6. entry \in Range(entries)
    BY <1>1, <2>4 DEF Range
  <2>7. m + 1 = n + i /\ g[i] = TakeEntry(x, entry) /\ i \in 0..N
    BY <1>1, <2>1, <2>2, <2>4
  <2> QED
    BY <2>3, <2>5, <2>6, <2>7 DEF S
<1> HIDE DEF P
<1>10. N \in P
  <2>1. PICK len \in Nat : len = N
    BY <1>1
  <2> HIDE DEF N
  <2>2. \A i \in 1..len : i - 1 \in P => i \in P
    BY <1>9, <2>1
  <2>3. \A i \in 0..len : i \in P
    BY <1>8, <2>2, UpTo
  <2>4. len \in P
    BY <2>3
  <2> QED
    BY <2>1, <2>4
<1> QED
  BY <1>7, <1>10 DEF P, S

\* One for a page that is named and was not asked for before.
Unasked(so, page) == IF page.next = None \/ page.next \in so.cursors THEN 0 ELSE 1

\* What reading one page may come to.
PageTaken(so, page, after, heard) ==
  /\ Range(after.admitted) \subseteq Range(so.admitted) \cup Range(page.entries)
  /\ \/ /\ ~after.over /\ after.page = so.page + 1 /\ Accounted(after, heard)
        /\ after.cursors = so.cursors \cup {page.next}
     \/ /\ after.over /\ after.page = so.page
        /\ Accounted(after, heard + Unasked(so, page))

\* One page: its entries, and whether there is a next one to ask for.
LEMMA PageRead ==
  ASSUME NEW E, NEW C, NEW so \in Listings(E, C), NEW n \in Nat, Accounted(so, n), ~so.over,
         NEW page, page.entries \in Seq(E), page.next \in C,
         NEW heard, heard = n + Len(page.entries)
  PROVE  /\ ReadPage(so, page) \in Listings(E, C)
         /\ PageTaken(so, page, ReadPage(so, page), heard)
<1>1. PICK entries \in Seq(E) : entries = page.entries
  OBVIOUS
<1>2. PICK more : more = TakeEntries(so, entries)
  OBVIOUS
<1>3. PICK next \in C : next = page.next
  OBVIOUS
<1>4. /\ more \in Listings(E, C) /\ Accounted(more, n + Len(entries))
      /\ more.page = so.page /\ more.over = so.over /\ more.cursors = so.cursors
      /\ Range(more.admitted) \subseteq Range(so.admitted) \cup Range(entries)
  <2>1. /\ TakeEntries(so, entries) \in Listings(E, C)
        /\ Accounted(TakeEntries(so, entries), n + Len(entries))
        /\ TakeEntries(so, entries).page = so.page
        /\ TakeEntries(so, entries).over = so.over
        /\ TakeEntries(so, entries).cursors = so.cursors
        /\ Range(TakeEntries(so, entries).admitted)
             \subseteq Range(so.admitted) \cup Range(entries)
    BY EntriesTaken
  <2> QED
    BY <1>2, <2>1
<1>5. Accounted(more, heard) /\ heard \in Nat
  BY <1>1, <1>4
<1>6. PICK after : after = TurnPage(more, next)
  OBVIOUS
<1>7. ReadPage(so, page) = after
  BY <1>1, <1>2, <1>3, <1>6 DEF ReadPage
<1>8. /\ more = [admitted |-> more.admitted, skipped |-> more.skipped, cursors |-> more.cursors,
                 page |-> more.page, over |-> more.over]
      /\ more.admitted \in Seq(E) /\ more.skipped \in Nat /\ more.cursors \in SUBSET C
      /\ more.page \in Nat /\ more.over \in BOOLEAN
  BY <1>4 DEF Listings
<1>12. Unasked(so, page) = IF next = None \/ next \in more.cursors THEN 0 ELSE 1
  BY <1>3, <1>4 DEF Unasked
<1>9. CASE /\ next = None \/ next \in more.cursors
           /\ after = [more EXCEPT !.over = TRUE]
  <2>1. after = [admitted |-> more.admitted, skipped |-> more.skipped, cursors |-> more.cursors,
                 page |-> more.page, over |-> TRUE]
    BY <1>8, <1>9
  <2>2. after \in Listings(E, C)
    BY <1>8, <2>1 DEF Listings
  <2>3. /\ after.over /\ after.page = so.page /\ after.admitted = more.admitted
        /\ after.skipped = more.skipped
    BY <1>4, <2>1
  <2>5. heard + Unasked(so, page) = heard
    BY <1>5, <1>9, <1>12
  <2>4. Accounted(after, heard + Unasked(so, page))
    BY <1>5, <2>3, <2>5 DEF Accounted
  <2> QED
    BY <1>1, <1>4, <1>7, <2>2, <2>3, <2>4 DEF PageTaken
<1>10. CASE /\ ~(next = None \/ next \in more.cursors)
            /\ after = [more EXCEPT !.over = TRUE, !.skipped = @ + 1]
  <2>1. PICK skipped : skipped = more.skipped + 1
    OBVIOUS
  <2>2. after = [admitted |-> more.admitted, skipped |-> skipped, cursors |-> more.cursors,
                 page |-> more.page, over |-> TRUE]
    BY <1>8, <1>10, <2>1
  <2>3. after \in Listings(E, C)
    BY <1>8, <2>1, <2>2 DEF Listings
  <2>4. /\ after.over /\ after.page = so.page /\ after.admitted = more.admitted
        /\ after.skipped = more.skipped + 1
    BY <1>4, <2>1, <2>2
  <2>6. Unasked(so, page) = 1
    BY <1>10, <1>12
  <2>5. Accounted(after, heard + Unasked(so, page))
    BY <1>5, <1>8, <2>4, <2>6 DEF Accounted
  <2> QED
    BY <1>1, <1>4, <1>7, <2>3, <2>4, <2>5 DEF PageTaken
<1>11. CASE after = [more EXCEPT !.cursors = @ \cup {next}, !.page = @ + 1]
  <2>1. PICK cursors, number : cursors = more.cursors \cup {next} /\ number = more.page + 1
    OBVIOUS
  <2>2. after = [admitted |-> more.admitted, skipped |-> more.skipped, cursors |-> cursors,
                 page |-> number, over |-> more.over]
    BY <1>8, <1>11, <2>1
  <2>3. cursors \in SUBSET C /\ number \in Nat
    BY <1>8, <2>1
  <2>4. after \in Listings(E, C)
    BY <1>8, <2>2, <2>3 DEF Listings
  <2>5. /\ ~after.over /\ after.page = so.page + 1 /\ after.admitted = more.admitted
        /\ after.skipped = more.skipped /\ after.cursors = so.cursors \cup {page.next}
    BY <1>3, <1>4, <2>1, <2>2
  <2>6. Accounted(after, heard)
    BY <1>5, <2>5 DEF Accounted
  <2> QED
    BY <1>1, <1>4, <1>7, <2>4, <2>5, <2>6 DEF PageTaken
<1> QED
  BY <1>6, <1>9, <1>10, <1>11 DEF TurnPage

EntriesOf(pages) == UNION {Range(pages[n].entries) : n \in DOMAIN pages}
CursorsOf(pages) == {pages[n].next : n \in DOMAIN pages}

\* Only offered: by one of the first n pages.
OfferedBy(pages, n, tools) == \A tool \in tools : \E k \in 1..n : tool \in Range(pages[k].entries)

\* One for the page the last of these named, unless it was asked for.
StillThere(pages, n) == IF NamesAnother(pages, n) THEN 1 ELSE 0

\* Where the walk through the pages is after i of them.
Walked(pages, h, so, i) ==
  /\ so \in Listings(EntriesOf(pages), CursorsOf(pages))
  /\ OfferedBy(pages, so.page, Range(so.admitted))
  /\ \/ /\ ~so.over /\ so.page = i + 1 /\ Accounted(so, h[i])
        /\ so.cursors = {pages[k].next : k \in 1..i}
     \/ /\ so.over /\ so.page \in 1..i
        /\ Accounted(so, h[so.page] + StillThere(pages, so.page))

\* What the pages add up to.
Adds(pages, h) ==
  \A i \in 1..Len(pages) : h[i] = h[i - 1] + Len(pages[i].entries)

\* The next page, or nothing once the walk is over.
LEMMA WalkGoesOn ==
  ASSUME NEW pages, pages \in Seq(Range(pages)), NEW h \in [0..Len(pages) -> Nat], Adds(pages, h),
         \A k \in DOMAIN pages : pages[k].entries \in Seq(Range(pages[k].entries)),
         NEW i \in 1..Len(pages), NEW so, Walked(pages, h, so, i - 1)
  PROVE  Walked(pages, h, ReadPage(so, pages[i]), i)
<1> DEFINE E == EntriesOf(pages)
           C == CursorsOf(pages)
<1>1. PICK page : page = pages[i]
  OBVIOUS
<1>2. /\ i \in DOMAIN pages /\ i \in Nat /\ i - 1 \in 0..Len(pages) /\ i - 1 + 1 = i
      /\ Len(pages) \in Nat
  OBVIOUS
<1>3. page.next \in C /\ Range(page.entries) \subseteq E
  BY <1>1, <1>2 DEF CursorsOf, EntriesOf
<1>4. page.entries \in Seq(E)
  <2>1. page.entries \in Seq(Range(page.entries))
    BY <1>1, <1>2
  <2> QED
    BY <1>3, <2>1
<1>5. so \in Listings(E, C) /\ OfferedBy(pages, so.page, Range(so.admitted))
  BY DEF Walked
<1>6. CASE so.over
  <2>1. ReadPage(so, page) = so
    BY <1>6 DEF ReadPage
  <2>2. /\ so.page \in 1..(i - 1)
        /\ Accounted(so, h[so.page] + StillThere(pages, so.page))
    BY <1>6 DEF Walked
  <2>3. so.page \in 1..i
    BY <1>2, <2>2
  <2> QED
    BY <1>1, <1>5, <1>6, <2>1, <2>2, <2>3 DEF Walked
<1>7. CASE ~so.over
  <2>1. /\ so.page = i /\ Accounted(so, h[i - 1])
        /\ so.cursors = {pages[k].next : k \in 1..(i - 1)}
    BY <1>2, <1>7 DEF Walked
  <2>11. Unasked(so, page) = StillThere(pages, i)
    BY <1>1, <2>1 DEF Unasked, StillThere, NamesAnother
  <2>2. PICK n \in Nat : n = h[i - 1]
    BY <1>2
  <2>3. PICK heard : heard = n + Len(page.entries)
    OBVIOUS
  <2>4. h[i] = heard
    BY <1>1, <2>2, <2>3 DEF Adds
  <2>5. PICK after : after = ReadPage(so, page)
    OBVIOUS
  <2> HIDE DEF E, C
  <2>6. Accounted(so, n)
    BY <2>1, <2>2
  <2>7. /\ after \in Listings(E, C)
        /\ Range(after.admitted) \subseteq Range(so.admitted) \cup Range(page.entries)
        /\ \/ /\ ~after.over /\ after.page = so.page + 1 /\ Accounted(after, heard)
              /\ after.cursors = so.cursors \cup {page.next}
           \/ /\ after.over /\ after.page = so.page
              /\ Accounted(after, heard + Unasked(so, page))
    <3>1. ReadPage(so, page) \in Listings(E, C) /\ PageTaken(so, page, ReadPage(so, page), heard)
      BY <1>3, <1>4, <1>5, <1>7, <2>3, <2>6, PageRead
    <3> QED
      BY <2>5, <3>1 DEF PageTaken
  <2>8. OfferedBy(pages, after.page, Range(after.admitted))
    <3>1. after.page \in {i, i + 1}
      BY <2>1, <2>7
    <3>2. \A k \in 1..i : k \in 1..after.page
      BY <1>2, <3>1
    <3>3. i \in 1..i
      BY <1>2
    <3>4. ASSUME NEW tool \in Range(after.admitted)
          PROVE  \E k \in 1..i : tool \in Range(pages[k].entries)
      BY <1>1, <1>5, <2>1, <2>7, <3>3, <3>4 DEF OfferedBy
    <3> QED
      BY <3>2, <3>4 DEF OfferedBy
  <2>9. CASE ~after.over
    <3>1. after.page = i + 1 /\ Accounted(after, h[i])
      BY <2>1, <2>4, <2>7, <2>9
    <3>2. after.cursors = {pages[k].next : k \in 1..i}
      <4>1. 1..i = 1..(i - 1) \cup {i}
        BY <1>2
      <4>2. after.cursors = {pages[k].next : k \in 1..(i - 1)} \cup {pages[i].next}
        BY <1>1, <2>1, <2>7, <2>9
      <4> QED
        BY <4>1, <4>2
    <3> QED
      BY <1>1, <2>5, <2>7, <2>8, <2>9, <3>1, <3>2 DEF Walked, E, C
  <2>10. CASE after.over
    <3>1. after.page = i /\ Accounted(after, h[i] + StillThere(pages, i))
      BY <2>1, <2>4, <2>7, <2>10, <2>11
    <3>2. after.page \in 1..i
      BY <1>2, <3>1
    <3> QED
      BY <1>1, <2>5, <2>7, <2>8, <2>10, <3>1, <3>2 DEF Walked, E, C
  <2> QED
    BY <2>9, <2>10
<1> QED
  BY <1>6, <1>7

\* The numbers a list of pages adds up to.
LEMMA HeardAdds ==
  ASSUME NEW pages, pages \in Seq(Range(pages)),
         \A k \in DOMAIN pages : pages[k].entries \in Seq(Range(pages[k].entries)), NEW page
  PROVE  \E h \in [0..Len(pages) -> Nat] :
            h[0] = 0 /\ Adds(pages, h) /\ Heard(pages, page) = h[page]
<1> DEFINE N == Len(pages)
<1>1. N \in Nat /\ \A i \in 1..N : Len(pages[i].entries) \in Nat
  OBVIOUS
<1>2. PICK step : step = [i \in 1..N |-> [x \in Nat |-> x + Len(pages[i].entries)]]
  OBVIOUS
<1>3. step \in [1..N -> [Nat -> Nat]]
  BY <1>1, <1>2
<1>4. PICK f \in [0..N -> Nat] : IsFold(f, 0, N, step)
  BY <1>1, <1>3, Folded
<1>5. f = [k \in 0..N |-> IF k = 0 THEN 0 ELSE f[k - 1] + Len(pages[k].entries)]
  <2>1. ASSUME NEW i \in 0..N
        PROVE  f[i] = IF i = 0 THEN 0 ELSE f[i - 1] + Len(pages[i].entries)
    <3>1. CASE i = 0
      BY <1>4, <3>1 DEF IsFold
    <3>2. CASE i # 0
      <4>1. i \in 1..N /\ i - 1 \in 0..N
        BY <1>1, <3>2
      <4>2. f[i] = step[i][f[i - 1]] /\ f[i - 1] \in Nat
        BY <1>4, <4>1 DEF IsFold
      <4> QED
        BY <1>2, <3>2, <4>1, <4>2
    <3> QED
      BY <3>1, <3>2
  <2> QED
    BY <1>4, <2>1
<1>6. PICK h : /\ h = [k \in 0..N |-> IF k = 0 THEN 0 ELSE h[k - 1] + Len(pages[k].entries)]
               /\ Heard(pages, page) = h[page]
  BY <1>5 DEF Heard
<1>7. h[0] = 0 /\ DOMAIN h = 0..N
  BY <1>1, <1>6
<1>8. \A i \in 1..N : h[i] = h[i - 1] + Len(pages[i].entries)
  BY <1>1, <1>6
<1>9. h \in [0..N -> Nat]
  <2> DEFINE P == {i \in 0..N : h[i] \in Nat}
  <2>1. 0 \in P
    BY <1>1, <1>7
  <2>2. \A i \in 1..N : i - 1 \in P => i \in P
    BY <1>1, <1>8
  <2>3. PICK len \in Nat : len = N
    BY <1>1
  <2> HIDE DEF P, N
  <2>4. \A i \in 1..len : i - 1 \in P => i \in P
    BY <2>2, <2>3
  <2>5. \A i \in 0..len : i \in P
    BY <2>1, <2>4, UpTo
  <2>6. \A i \in 0..N : h[i] \in Nat
    BY <2>3, <2>5 DEF P
  <2> QED
    BY <1>6, <1>7, <2>6
<1> QED
  BY <1>6, <1>7, <1>8, <1>9 DEF Adds

Sums(so) == Accounted(so, Len(so.admitted) + so.skipped)

\* Reading a page stays among the listings whose numbers agree.
LEMMA ReadPageSums ==
  ASSUME NEW E, NEW C, NEW so \in Listings(E, C), Sums(so),
         NEW page, page.entries \in Seq(E), page.next \in C
  PROVE  ReadPage(so, page) \in Listings(E, C) /\ Sums(ReadPage(so, page))
<1>1. CASE so.over
  BY <1>1 DEF ReadPage
<1>2. CASE ~so.over
  <2>1. PICK n \in Nat : n = Len(so.admitted) + so.skipped
    BY DEF Listings
  <2>2. PICK heard : heard = n + Len(page.entries)
    OBVIOUS
  <2>3. PICK after : after = ReadPage(so, page)
    OBVIOUS
  <2>4. Accounted(so, n)
    BY <2>1 DEF Sums
  <2>5. ReadPage(so, page) \in Listings(E, C) /\ PageTaken(so, page, ReadPage(so, page), heard)
    BY <1>2, <2>2, <2>4, PageRead
  <2>6. Accounted(after, heard) \/ Accounted(after, heard + Unasked(so, page))
    BY <2>3, <2>5 DEF PageTaken
  <2>7. Sums(after)
    BY <2>6 DEF Accounted, Sums
  <2> QED
    BY <2>3, <2>5, <2>7
<1> QED
  BY <1>1, <1>2

NothingListedFacts(E, C) ==
  /\ NothingListed \in Listings(E, C) /\ Accounted(NothingListed, 0)
  /\ NothingListed.page = 1 /\ ~NothingListed.over /\ Range(NothingListed.admitted) = {}
  /\ NothingListed.cursors = {}

\* The walk begins with nothing.
LEMMA NothingListedIsSound ==
  ASSUME NEW E, NEW C
  PROVE  NothingListedFacts(E, C)
<1>1. PICK so : so = NothingListed
  OBVIOUS
<1>2. /\ so = [admitted |-> <<>>, skipped |-> 0, cursors |-> {}, page |-> 1, over |-> FALSE]
      /\ so.admitted = <<>> /\ so.skipped = 0 /\ so.page = 1 /\ so.over = FALSE
      /\ so.cursors = {}
  BY <1>1 DEF NothingListed
<1>3. <<>> \in Seq(E) /\ Range(<<>>) = {}
  BY DEF Range
<1>4. so \in Listings(E, C)
  BY <1>2, <1>3 DEF Listings
<1>5. Accounted(so, 0)
  BY <1>2, ServersAssumption DEF Accounted
<1> QED
  BY <1>1, <1>2, <1>3, <1>4, <1>5 DEF NothingListedFacts

\* The pages are walked one after the other, from nothing listed.
LEMMA ListToolsWalks ==
  ASSUME NEW pages, pages \in Seq(Range(pages)),
         \A k \in DOMAIN pages : pages[k].entries \in Seq(Range(pages[k].entries)),
         NEW h \in [0..Len(pages) -> Nat], h[0] = 0, Adds(pages, h)
  PROVE  Walked(pages, h, ListTools(pages), Len(pages))
<1> DEFINE N == Len(pages)
           E == EntriesOf(pages)
           C == CursorsOf(pages)
           S == {so \in Listings(E, C) : Sums(so)}
<1>1. N \in Nat /\ DOMAIN pages = 1..N
  OBVIOUS
<1>2. NothingListedFacts(E, C)
  BY NothingListedIsSound
<1>3. NothingListed \in S
  BY <1>2 DEF NothingListedFacts, Sums, Accounted
<1>4. ASSUME NEW i \in 1..N PROVE pages[i].entries \in Seq(E) /\ pages[i].next \in C
  <2>1. PICK entries : entries = pages[i].entries
    OBVIOUS
  <2>2. Range(entries) \subseteq E /\ entries \in Seq(Range(entries))
    BY <1>1, <2>1 DEF EntriesOf
  <2>3. entries \in Seq(E)
    BY <2>2
  <2>4. pages[i].next \in C
    BY <1>1 DEF CursorsOf
  <2> QED
    BY <2>1, <2>3, <2>4
<1> HIDE DEF E, C
<1>5. ASSUME NEW i \in 1..N, NEW so \in S PROVE ReadPage(so, pages[i]) \in S
  <2>1. PICK page : page = pages[i]
    OBVIOUS
  <2>2. page.entries \in Seq(E) /\ page.next \in C
    BY <1>4, <2>1
  <2>3. ReadPage(so, page) \in Listings(E, C) /\ Sums(ReadPage(so, page))
    BY <2>2, ReadPageSums
  <2> QED
    BY <2>1, <2>3
<1>6. PICK step : step = [i \in 1..N |-> [so \in S |-> ReadPage(so, pages[i])]]
  OBVIOUS
<1>7. step \in [1..N -> [S -> S]]
  BY <1>5, <1>6
<1> HIDE DEF S
<1>8. PICK f \in [0..N -> S] : IsFold(f, NothingListed, N, step)
  BY <1>1, <1>3, <1>7, Folded
<1>9. f = [n \in 0..N |-> IF n = 0 THEN NothingListed ELSE ReadPage(f[n - 1], pages[n])]
  <2>1. ASSUME NEW i \in 0..N
        PROVE  f[i] = IF i = 0 THEN NothingListed ELSE ReadPage(f[i - 1], pages[i])
    <3>1. CASE i = 0
      BY <1>8, <3>1 DEF IsFold
    <3>2. CASE i # 0
      <4>1. i \in 1..N /\ i - 1 \in 0..N
        BY <1>1, <3>2
      <4>2. f[i] = step[i][f[i - 1]] /\ f[i - 1] \in S
        BY <1>8, <4>1 DEF IsFold
      <4> QED
        BY <1>6, <3>2, <4>1, <4>2
    <3> QED
      BY <3>1, <3>2
  <2> QED
    BY <1>8, <2>1
<1>10. PICK g : /\ g = [n \in 0..N |-> IF n = 0 THEN NothingListed
                                       ELSE ReadPage(g[n - 1], pages[n])]
                /\ ListTools(pages) = g[N]
  BY <1>9 DEF ListTools
<1> DEFINE P == {i \in 0..N : Walked(pages, h, g[i], i)}
<1>11. 0 \in P
  <2>1. g[0] = NothingListed
    BY <1>1, <1>10
  <2>2. PICK so : so = NothingListed
    OBVIOUS
  <2>3. /\ so \in Listings(E, C) /\ Accounted(so, 0)
        /\ so.page = 1 /\ ~so.over /\ Range(so.admitted) = {} /\ so.cursors = {}
    BY <1>2, <2>2 DEF NothingListedFacts
  <2>5. {pages[k].next : k \in 1..0} = {}
    OBVIOUS
  <2>4. Walked(pages, h, so, 0)
    BY <2>3, <2>5 DEF Walked, OfferedBy, E, C
  <2> QED
    BY <1>1, <2>1, <2>2, <2>4
<1>12. ASSUME NEW i \in 1..N, i - 1 \in P PROVE i \in P
  <2>1. PICK so : so = g[i - 1]
    OBVIOUS
  <2>2. Walked(pages, h, so, i - 1) /\ i \in 0..N
    BY <1>1, <1>12, <2>1
  <2>3. g[i] = ReadPage(so, pages[i])
    BY <1>1, <1>10, <2>1
  <2>4. Walked(pages, h, ReadPage(so, pages[i]), i)
    BY <2>2, WalkGoesOn
  <2> QED
    BY <2>2, <2>3, <2>4
<1>13. N \in P
  <2>1. PICK len \in Nat : len = N
    BY <1>1
  <2> HIDE DEF P, N
  <2>2. \A i \in 1..len : i - 1 \in P => i \in P
    BY <1>12, <2>1
  <2>3. \A i \in 0..len : i \in P
    BY <1>11, <2>2, UpTo
  <2>4. len \in P
    BY <2>3
  <2> QED
    BY <2>1, <2>4
<1> QED
  BY <1>10, <1>13

\* What a check that landed listed: every tool once and no more than a server may
\* have, offered by a page that was read, and with the number of those left behind
\* as many as the pages read offered, and one more for a page not asked for.
ListedFacts(pages, so) ==
  /\ so.admitted \in Seq(Range(so.admitted)) /\ so.skipped \in Nat
  /\ \A i, j \in DOMAIN so.admitted : so.admitted[i] = so.admitted[j] => i = j
  /\ Len(so.admitted) <= MaxTools
  /\ Heard(pages, so.page) \in Nat
  /\ Len(so.admitted) + so.skipped = Heard(pages, so.page) + StillThere(pages, so.page)
  /\ OfferedBy(pages, so.page, Range(so.admitted))

\* What the end of the walk comes to, for a check that landed.
LEMMA ListToolsFacts ==
  ASSUME NEW said \in Answers, Lands(said)
  PROVE  ListedFacts(said.pages, ListTools(said.pages))
<1>1. PICK pages, so : pages = said.pages /\ so = ListTools(pages)
  OBVIOUS
<1>2. /\ pages \in Seq(Range(pages)) /\ so.over
      /\ \A k \in DOMAIN pages : pages[k].entries \in Seq(Range(pages[k].entries))
  BY <1>1, ServersAssumption DEF Lands
<1>3. PICK page : page = so.page
  OBVIOUS
<1>4. PICK h \in [0..Len(pages) -> Nat] : h[0] = 0 /\ Adds(pages, h) /\ Heard(pages, page) = h[page]
  BY <1>2, HeardAdds
<1>5. Walked(pages, h, so, Len(pages))
  <2>1. Walked(pages, h, ListTools(pages), Len(pages))
    BY <1>2, <1>4, ListToolsWalks
  <2> QED
    BY <1>1, <2>1
<1>6. /\ page \in 1..Len(pages) /\ OfferedBy(pages, page, Range(so.admitted))
      /\ Accounted(so, h[page] + StillThere(pages, page))
  BY <1>2, <1>3, <1>5 DEF Walked
<1>7. so.admitted \in Seq(Range(so.admitted)) /\ so.skipped \in Nat
  <2>1. so.admitted \in Seq(EntriesOf(pages)) /\ so.skipped \in Nat
    BY <1>5 DEF Walked, Listings
  <2> QED
    BY <2>1 DEF Range
<1>8. Len(pages) \in Nat /\ h[page] \in Nat
  BY <1>2, <1>4, <1>6
<1>9. ListedFacts(pages, so)
  BY <1>3, <1>4, <1>6, <1>7, <1>8 DEF ListedFacts, Accounted
<1> QED
  BY <1>1, <1>9

\* A list with nothing twice has as many elements as it is long.
LEMMA RangeCounts ==
  ASSUME NEW E, NEW s \in Seq(E), \A i, j \in DOMAIN s : s[i] = s[j] => i = j
  PROVE  IsFiniteSet(Range(s)) /\ Cardinality(Range(s)) = Len(s)
<1>1. PICK n \in Nat : n = Len(s)
  OBVIOUS
<1>2. DOMAIN s = 1..n
  BY <1>1
<1>3. IsFiniteSet(1..n) /\ Cardinality(1..n) = n
  <2>1. IsFiniteSet(1..n)
    BY FS_Interval
  <2>2. Cardinality(1..n) = IF 1 > n THEN 0 ELSE n - 1 + 1
    BY FS_Interval
  <2> QED
    BY <2>1, <2>2
<1>4. s \in Bijection(1..n, Range(s))
  BY <1>2 DEF Range, Bijection, Injection, Surjection, IsInjective
<1>5. ExistsBijection(1..n, Range(s))
  BY <1>4 DEF ExistsBijection
<1>6. IsFiniteSet(Range(s)) /\ Cardinality(Range(s)) = Cardinality(1..n)
  BY <1>3, <1>5, FS_Bijection
<1> QED
  BY <1>1, <1>3, <1>6

\* What is shown and what is not add up.
LEMMA ShownAndLeftBehind ==
  ASSUME NEW row, NEW said \in Answers, Lands(said), RecordSuccess(row, ListTools(said.pages))
  PROVE  NothingLeftOut(row, said)
<1>1. PICK pages, so : pages = said.pages /\ so = ListTools(pages)
  OBVIOUS
<1>2. ListedFacts(pages, so)
  BY <1>1, ListToolsFacts
<1>3. PICK tools, refused : tools = Range(so.admitted) /\ refused = Refused(row, tools)
  OBVIOUS
<1>4. PICK heard \in Nat : heard = Heard(pages, so.page)
  BY <1>2 DEF ListedFacts
<1>5. PICK n \in Nat : n = Len(so.admitted)
  BY <1>2 DEF ListedFacts
<1>6. IsFiniteSet(tools) /\ Cardinality(tools) = n
  <2>1. PICK s : s = so.admitted
    OBVIOUS
  <2>2. s \in Seq(tools) /\ \A i, j \in DOMAIN s : s[i] = s[j] => i = j
    BY <1>2, <1>3, <2>1 DEF ListedFacts
  <2>3. IsFiniteSet(Range(s)) /\ Cardinality(Range(s)) = Len(s)
    BY <2>2, RangeCounts
  <2> QED
    BY <1>3, <1>5, <2>1, <2>3
<1>7. refused \subseteq tools
  BY <1>3 DEF Refused
<1>8. /\ Cardinality(tools \ refused) \in Nat /\ Cardinality(refused) \in Nat
      /\ Cardinality(tools \ refused) + Cardinality(refused) = n
  <2>1. IsFiniteSet(refused)
    BY <1>6, <1>7, FS_Subset
  <2>2. IsFiniteSet(tools \ refused)
    BY <1>6, FS_Difference
  <2>3. Cardinality(tools \ refused) \in Nat /\ Cardinality(refused) \in Nat
    BY <2>1, <2>2, FS_CardinalityType
  <2>4. tools \cap refused = refused
    BY <1>7
  <2>5. Cardinality(tools \ refused) = Cardinality(tools) - Cardinality(tools \cap refused)
    BY <1>6, FS_Difference
  <2>6. Cardinality(tools \ refused) = n - Cardinality(refused)
    BY <1>6, <2>4, <2>5
  <2>7. PICK kept \in Nat, left \in Nat :
          kept = Cardinality(tools \ refused) /\ left = Cardinality(refused)
    BY <2>3
  <2>8. kept + left = n
    BY <2>6, <2>7
  <2> QED
    BY <2>3, <2>7, <2>8
<1>9. PICK r : r = [status |-> "ok", tools |-> tools, refused |-> refused, skipped |-> so.skipped]
  OBVIOUS
<1>10. found' = With(found, row.id, r)
  BY <1>1, <1>3, <1>9 DEF RecordSuccess
<1>11. found'[row.id] = r
  BY <1>10 DEF With
<1>12. Available(row.id)' = tools \ refused /\ NotTaken(row.id)' = so.skipped + Cardinality(refused)
  BY <1>9, <1>11 DEF Available, NotTaken
<1>18. PICK more \in {0, 1} : more = StillThere(pages, so.page)
  BY DEF StillThere
<1>13. so.skipped \in Nat /\ n <= MaxTools /\ n + so.skipped = heard + more
  BY <1>2, <1>4, <1>5, <1>18 DEF ListedFacts
<1>14. MaxTools \in Nat
  BY ServersAssumption
<1>15. PICK kept \in Nat, left \in Nat :
         kept = Cardinality(tools \ refused) /\ left = Cardinality(refused) /\ kept + left = n
  BY <1>8
<1>16. kept + (so.skipped + left) = heard + more /\ kept <= MaxTools
  BY <1>13, <1>14, <1>15
<1>17. \A tool \in tools \ refused : \E k \in 1..so.page : tool \in Range(pages[k].entries)
  BY <1>2, <1>3 DEF ListedFacts, OfferedBy
<1> QED
  BY <1>1, <1>4, <1>12, <1>15, <1>16, <1>17, <1>18 DEF NothingLeftOut, StillThere

\* Whatever pages a server answers a check with, the tools shown and the number
\* said to have been left behind are every entry it was heard to offer, and one more
\* exactly where the walk stopped short of a page it had not asked for; and no tool
\* is shown that it did not offer (mcp_client.list_tools,
\* McpCatalog.record_success).
THEOREM NothingListedIsLost == Spec => NothingIsDroppedSilently
<1>1. ASSUME NEW row \in servers, NEW said \in Answers, McpRefresh(row, said), Lands(said)
      PROVE  NothingLeftOut(row, said)
  <2>1. RecordSuccess(row, ListTools(said.pages))
    BY <1>1 DEF McpRefresh
  <2> QED
    BY <1>1, <2>1, ShownAndLeftBehind
<1>2. [EveryCheckAccounts]_serverVars
  BY <1>1 DEF EveryCheckAccounts
<1> QED
  BY <1>2, PTL DEF NothingIsDroppedSilently

-----------------------------------------------------------------------------
(* The order the steps of a routine run in (engine.topologically_sorted).  *)
(* That visit returns at all is the first thing: a walk goes deeper only   *)
(* by beginning a step it had not begun, and on only with one step less    *)
(* to go, so after finitely many rounds each call has its answer.          *)

\* A plan is a list of steps, and each names what it waits for in a list.
IsPlan(plan) ==
  /\ plan \in Seq(Range(plan))
  /\ \A i \in DOMAIN plan : plan[i].needs \in Seq(Range(plan[i].needs))

Named(plan) == StepIds(plan) \cup UNION {Range(plan[i].needs) : i \in DOMAIN plan}

LEMMA CallsAre == \A plan : Calls(plan) = [walk : Walks(plan), steps : Seq(Named(plan))]
BY DEF Calls, Named

\* What answers calls without forgetting a step that was begun.
Answering(plan) ==
  {visit \in [Calls(plan) -> Walks(plan)] :
     \A call \in Calls(plan) : call.walk.visiting \subseteq visit[call].visiting}

\* One round of visitEach, on the answers of the round before.
RoundOf(plan, visit, call) ==
  IF call.steps = <<>> THEN call.walk
  ELSE visit[Call(Visit(plan, visit, call.walk, Head(call.steps)), Tail(call.steps))]

\* What a visit asks before it puts the step in order.
Inside(plan, walk, step) ==
  Call([walk EXCEPT !.visiting = @ \cup {step}], Needs(plan, step))

\* A plan's step is found by its id.
LEMMA StepOfFacts ==
  ASSUME NEW plan, NEW step \in StepIds(plan)
  PROVE  \E i \in DOMAIN plan : StepOf(plan, step) = plan[i] /\ plan[i].id = step
<1>1. \E i \in DOMAIN plan : plan[i].id = step
  BY DEF StepIds
<1>2. PICK i : i = CHOOSE j \in DOMAIN plan : plan[j].id = step
  OBVIOUS
<1>3. i \in DOMAIN plan /\ plan[i].id = step
  BY <1>1, <1>2
<1> QED
  BY <1>2, <1>3 DEF StepOf

\* What a step needs are steps of its plan.
LEMMA NeedsAreNamed ==
  ASSUME NEW plan, IsPlan(plan), NEW step \in StepIds(plan)
  PROVE  /\ Needs(plan, step) \in Seq(Named(plan))
         /\ Needs(plan, step) \in Seq(Range(Needs(plan, step)))
<1>1. PICK i \in DOMAIN plan : StepOf(plan, step) = plan[i]
  BY StepOfFacts
<1>2. Needs(plan, step) = plan[i].needs
  BY <1>1 DEF Needs
<1>3. plan[i].needs \in Seq(Range(plan[i].needs))
  BY DEF IsPlan
<1>4. Range(plan[i].needs) \subseteq Named(plan)
  BY DEF Named
<1>5. PICK needs : needs = plan[i].needs
  OBVIOUS
<1>6. needs \in Seq(Named(plan))
  BY <1>3, <1>4, <1>5
<1> QED
  BY <1>2, <1>3, <1>5, <1>6

\* The visits of a step's needs are calls too.
LEMMA InsideIsACall ==
  ASSUME NEW plan, IsPlan(plan), NEW walk \in Walks(plan), NEW step \in StepIds(plan)
  PROVE  /\ Inside(plan, walk, step) \in Calls(plan)
         /\ Inside(plan, walk, step).walk =
              [ordered |-> walk.ordered, visiting |-> walk.visiting \cup {step},
               failed |-> walk.failed]
         /\ Inside(plan, walk, step).steps = Needs(plan, step)
<1>1. PICK inside : inside = [walk EXCEPT !.visiting = @ \cup {step}]
  OBVIOUS
<1>2. inside = [ordered |-> walk.ordered, visiting |-> walk.visiting \cup {step},
                failed |-> walk.failed]
  BY <1>1 DEF Walks
<1>5. inside \in Walks(plan)
  BY <1>2 DEF Walks
<1>3. Inside(plan, walk, step) = [walk |-> inside, steps |-> Needs(plan, step)]
  BY <1>1 DEF Inside, Call
<1>4. [walk |-> inside, steps |-> Needs(plan, step)] \in Calls(plan)
  BY <1>5, NeedsAreNamed, CallsAre
<1>6. PICK call : call = [walk |-> inside, steps |-> Needs(plan, step)]
  OBVIOUS
<1>7. call.walk = inside /\ call.steps = Needs(plan, step)
  BY <1>6
<1> QED
  BY <1>2, <1>3, <1>4, <1>6, <1>7

\* What a visit of one step comes to.
LEMMA VisitCases ==
  ASSUME NEW plan, NEW visit, NEW walk, NEW step
  PROVE  /\ walk.failed \/ step \in Range(walk.ordered) => Visit(plan, visit, walk, step) = walk
         /\ ~walk.failed /\ step \notin Range(walk.ordered)
            /\ (step \in walk.visiting \/ step \notin StepIds(plan)) =>
              Visit(plan, visit, walk, step) = [walk EXCEPT !.failed = TRUE]
         /\ ~walk.failed /\ step \notin Range(walk.ordered)
            /\ step \notin walk.visiting /\ step \in StepIds(plan) =>
              Visit(plan, visit, walk, step) =
                [visit[Inside(plan, walk, step)] EXCEPT !.ordered = Append(@, step)]
BY DEF Visit, Inside

\* One visit goes from walk to walk.
LEMMA VisitIsAWalk ==
  ASSUME NEW plan, IsPlan(plan), NEW visit \in Answering(plan),
         NEW walk \in Walks(plan), NEW step
  PROVE  /\ Visit(plan, visit, walk, step) \in Walks(plan)
         /\ walk.visiting \subseteq Visit(plan, visit, walk, step).visiting
<1>1. PICK after : after = Visit(plan, visit, walk, step)
  OBVIOUS
<1>2. CASE after = walk
  BY <1>1, <1>2
<1>3. CASE after = [walk EXCEPT !.failed = TRUE]
  <2>1. after \in Walks(plan) /\ after.visiting = walk.visiting
    BY <1>3 DEF Walks
  <2> QED
    BY <1>1, <2>1
<1>4. CASE /\ step \in StepIds(plan)
           /\ after = [visit[Inside(plan, walk, step)] EXCEPT !.ordered = Append(@, step)]
  <2>1. PICK before : before = visit[Inside(plan, walk, step)]
    OBVIOUS
  <2>2. PICK call : call = Inside(plan, walk, step)
    OBVIOUS
  <2>3. /\ call \in Calls(plan)
        /\ call.walk = [ordered |-> walk.ordered, visiting |-> walk.visiting \cup {step},
                        failed |-> walk.failed]
    BY <1>4, <2>2, InsideIsACall
  <2>6. call.walk.visiting = walk.visiting \cup {step}
    BY <2>3
  <2>7. before \in Walks(plan) /\ walk.visiting \subseteq before.visiting
    BY <2>1, <2>2, <2>3, <2>6 DEF Answering
  <2>4. after = [before EXCEPT !.ordered = Append(@, step)]
    BY <1>4, <2>1
  <2>8. after = [ordered |-> Append(before.ordered, step), visiting |-> before.visiting,
                 failed |-> before.failed]
    BY <2>4, <2>7 DEF Walks
  <2>9. Append(before.ordered, step) \in Seq(StepIds(plan))
    BY <1>4, <2>7 DEF Walks
  <2>5. after \in Walks(plan) /\ after.visiting = before.visiting
    BY <2>7, <2>8, <2>9 DEF Walks
  <2> QED
    BY <1>1, <2>7, <2>5
<1> QED
  BY <1>1, <1>2, <1>3, <1>4, VisitCases

\* What a visit depends on, of what answers it.
Deeper(plan, walk, step) ==
  /\ ~walk.failed /\ step \notin Range(walk.ordered)
  /\ step \notin walk.visiting /\ step \in StepIds(plan)

\* A visit looks at the visits one step deeper only.
LEMMA VisitDependsOn ==
  ASSUME NEW plan, NEW visit, NEW other, NEW walk, NEW step,
         Deeper(plan, walk, step) => visit[Inside(plan, walk, step)] = other[Inside(plan, walk, step)]
  PROVE  Visit(plan, visit, walk, step) = Visit(plan, other, walk, step)
<1>1. CASE Deeper(plan, walk, step)
  BY <1>1, VisitCases DEF Deeper
<1>2. CASE walk.failed \/ step \in Range(walk.ordered)
  BY <1>2, VisitCases
<1>3. CASE /\ ~walk.failed /\ step \notin Range(walk.ordered)
           /\ step \in walk.visiting \/ step \notin StepIds(plan)
  <2>1. Visit(plan, visit, walk, step) = [walk EXCEPT !.failed = TRUE]
    BY <1>3, VisitCases
  <2>2. Visit(plan, other, walk, step) = [walk EXCEPT !.failed = TRUE]
    BY <1>3, VisitCases
  <2> QED
    BY <2>1, <2>2
<1> QED
  BY <1>1, <1>2, <1>3 DEF Deeper

LEMMA CallParts ==
  \A walk, steps : Call(walk, steps).walk = walk /\ Call(walk, steps).steps = steps
BY DEF Call

LEMMA InsideBegins ==
  ASSUME NEW plan, IsPlan(plan), NEW walk \in Walks(plan), NEW step \in StepIds(plan)
  PROVE  /\ Inside(plan, walk, step) \in Calls(plan)
         /\ Inside(plan, walk, step).walk.visiting = walk.visiting \cup {step}
<1>1. PICK inside : inside = Inside(plan, walk, step)
  OBVIOUS
<1>2. /\ inside \in Calls(plan)
      /\ inside.walk = [ordered |-> walk.ordered, visiting |-> walk.visiting \cup {step},
                        failed |-> walk.failed]
  BY <1>1, InsideIsACall
<1>3. inside.walk.visiting = walk.visiting \cup {step}
  BY <1>2
<1> QED
  BY <1>1, <1>2, <1>3

LEMMA StepsToGo ==
  ASSUME NEW plan, NEW call \in Calls(plan), call.steps # <<>>
  PROVE  /\ call.walk \in Walks(plan)
         /\ Head(call.steps) \in Named(plan) /\ Tail(call.steps) \in Seq(Named(plan))
         /\ Len(call.steps) \in Nat \ {0} /\ Len(Tail(call.steps)) = Len(call.steps) - 1
<1>1. call.walk \in Walks(plan)
  BY CallsAre
<1>2. PICK steps \in Seq(Named(plan)) : steps = call.steps
  BY CallsAre
<1>3. /\ Head(steps) \in Named(plan) /\ Tail(steps) \in Seq(Named(plan))
      /\ Len(steps) \in Nat \ {0} /\ Len(Tail(steps)) = Len(steps) - 1
  BY <1>2
<1> QED
  BY <1>1, <1>2, <1>3

LEMMA OnwardIsACall ==
  ASSUME NEW plan, NEW call \in Calls(plan), call.steps # <<>>, NEW after \in Walks(plan)
  PROVE  Call(after, Tail(call.steps)) \in Calls(plan)
BY StepsToGo, CallsAre DEF Call

LEMMA StepIdsAreFinite ==
  ASSUME NEW plan, IsPlan(plan)
  PROVE  IsFiniteSet(StepIds(plan))
<1>1. DOMAIN plan = 1..Len(plan) /\ Len(plan) \in Nat
  BY DEF IsPlan
<1>2. IsFiniteSet(DOMAIN plan)
  BY <1>1, FS_Interval
<1>3. [i \in DOMAIN plan |-> plan[i].id] \in Surjection(DOMAIN plan, StepIds(plan))
  BY DEF Surjection, StepIds
<1> QED
  BY <1>2, <1>3, FS_Surjection

\* What is true of a call when it is true of the calls it makes is true of all.
LEMMA CallInduction ==
  ASSUME NEW plan, IsPlan(plan), NEW P \in SUBSET Calls(plan),
         \A call \in Calls(plan) : call.steps = <<>> => call \in P,
         \A call \in Calls(plan) :
           /\ call.steps # <<>>
           /\ Deeper(plan, call.walk, Head(call.steps)) =>
                Inside(plan, call.walk, Head(call.steps)) \in P
           /\ \A next \in Calls(plan) :
                call.walk.visiting \subseteq next.walk.visiting /\ next.steps = Tail(call.steps) =>
                  next \in P
           => call \in P
  PROVE  P = Calls(plan)
<1> DEFINE Left(call) == Cardinality(StepIds(plan) \ call.walk.visiting)
           Rest == Calls(plan) \ P
           Lefts == {Left(call) : call \in Rest}
<1>1. SUFFICES ASSUME Rest # {} PROVE FALSE
  OBVIOUS
<1>2. \A call \in Calls(plan) :
        /\ IsFiniteSet(StepIds(plan) \ call.walk.visiting) /\ Left(call) \in Nat
        /\ Len(call.steps) \in Nat
  <2> SUFFICES ASSUME NEW call \in Calls(plan)
               PROVE  /\ IsFiniteSet(StepIds(plan) \ call.walk.visiting) /\ Left(call) \in Nat
                      /\ Len(call.steps) \in Nat
    OBVIOUS
  <2>1. IsFiniteSet(StepIds(plan) \ call.walk.visiting)
    BY StepIdsAreFinite, FS_Difference
  <2>2. Left(call) \in Nat
    BY <2>1, FS_CardinalityType
  <2>3. call.steps \in Seq(Named(plan))
    BY CallsAre
  <2> QED
    BY <2>1, <2>2, <2>3
<1> HIDE DEF Left
<1>3. PICK left \in Lefts : \A n \in Lefts : left <= n
  <2>1. Lefts \in SUBSET Nat
    <3>1. \A c \in Rest : Left(c) \in Nat
      BY <1>2
    <3> QED
      BY <3>1
  <2>2. PICK c \in Rest : TRUE
    BY <1>1
  <2>3. Left(c) \in Lefts
    BY <2>2
  <2> HIDE DEF Lefts
  <2> QED
    BY <2>1, <2>3, NatHasLeast
<1> DEFINE Lens == {Len(call.steps) : call \in {c \in Rest : Left(c) = left}}
<1>4. PICK len \in Lens : \A n \in Lens : len <= n
  <2>1. Lens \in SUBSET Nat
    <3>1. \A c \in Rest : Len(c.steps) \in Nat
      BY <1>2
    <3> QED
      BY <3>1
  <2>2. PICK c \in Rest : Left(c) = left
    BY <1>3
  <2>3. Len(c.steps) \in Lens
    BY <2>2
  <2> HIDE DEF Lens
  <2> QED
    BY <2>1, <2>3, NatHasLeast
<1>5. PICK call \in Rest : Left(call) = left /\ Len(call.steps) = len
  BY <1>4
<1>9. left \in Nat /\ len \in Nat
  BY <1>2, <1>5
<1>10. \A c \in Rest : left <= Left(c) /\ (Left(c) = left => len <= Len(c.steps))
  BY <1>3, <1>4
<1> HIDE DEF Lefts, Lens
<1>6. call.steps # <<>>
  BY <1>5
<1>7. Deeper(plan, call.walk, Head(call.steps)) =>
        Inside(plan, call.walk, Head(call.steps)) \in P
  <2>1. SUFFICES ASSUME Deeper(plan, call.walk, Head(call.steps))
                 PROVE  Inside(plan, call.walk, Head(call.steps)) \in P
    OBVIOUS
  <2>2. PICK step : step = Head(call.steps)
    OBVIOUS
  <2>3. step \in StepIds(plan) /\ step \notin call.walk.visiting
    BY <2>1, <2>2 DEF Deeper
  <2>4. PICK walk \in Walks(plan) : walk = call.walk
    BY <1>5, <1>6, StepsToGo
  <2>5. PICK inside : inside = Inside(plan, walk, step)
    OBVIOUS
  <2>6. inside \in Calls(plan) /\ inside.walk.visiting = walk.visiting \cup {step}
    BY <2>3, <2>5, InsideBegins
  <2>7. inside.walk.visiting = call.walk.visiting \cup {step}
    BY <2>4, <2>6
  <2>8. PICK todo : todo = StepIds(plan) \ call.walk.visiting
    OBVIOUS
  <2>9. StepIds(plan) \ inside.walk.visiting = todo \ {step} /\ step \in todo
    BY <2>3, <2>7, <2>8
  <2>10. IsFiniteSet(todo) /\ Cardinality(todo) = left
    BY <1>2, <1>5, <2>8 DEF Left
  <2>11. Cardinality(todo \ {step}) = Cardinality(todo) - 1
    BY <2>9, <2>10, FS_RemoveElement
  <2>12. Left(inside) = left - 1 /\ Left(inside) \in Nat
    BY <1>2, <1>9, <2>6, <2>8, <2>9, <2>10, <2>11 DEF Left
  <2>13. ~(left <= Left(inside))
    BY <1>9, <2>12
  <2>14. inside \notin Rest
    BY <1>10, <2>13
  <2> QED
    BY <2>2, <2>4, <2>5, <2>6, <2>14
<1>8. ASSUME NEW next \in Calls(plan),
             call.walk.visiting \subseteq next.walk.visiting, next.steps = Tail(call.steps)
      PROVE  next \in P
  <2>1. PICK todo : todo = StepIds(plan) \ call.walk.visiting
    OBVIOUS
  <2>2. PICK rest : rest = StepIds(plan) \ next.walk.visiting
    OBVIOUS
  <2>3. rest \in SUBSET todo /\ IsFiniteSet(todo) /\ Cardinality(todo) = left
    BY <1>2, <1>5, <1>8, <2>1, <2>2 DEF Left
  <2>4. Cardinality(rest) <= left
    BY <2>3, FS_Subset
  <2>5. Left(next) <= left /\ Left(next) \in Nat
    BY <1>2, <1>8, <2>2, <2>4 DEF Left
  <2>6. CASE Left(next) = left
    <3>1. Len(next.steps) = len - 1
      BY <1>5, <1>6, <1>8, StepsToGo
    <3>2. ~(len <= Len(next.steps))
      BY <1>9, <3>1
    <3> QED
      BY <1>8, <1>10, <2>6, <3>2
  <2>7. CASE Left(next) # left
    <3>1. ~(left <= Left(next))
      BY <1>9, <2>5, <2>7
    <3> QED
      BY <1>8, <1>10, <3>1
  <2> QED
    BY <2>6, <2>7
<1> QED
  BY <1>5, <1>6, <1>7, <1>8

\* Each round of the recursion gives walks.
LEMMA RoundIsAWalk ==
  ASSUME NEW plan, IsPlan(plan), NEW visit \in Answering(plan), NEW call \in Calls(plan)
  PROVE  /\ RoundOf(plan, visit, call) \in Walks(plan)
         /\ call.walk.visiting \subseteq RoundOf(plan, visit, call).visiting
<1>1. CASE call.steps = <<>>
  BY <1>1, CallsAre DEF RoundOf
<1>2. CASE call.steps # <<>>
  <2>1. PICK after : after = Visit(plan, visit, call.walk, Head(call.steps))
    OBVIOUS
  <2>2. call.walk \in Walks(plan)
    BY CallsAre
  <2>3. after \in Walks(plan) /\ call.walk.visiting \subseteq after.visiting
    BY <2>1, <2>2, VisitIsAWalk
  <2>4. PICK next : next = Call(after, Tail(call.steps))
    OBVIOUS
  <2>5. next \in Calls(plan) /\ next.walk = after
    BY <1>2, <2>3, <2>4, OnwardIsACall, CallParts
  <2>6. visit[next] \in Walks(plan) /\ next.walk.visiting \subseteq visit[next].visiting
    BY <2>5 DEF Answering
  <2>7. RoundOf(plan, visit, call) = visit[next]
    BY <1>2, <2>1, <2>4 DEF RoundOf
  <2> QED
    BY <2>3, <2>5, <2>6, <2>7
<1> QED
  BY <1>1, <1>2

\* Rounds of answers: each asks the one before.
Rounds(plan) ==
  {f \in [Nat -> Answering(plan)] :
     \A n \in Nat : f[n + 1] = [call \in Calls(plan) |-> RoundOf(plan, f[n], call)]}

\* The rounds can be taken one after the other.
LEMMA ThereAreRounds ==
  ASSUME NEW plan, IsPlan(plan)
  PROVE  Rounds(plan) # {}
<1>1. PICK step : step = [visit \in Answering(plan) |->
                            [call \in Calls(plan) |-> RoundOf(plan, visit, call)]]
  OBVIOUS
<1>2. ASSUME NEW visit \in Answering(plan)
      PROVE  [call \in Calls(plan) |-> RoundOf(plan, visit, call)] \in Answering(plan)
  BY RoundIsAWalk DEF Answering
<1>3. step \in [Answering(plan) -> Answering(plan)]
  BY <1>1, <1>2
<1>4. PICK first : first = [call \in Calls(plan) |-> call.walk]
  OBVIOUS
<1>5. first \in Answering(plan)
  BY <1>4, CallsAre DEF Answering
<1>6. PICK steps : steps = [n \in Nat |-> step]
  OBVIOUS
<1>7. steps \in [Nat -> [Answering(plan) -> Answering(plan)]]
  BY <1>3, <1>6
<1>8. PICK f \in [Nat -> Answering(plan)] : Endless(f, steps)
  BY <1>5, <1>7, Repeated
<1>9. \A n \in Nat : f[n + 1] = [call \in Calls(plan) |-> RoundOf(plan, f[n], call)]
  BY <1>1, <1>6, <1>8 DEF Endless
<1> QED
  BY <1>8, <1>9 DEF Rounds

\* From some round on, the answer to a call is the same.
SettledBy(f, call, n) == \A m \in Nat : m >= n => f[m][call] = f[n][call]

\* An answer that has settled stays.
LEMMA SettledLater ==
  ASSUME NEW f, NEW call, NEW n \in Nat, SettledBy(f, call, n), NEW m \in Nat, m >= n
  PROVE  f[m][call] = f[n][call] /\ SettledBy(f, call, m)
BY DEF SettledBy

\* Every call's answer settles after finitely many rounds.
LEMMA RoundsSettle ==
  ASSUME NEW plan, IsPlan(plan), NEW f \in Rounds(plan), NEW call \in Calls(plan)
  PROVE  \E n \in Nat : SettledBy(f, call, n)
<1> DEFINE P == {c \in Calls(plan) : \E n \in Nat : SettledBy(f, c, n)}
<1>1. ASSUME NEW n \in Nat, NEW c \in Calls(plan)
      PROVE  f[n + 1][c] = RoundOf(plan, f[n], c) /\ f[n] \in Answering(plan)
  BY DEF Rounds
<1>2. ASSUME NEW c \in Calls(plan), c.steps = <<>>
      PROVE  c \in P
  <2>1. ASSUME NEW m \in Nat, m >= 1 PROVE f[m][c] = c.walk
    <3>1. m - 1 \in Nat
      BY <2>1
    <3>2. f[(m - 1) + 1][c] = RoundOf(plan, f[m - 1], c)
      BY <1>1, <3>1
    <3>3. RoundOf(plan, f[m - 1], c) = c.walk
      BY <1>2 DEF RoundOf
    <3> QED
      BY <3>2, <3>3
  <2>2. SettledBy(f, c, 1)
    BY <2>1 DEF SettledBy
  <2> QED
    BY <2>2
<1>3. ASSUME NEW c \in Calls(plan), c.steps # <<>>,
             Deeper(plan, c.walk, Head(c.steps)) => Inside(plan, c.walk, Head(c.steps)) \in P,
             \A next \in Calls(plan) :
               c.walk.visiting \subseteq next.walk.visiting /\ next.steps = Tail(c.steps) =>
                 next \in P
      PROVE  c \in P
  <2>1. PICK walk \in Walks(plan) : walk = c.walk
    BY CallsAre
  <2>2. PICK step : step = Head(c.steps)
    OBVIOUS
  <2>3. \E n \in Nat : Deeper(plan, walk, step) => SettledBy(f, Inside(plan, walk, step), n)
    BY <1>3, <2>1, <2>2
  <2>4. PICK n \in Nat : Deeper(plan, walk, step) => SettledBy(f, Inside(plan, walk, step), n)
    BY <2>3
  <2>5. PICK after : after = Visit(plan, f[n], walk, step)
    OBVIOUS
  <2>6. after \in Walks(plan) /\ walk.visiting \subseteq after.visiting
    BY <1>1, <2>5, VisitIsAWalk
  <2>7. ASSUME NEW m \in Nat, m >= n PROVE Visit(plan, f[m], walk, step) = after
    <3>1. Deeper(plan, walk, step) =>
            f[m][Inside(plan, walk, step)] = f[n][Inside(plan, walk, step)]
      BY <2>4, <2>7 DEF SettledBy
    <3> QED
      BY <2>5, <3>1, VisitDependsOn
  <2>8. PICK next : next = Call(after, Tail(c.steps))
    OBVIOUS
  <2>9. next \in Calls(plan) /\ next.walk = after /\ next.steps = Tail(c.steps)
    BY <1>3, <2>6, <2>8, OnwardIsACall, CallParts
  <2>10. next \in P
    BY <1>3, <2>1, <2>6, <2>9
  <2>11. PICK k \in Nat : SettledBy(f, next, k)
    BY <2>10
  <2>12. ASSUME NEW m \in Nat, m >= n + k + 1 PROVE f[m][c] = f[k][next]
    <3>1. m - 1 \in Nat /\ m - 1 >= n /\ m - 1 >= k
      BY <2>12
    <3>2. f[(m - 1) + 1][c] = RoundOf(plan, f[m - 1], c)
      BY <1>1, <3>1
    <3>3. Visit(plan, f[m - 1], walk, step) = after
      BY <2>7, <3>1
    <3>4. RoundOf(plan, f[m - 1], c) = f[m - 1][next]
      BY <1>3, <2>1, <2>2, <2>8, <3>3 DEF RoundOf
    <3>5. f[m - 1][next] = f[k][next]
      BY <2>11, <3>1 DEF SettledBy
    <3> QED
      BY <3>2, <3>4, <3>5
  <2>13. SettledBy(f, c, n + k + 1)
    BY <2>12 DEF SettledBy
  <2> QED
    BY <2>13
<1>4. P \in SUBSET Calls(plan)
  OBVIOUS
<1> HIDE DEF P
<1>5. P = Calls(plan)
  BY <1>2, <1>3, <1>4, CallInduction
<1> QED
  BY <1>5 DEF P

\* Visit answers every call, by what it answers itself.
LEMMA ThereIsAnAnswer ==
  ASSUME NEW plan, IsPlan(plan)
  PROVE  \E visit \in Answering(plan) :
           \A call \in Calls(plan) : visit[call] = RoundOf(plan, visit, call)
<1>1. PICK f : f \in Rounds(plan)
  BY ThereAreRounds
<1>2. PICK at : at = [call \in Calls(plan) |-> CHOOSE n \in Nat : SettledBy(f, call, n)]
  OBVIOUS
<1>3. ASSUME NEW call \in Calls(plan)
      PROVE  at[call] \in Nat /\ SettledBy(f, call, at[call])
  <2>1. \E n \in Nat : SettledBy(f, call, n)
    BY <1>1, RoundsSettle
  <2> QED
    BY <1>2, <2>1
<1>4. PICK visit : visit = [call \in Calls(plan) |-> f[at[call]][call]]
  OBVIOUS
<1>5. visit \in Answering(plan)
  <2>1. ASSUME NEW call \in Calls(plan)
        PROVE  visit[call] \in Walks(plan) /\ call.walk.visiting \subseteq visit[call].visiting
    <3>1. f[at[call]] \in Answering(plan)
      BY <1>1, <1>3 DEF Rounds
    <3> QED
      BY <1>4, <3>1 DEF Answering
  <2> QED
    BY <1>4, <2>1 DEF Answering
<1>6. ASSUME NEW call \in Calls(plan), NEW m \in Nat, m >= at[call]
      PROVE  f[m][call] = visit[call]
  BY <1>3, <1>4, <1>6 DEF SettledBy
<1>7. ASSUME NEW m \in Nat, NEW call \in Calls(plan)
      PROVE  f[m + 1][call] = RoundOf(plan, f[m], call)
  BY <1>1 DEF Rounds
<1>8. ASSUME NEW call \in Calls(plan)
      PROVE  visit[call] = RoundOf(plan, visit, call)
  <2>1. CASE call.steps = <<>>
    <3>1. f[at[call] + 1][call] = call.walk
      BY <1>3, <1>7, <2>1 DEF RoundOf
    <3>2. at[call] + 1 \in Nat /\ at[call] + 1 >= at[call]
      BY <1>3
    <3> QED
      BY <1>6, <2>1, <3>1, <3>2 DEF RoundOf
  <2>2. CASE call.steps # <<>>
    <3>1. PICK walk \in Walks(plan) : walk = call.walk
      BY CallsAre
    <3>2. PICK step : step = Head(call.steps)
      OBVIOUS
    <3>3. PICK n \in Nat : Deeper(plan, walk, step) => n >= at[Inside(plan, walk, step)]
      <4>1. CASE Deeper(plan, walk, step)
        <5>1. Inside(plan, walk, step) \in Calls(plan)
          BY <4>1, InsideBegins DEF Deeper
        <5>2. PICK inside : inside = Inside(plan, walk, step)
          OBVIOUS
        <5>3. at[inside] \in Nat
          BY <1>3, <5>1, <5>2
        <5>4. at[inside] >= at[inside]
          BY <5>3
        <5> QED
          BY <5>2, <5>3, <5>4
      <4>2. CASE ~Deeper(plan, walk, step)
        BY <4>2
      <4> QED
        BY <4>1, <4>2
    <3>4. PICK after : after = Visit(plan, visit, walk, step)
      OBVIOUS
    <3>5. after \in Walks(plan)
      BY <1>5, <3>4, VisitIsAWalk
    <3>6. PICK next : next = Call(after, Tail(call.steps))
      OBVIOUS
    <3>7. next \in Calls(plan)
      BY <2>2, <3>5, <3>6, OnwardIsACall
    <3>8. PICK m : m = n + at[next] + at[call]
      OBVIOUS
    <3>9. m \in Nat /\ m >= n /\ m >= at[next] /\ m + 1 >= at[call] /\ m + 1 \in Nat
      BY <1>3, <3>7, <3>8
    <3>10. Deeper(plan, walk, step) =>
             f[m][Inside(plan, walk, step)] = visit[Inside(plan, walk, step)]
      <4>1. SUFFICES ASSUME Deeper(plan, walk, step)
                     PROVE  f[m][Inside(plan, walk, step)] = visit[Inside(plan, walk, step)]
        OBVIOUS
      <4>2. PICK inside : inside = Inside(plan, walk, step)
        OBVIOUS
      <4>3. inside \in Calls(plan)
        BY <4>1, <4>2, InsideBegins DEF Deeper
      <4>4. m >= at[inside]
        BY <1>3, <3>3, <3>9, <4>1, <4>2, <4>3
      <4> QED
        BY <1>6, <3>9, <4>2, <4>3, <4>4
    <3>11. Visit(plan, f[m], walk, step) = after
      BY <3>4, <3>10, VisitDependsOn
    <3>12. f[m + 1][call] = f[m][next]
      BY <1>7, <2>2, <3>1, <3>2, <3>6, <3>9, <3>11 DEF RoundOf
    <3>13. f[m][next] = visit[next] /\ f[m + 1][call] = visit[call]
      BY <1>6, <3>7, <3>9
    <3>14. RoundOf(plan, visit, call) = visit[next]
      BY <2>2, <3>1, <3>2, <3>4, <3>6 DEF RoundOf
    <3> QED
      BY <3>12, <3>13, <3>14
  <2> QED
    BY <2>1, <2>2
<1> QED
  BY <1>5, <1>8

\* visit answers every call, by what it answers itself.
LEMMA VisitEachAnswers ==
  ASSUME NEW plan, IsPlan(plan)
  PROVE  /\ VisitEach(plan) \in Answering(plan)
         /\ \A call \in Calls(plan) :
              VisitEach(plan)[call] = RoundOf(plan, VisitEach(plan), call)
<1>1. PICK visit \in Answering(plan) :
        \A call \in Calls(plan) : visit[call] = RoundOf(plan, visit, call)
  BY ThereIsAnAnswer
<1>2. visit = [call \in Calls(plan) |-> RoundOf(plan, visit, call)]
  BY <1>1 DEF Answering
<1>3. \E g : g = [call \in Calls(plan) |-> RoundOf(plan, g, call)]
  BY <1>2
<1>4. VisitEach(plan) = CHOOSE g : g = [call \in Calls(plan) |-> RoundOf(plan, g, call)]
  BY DEF VisitEach, RoundOf
<1>5. PICK g : g = VisitEach(plan)
  OBVIOUS
<1>6. g = [call \in Calls(plan) |-> RoundOf(plan, g, call)]
  BY <1>3, <1>4, <1>5
<1> DEFINE P == {c \in Calls(plan) : g[c] = visit[c]}
<1>7. ASSUME NEW c \in Calls(plan), c.steps = <<>> PROVE c \in P
  BY <1>1, <1>6, <1>7 DEF RoundOf
<1>8. ASSUME NEW c \in Calls(plan), c.steps # <<>>,
             Deeper(plan, c.walk, Head(c.steps)) => Inside(plan, c.walk, Head(c.steps)) \in P,
             \A next \in Calls(plan) :
               c.walk.visiting \subseteq next.walk.visiting /\ next.steps = Tail(c.steps) =>
                 next \in P
      PROVE  c \in P
  <2>1. PICK walk \in Walks(plan) : walk = c.walk
    BY CallsAre
  <2>2. PICK step : step = Head(c.steps)
    OBVIOUS
  <2>3. PICK after : after = Visit(plan, visit, walk, step)
    OBVIOUS
  <2>4. after \in Walks(plan) /\ walk.visiting \subseteq after.visiting
    BY <1>1, <2>3, VisitIsAWalk
  <2>5. Visit(plan, g, walk, step) = after
    <3>1. Deeper(plan, walk, step) =>
            g[Inside(plan, walk, step)] = visit[Inside(plan, walk, step)]
      BY <1>8, <2>1, <2>2
    <3> QED
      BY <2>3, <3>1, VisitDependsOn
  <2>6. PICK next : next = Call(after, Tail(c.steps))
    OBVIOUS
  <2>7. next \in Calls(plan) /\ next.walk = after /\ next.steps = Tail(c.steps)
    BY <1>8, <2>4, <2>6, OnwardIsACall, CallParts
  <2>8. g[next] = visit[next]
    BY <1>8, <2>1, <2>4, <2>7
  <2>9. g[c] = g[next] /\ visit[c] = visit[next]
    BY <1>1, <1>6, <1>8, <2>1, <2>2, <2>3, <2>5, <2>6 DEF RoundOf
  <2> QED
    BY <2>8, <2>9
<1>9. P \in SUBSET Calls(plan)
  OBVIOUS
<1> HIDE DEF P
<1>10. P = Calls(plan)
  BY <1>7, <1>8, <1>9, CallInduction
<1>11. g = visit
  <2>1. \A c \in Calls(plan) : g[c] = visit[c]
    BY <1>10 DEF P
  <2> QED
    BY <1>1, <1>6, <2>1 DEF Answering
<1> QED
  BY <1>1, <1>5, <1>11

(* What visit is for.  A walk is fine when every step in its order comes   *)
(* after what it waits for, and a set of steps is reachable when visiting  *)
(* any of them, with none of the set being visited already, succeeds and   *)
(* leaves the same steps being visited.                                    *)

Open(walk) == walk.visiting \ Range(walk.ordered)

InOrder(plan, order) ==
  /\ \A k, l \in DOMAIN order : order[k] = order[l] => k = l
  /\ \A k \in DOMAIN order :
       Range(Needs(plan, order[k])) \subseteq {order[l] : l \in 1..(k - 1)}

Fine(plan, walk) ==
  /\ walk \in Walks(plan) /\ ~walk.failed
  /\ Range(walk.ordered) \subseteq walk.visiting
  /\ InOrder(plan, walk.ordered)

Succeeds(plan, walk, after) ==
  /\ Fine(plan, after) /\ Open(after) = Open(walk)
  /\ Range(walk.ordered) \subseteq Range(after.ordered)

Reachable(plan, steps) ==
  /\ steps \subseteq StepIds(plan)
  /\ \A step \in steps : \A walk \in Walks(plan) :
       Fine(plan, walk) /\ Open(walk) \cap steps = {} =>
         /\ Succeeds(plan, walk, Visit(plan, VisitEach(plan), walk, step))
         /\ step \in Range(Visit(plan, VisitEach(plan), walk, step).ordered)

\* A plan's steps, each under its id.
LEMMA RangeOfSteps ==
  ASSUME NEW S, NEW list \in Seq(S), list # <<>>
  PROVE  Range(list) = {Head(list)} \cup Range(Tail(list))
<1>1. /\ DOMAIN list = 1..Len(list) /\ Len(list) \in Nat \ {0} /\ Head(list) = list[1]
      /\ DOMAIN Tail(list) = 1..(Len(list) - 1)
      /\ \A i \in 1..(Len(list) - 1) : Tail(list)[i] = list[i + 1]
  OBVIOUS
<1>2. ASSUME NEW i \in DOMAIN list PROVE list[i] \in {Head(list)} \cup Range(Tail(list))
  <2>1. CASE i = 1
    BY <1>1, <2>1
  <2>2. CASE i # 1
    <3>1. i - 1 \in 1..(Len(list) - 1) /\ (i - 1) + 1 = i
      BY <1>1, <2>2
    <3>2. Tail(list)[i - 1] = list[i] /\ i - 1 \in DOMAIN Tail(list)
      BY <1>1, <3>1
    <3> QED
      BY <3>2 DEF Range
  <2> QED
    BY <2>1, <2>2
<1>3. ASSUME NEW i \in DOMAIN Tail(list) PROVE Tail(list)[i] \in Range(list)
  <2>1. i + 1 \in DOMAIN list /\ Tail(list)[i] = list[i + 1]
    BY <1>1
  <2> QED
    BY <2>1 DEF Range
<1>4. Head(list) \in Range(list)
  BY <1>1 DEF Range
<1> QED
  BY <1>2, <1>3, <1>4 DEF Range

\* Steps of a reachable set, visited one after the other.
LEMMA VisitEachSucceeds ==
  ASSUME NEW plan, IsPlan(plan), NEW steps \in SUBSET StepIds(plan), Reachable(plan, steps),
         NEW call \in Calls(plan), Fine(plan, call.walk), Open(call.walk) \cap steps = {},
         Range(call.steps) \subseteq steps
  PROVE  /\ Succeeds(plan, call.walk, VisitEach(plan)[call])
         /\ Range(call.steps) \subseteq Range(VisitEach(plan)[call].ordered)
<1> DEFINE Due == {c \in Calls(plan) : /\ Fine(plan, c.walk) /\ Open(c.walk) \cap steps = {}
                                       /\ Range(c.steps) \subseteq steps}
           Right(c) == /\ Succeeds(plan, c.walk, VisitEach(plan)[c])
                       /\ Range(c.steps) \subseteq Range(VisitEach(plan)[c].ordered)
           Lens == {Len(c.steps) : c \in {d \in Due : ~Right(d)}}
<1>1. SUFFICES ASSUME ~Right(call) PROVE FALSE
  OBVIOUS
<1>2. call \in Due
  OBVIOUS
<1>3. ASSUME NEW c \in Due
      PROVE  c \in Calls(plan) /\ c.steps \in Seq(Named(plan)) /\ Len(c.steps) \in Nat
  <2>1. c \in Calls(plan)
    OBVIOUS
  <2>2. c.steps \in Seq(Named(plan))
    BY <2>1, CallsAre
  <2> QED
    BY <2>1, <2>2
<1>4. Len(call.steps) \in Lens
  BY <1>1, <1>2
<1>5. Lens \in SUBSET Nat
  BY <1>3
<1>6. PICK len \in Lens : \A n \in Lens : len <= n
  <2> HIDE DEF Lens
  <2> QED
    BY <1>4, <1>5, NatHasLeast
<1> HIDE DEF Right
<1>7. PICK c \in Due : ~Right(c) /\ Len(c.steps) = len
  BY <1>6
<1>8. \A d \in Due : ~Right(d) => len <= Len(d.steps)
  BY <1>6
<1>9. /\ c \in Calls(plan) /\ Fine(plan, c.walk) /\ Open(c.walk) \cap steps = {}
      /\ Range(c.steps) \subseteq steps /\ c.walk \in Walks(plan)
  BY <1>7, CallsAre
<1> HIDE DEF Lens
<1>10. VisitEach(plan)[c] = RoundOf(plan, VisitEach(plan), c)
  BY <1>9, VisitEachAnswers
<1>11. CASE c.steps = <<>>
  <2>1. VisitEach(plan)[c] = c.walk
    BY <1>10, <1>11 DEF RoundOf
  <2>2. Range(c.steps) = {}
    BY <1>11 DEF Range
  <2> QED
    BY <1>7, <1>9, <2>1, <2>2 DEF Right, Succeeds
<1>12. CASE c.steps # <<>>
  <2>1. PICK walk \in Walks(plan) : walk = c.walk
    BY <1>9
  <2>2. PICK step : step = Head(c.steps)
    OBVIOUS
  <2>3. PICK after : after = Visit(plan, VisitEach(plan), walk, step)
    OBVIOUS
  <2>4. Range(c.steps) = {step} \cup Range(Tail(c.steps))
    <3>1. PICK list \in Seq(Named(plan)) : list = c.steps
      BY <1>3, <1>7
    <3> QED
      BY <1>12, <2>2, <3>1, RangeOfSteps
  <2>5. step \in steps
    BY <1>9, <2>4
  <2>6. /\ Succeeds(plan, walk, after) /\ step \in Range(after.ordered)
    BY <1>9, <2>1, <2>3, <2>5 DEF Reachable
  <2>7. after \in Walks(plan) /\ Fine(plan, after) /\ Open(after) = Open(walk)
    BY <2>6 DEF Succeeds, Fine
  <2>8. PICK next : next = Call(after, Tail(c.steps))
    OBVIOUS
  <2>9. next \in Calls(plan) /\ next.walk = after /\ next.steps = Tail(c.steps)
    BY <1>9, <1>12, <2>7, <2>8, OnwardIsACall, CallParts
  <2>10. next \in Due
    BY <1>9, <2>1, <2>4, <2>7, <2>9
  <2>11. Len(next.steps) = len - 1 /\ len \in Nat
    BY <1>3, <1>7, <1>9, <1>12, <2>9, StepsToGo
  <2>12. Right(next)
    BY <1>8, <2>10, <2>11
  <2>13. VisitEach(plan)[c] = VisitEach(plan)[next]
    BY <1>10, <1>12, <2>1, <2>2, <2>3, <2>8 DEF RoundOf
  <2>14. /\ Succeeds(plan, after, VisitEach(plan)[next])
         /\ Range(next.steps) \subseteq Range(VisitEach(plan)[next].ordered)
    BY <2>9, <2>12 DEF Right
  <2>15. Succeeds(plan, walk, VisitEach(plan)[next])
    BY <2>6, <2>14 DEF Succeeds
  <2>16. Range(c.steps) \subseteq Range(VisitEach(plan)[next].ordered)
    BY <2>4, <2>6, <2>9, <2>14 DEF Succeeds
  <2> QED
    BY <1>7, <2>1, <2>13, <2>15, <2>16 DEF Right
<1> QED
  BY <1>11, <1>12

\* What can be reached can be reached together.
LEMMA ReachableTogether ==
  ASSUME NEW plan
  PROVE  Reachable(plan, UNION {steps \in SUBSET StepIds(plan) : Reachable(plan, steps)})
<1>1. PICK all : all = UNION {steps \in SUBSET StepIds(plan) : Reachable(plan, steps)}
  OBVIOUS
<1>2. ASSUME NEW step \in all, NEW walk \in Walks(plan),
             Fine(plan, walk), Open(walk) \cap all = {}
      PROVE  /\ Succeeds(plan, walk, Visit(plan, VisitEach(plan), walk, step))
             /\ step \in Range(Visit(plan, VisitEach(plan), walk, step).ordered)
  <2>1. PICK steps \in SUBSET StepIds(plan) : Reachable(plan, steps) /\ step \in steps
    BY <1>1
  <2>2. Open(walk) \cap steps = {}
    BY <1>1, <1>2, <2>1
  <2> QED
    BY <1>2, <2>1, <2>2 DEF Reachable
<1>3. all \subseteq StepIds(plan)
  BY <1>1
<1> QED
  BY <1>1, <1>2, <1>3 DEF Reachable

\* A step added to an order that has what it waits for.
LEMMA InOrderAppended ==
  ASSUME NEW plan, NEW order \in Seq(StepIds(plan)), InOrder(plan, order),
         NEW step \in StepIds(plan) \ Range(order), Range(Needs(plan, step)) \subseteq Range(order)
  PROVE  /\ InOrder(plan, Append(order, step))
         /\ Range(Append(order, step)) = Range(order) \cup {step}
<1>1. PICK n \in Nat : n = Len(order) + 1
  OBVIOUS
<1>2. PICK longer : longer = Append(order, step)
  OBVIOUS
<1>3. /\ DOMAIN longer = 1..n /\ DOMAIN order = 1..(n - 1) /\ longer[n] = step
      /\ \A k \in 1..(n - 1) : longer[k] = order[k]
  BY <1>1, <1>2
<1>4. \A k \in 1..(n - 1) : order[k] # step
  BY <1>3 DEF Range
<1>5. ASSUME NEW k \in 1..n, NEW l \in 1..n, longer[k] = longer[l] PROVE k = l
  <2>1. CASE k = n \/ l = n
    BY <1>3, <1>4, <1>5, <2>1
  <2>2. CASE k # n /\ l # n
    <3>1. k \in 1..(n - 1) /\ l \in 1..(n - 1)
      BY <2>2
    <3> QED
      BY <1>3, <1>5, <3>1 DEF InOrder
  <2> QED
    BY <2>1, <2>2
<1>6. ASSUME NEW k \in 1..n
      PROVE  Range(Needs(plan, longer[k])) \subseteq {longer[l] : l \in 1..(k - 1)}
  <2>1. \A l \in 1..(k - 1) : l \in 1..(n - 1) /\ longer[l] = order[l]
    BY <1>3
  <2>2. {longer[l] : l \in 1..(k - 1)} = {order[l] : l \in 1..(k - 1)}
    BY <2>1
  <2>3. CASE k = n
    <3>1. Range(order) = {order[l] : l \in 1..(n - 1)}
      BY <1>3 DEF Range
    <3> QED
      BY <1>3, <2>2, <2>3, <3>1
  <2>4. CASE k # n
    <3>1. k \in 1..(n - 1) /\ longer[k] = order[k]
      BY <1>3, <2>4
    <3>2. Range(Needs(plan, order[k])) \subseteq {order[l] : l \in 1..(k - 1)}
      BY <1>3, <3>1 DEF InOrder
    <3> QED
      BY <2>2, <3>1, <3>2
  <2> QED
    BY <2>3, <2>4
<1>7. InOrder(plan, longer)
  BY <1>3, <1>5, <1>6 DEF InOrder
<1>8. Range(longer) = Range(order) \cup {step}
  <2>1. \A k \in 1..n : k = n \/ k \in 1..(n - 1)
    OBVIOUS
  <2>2. 1..(n - 1) \subseteq 1..n /\ n \in 1..n
    BY <1>1
  <2>3. Range(longer) = {longer[k] : k \in 1..n} /\ Range(order) = {order[k] : k \in 1..(n - 1)}
    BY <1>3 DEF Range
  <2> QED
    BY <1>3, <2>1, <2>2, <2>3
<1> QED
  BY <1>2, <1>7, <1>8

\* A step is reached once what it waits for is.
LEMMA ReachableNext ==
  ASSUME NEW plan, IsPlan(plan), NEW steps \in SUBSET StepIds(plan), Reachable(plan, steps),
         NEW step \in StepIds(plan) \ steps, Range(Needs(plan, step)) \subseteq steps
  PROVE  Reachable(plan, steps \cup {step})
<1>1. ASSUME NEW walk \in Walks(plan), Fine(plan, walk), Open(walk) \cap (steps \cup {step}) = {}
      PROVE  /\ Succeeds(plan, walk, Visit(plan, VisitEach(plan), walk, step))
             /\ step \in Range(Visit(plan, VisitEach(plan), walk, step).ordered)
  <2>1. PICK after : after = Visit(plan, VisitEach(plan), walk, step)
    OBVIOUS
  <2>2. ~walk.failed /\ Open(walk) \cap steps = {} /\ step \notin Open(walk)
    BY <1>1 DEF Fine
  <2>3. CASE step \in Range(walk.ordered)
    <3>1. after = walk
      BY <2>1, <2>3, VisitCases
    <3> QED
      BY <1>1, <2>1, <2>3, <3>1 DEF Succeeds
  <2>4. CASE step \notin Range(walk.ordered)
    <3>1. step \notin walk.visiting
      BY <2>2, <2>4 DEF Open
    <3>2. PICK call : call = Inside(plan, walk, step)
      OBVIOUS
    <3>3. PICK inside : inside = [ordered |-> walk.ordered, visiting |-> walk.visiting \cup {step},
                                  failed |-> walk.failed]
      OBVIOUS
    <3>4. call \in Calls(plan) /\ call.walk = inside /\ call.steps = Needs(plan, step)
      BY <3>2, <3>3, InsideIsACall
    <3>5. inside.ordered = walk.ordered /\ inside.visiting = walk.visiting \cup {step}
          /\ inside.failed = walk.failed
      BY <3>3
    <3>6. inside \in Walks(plan)
      BY <3>4, CallsAre
    <3>7. Fine(plan, inside)
      BY <1>1, <3>5, <3>6 DEF Fine
    <3>8. Open(inside) = Open(walk) \cup {step}
      BY <2>4, <3>5 DEF Open
    <3>9. Open(inside) \cap steps = {}
      BY <2>2, <3>8
    <3>10. PICK before : before = VisitEach(plan)[call]
      OBVIOUS
    <3>11. /\ Succeeds(plan, inside, before)
           /\ Range(Needs(plan, step)) \subseteq Range(before.ordered)
      <4>1. /\ Succeeds(plan, call.walk, VisitEach(plan)[call])
            /\ Range(call.steps) \subseteq Range(VisitEach(plan)[call].ordered)
        BY <3>4, <3>7, <3>9, VisitEachSucceeds
      <4> QED
        BY <3>4, <3>10, <4>1
    <3>12. /\ Fine(plan, before) /\ Open(before) = Open(inside)
           /\ Range(walk.ordered) \subseteq Range(before.ordered)
      BY <3>5, <3>11 DEF Succeeds
    <3>13. /\ before \in Walks(plan) /\ ~before.failed /\ InOrder(plan, before.ordered)
           /\ Range(before.ordered) \subseteq before.visiting
           /\ before.ordered \in Seq(StepIds(plan))
      BY <3>12 DEF Fine, Walks
    <3>14. step \in before.visiting /\ step \notin Range(before.ordered)
      BY <3>8, <3>12 DEF Open
    <3>15. /\ InOrder(plan, Append(before.ordered, step))
           /\ Range(Append(before.ordered, step)) = Range(before.ordered) \cup {step}
      BY <3>11, <3>13, <3>14, InOrderAppended
    <3>16. after = [before EXCEPT !.ordered = Append(@, step)]
      BY <2>1, <2>2, <2>4, <3>1, <3>2, <3>10, VisitCases
    <3>17. after = [ordered |-> Append(before.ordered, step), visiting |-> before.visiting,
                    failed |-> before.failed]
      BY <3>13, <3>16 DEF Walks
    <3>18. Append(before.ordered, step) \in Seq(StepIds(plan))
      BY <3>13
    <3>19. after.ordered = Append(before.ordered, step) /\ after.visiting = before.visiting
           /\ after.failed = before.failed
      BY <3>17
    <3>20. after \in Walks(plan)
      BY <3>13, <3>17, <3>18 DEF Walks
    <3>21. Fine(plan, after)
      BY <3>13, <3>14, <3>15, <3>19, <3>20 DEF Fine
    <3>22. Open(after) = Open(walk)
      BY <2>2, <3>8, <3>12, <3>15, <3>19 DEF Open
    <3>23. /\ Range(walk.ordered) \subseteq Range(after.ordered) /\ step \in Range(after.ordered)
      BY <3>12, <3>15, <3>19
    <3> QED
      BY <2>1, <3>21, <3>22, <3>23 DEF Succeeds
  <2> QED
    BY <2>3, <2>4
<1>2. ASSUME NEW other \in steps, NEW walk \in Walks(plan), Fine(plan, walk),
             Open(walk) \cap (steps \cup {step}) = {}
      PROVE  /\ Succeeds(plan, walk, Visit(plan, VisitEach(plan), walk, other))
             /\ other \in Range(Visit(plan, VisitEach(plan), walk, other).ordered)
  <2>1. Open(walk) \cap steps = {}
    BY <1>2
  <2> QED
    BY <1>2, <2>1 DEF Reachable
<1>3. PICK more : more = steps \cup {step}
  OBVIOUS
<1>4. ASSUME NEW other \in more, NEW walk \in Walks(plan), Fine(plan, walk),
             Open(walk) \cap more = {}
      PROVE  /\ Succeeds(plan, walk, Visit(plan, VisitEach(plan), walk, other))
             /\ other \in Range(Visit(plan, VisitEach(plan), walk, other).ordered)
  BY <1>1, <1>2, <1>3, <1>4
<1>5. more \subseteq StepIds(plan)
  BY <1>3
<1>6. Reachable(plan, more)
  BY <1>4, <1>5 DEF Reachable
<1> QED
  BY <1>3, <1>6

\* Nothing is left over by _check_dependencies: nothing is out of reach of visit.
Distinct(plan) == \A i, j \in DOMAIN plan : plan[i].id = plan[j].id => i = j

LEMMA StepOfItsId ==
  ASSUME NEW plan, Distinct(plan), NEW i \in DOMAIN plan
  PROVE  plan[i].id \in StepIds(plan) /\ StepOf(plan, plan[i].id) = plan[i]
<1>1. plan[i].id \in StepIds(plan)
  BY DEF StepIds
<1>2. PICK j \in DOMAIN plan : StepOf(plan, plan[i].id) = plan[j] /\ plan[j].id = plan[i].id
  BY <1>1, StepOfFacts
<1> QED
  BY <1>1, <1>2 DEF Distinct

LEMMA AllReachable ==
  ASSUME NEW plan, IsPlan(plan), Distinct(plan), CheckDependencies(plan)
  PROVE  Reachable(plan, StepIds(plan))
<1>1. PICK all : all = UNION {steps \in SUBSET StepIds(plan) : Reachable(plan, steps)}
  OBVIOUS
<1>2. Reachable(plan, all) /\ all \in SUBSET StepIds(plan)
  BY <1>1, ReachableTogether
<1>3. ASSUME NEW i \in DOMAIN plan, Range(plan[i].needs) \subseteq all PROVE plan[i].id \in all
  <2>1. PICK step \in StepIds(plan) : step = plan[i].id /\ StepOf(plan, step) = plan[i]
    BY StepOfItsId
  <2>2. Range(Needs(plan, step)) \subseteq all
    BY <1>3, <2>1 DEF Needs
  <2>3. SUFFICES ASSUME step \notin all PROVE FALSE
    BY <2>1
  <2>4. Reachable(plan, all \cup {step})
    BY <1>2, <2>2, <2>3, ReachableNext
  <2>5. all \cup {step} \in SUBSET StepIds(plan)
    BY <1>2
  <2> QED
    BY <1>1, <2>3, <2>4, <2>5
<1>4. TakenOut(plan, all)
  BY <1>3 DEF TakenOut
<1>5. Done(plan) = StepIds(plan)
  BY DEF CheckDependencies
<1>6. StepIds(plan) \subseteq all
  BY <1>2, <1>4, <1>5 DEF Done
<1>7. all = StepIds(plan)
  BY <1>2, <1>6
<1> QED
  BY <1>2, <1>7

\* A plan that _check_dependencies passes is put in order: each step once, and
\* after all it waits for.
LEMMA PlanIsOrdered ==
  ASSUME NEW plan, IsPlan(plan), Distinct(plan), CheckDependencies(plan)
  PROVE  /\ ~TopologicallySorted(plan).failed
         /\ TopologicallySorted(plan).ordered \in Seq(StepIds(plan))
         /\ Range(TopologicallySorted(plan).ordered) = StepIds(plan)
         /\ InOrder(plan, TopologicallySorted(plan).ordered)
<1>1. PICK empty : empty = [ordered |-> <<>>, visiting |-> {}, failed |-> FALSE]
  OBVIOUS
<1>2. /\ empty.ordered = <<>> /\ empty.visiting = {} /\ empty.failed = FALSE
  BY <1>1
<1>3. empty \in Walks(plan)
  BY <1>1 DEF Walks
<1>4. Range(<<>>) = {}
  BY DEF Range
<1>5. Fine(plan, empty) /\ Open(empty) = {}
  BY <1>2, <1>3, <1>4 DEF Fine, InOrder, Open
<1>6. PICK ids : ids = [i \in DOMAIN plan |-> plan[i].id]
  OBVIOUS
<1>7. DOMAIN plan = 1..Len(plan) /\ Len(plan) \in Nat
  BY DEF IsPlan
<1>8. ids \in Seq(StepIds(plan)) /\ Range(ids) = StepIds(plan)
  <2>1. \A i \in DOMAIN plan : plan[i].id \in StepIds(plan)
    BY DEF StepIds
  <2>2. ids \in [1..Len(plan) -> StepIds(plan)]
    BY <1>6, <1>7, <2>1
  <2>3. Range(ids) = StepIds(plan)
    BY <1>6 DEF Range, StepIds
  <2> QED
    BY <1>7, <2>2, <2>3
<1>9. PICK call : call = Call(empty, ids)
  OBVIOUS
<1>10. call.walk = empty /\ call.steps = ids /\ call = [walk |-> empty, steps |-> ids]
  BY <1>9, CallParts DEF Call
<1>11. call \in Calls(plan)
  <2>1. ids \in Seq(Named(plan))
    BY <1>8 DEF Named
  <2> QED
    BY <1>3, <1>10, <2>1, CallsAre
<1>12. Reachable(plan, StepIds(plan))
  BY AllReachable
<1>13. /\ Succeeds(plan, call.walk, VisitEach(plan)[call])
       /\ Range(call.steps) \subseteq Range(VisitEach(plan)[call].ordered)
  BY <1>5, <1>8, <1>10, <1>11, <1>12, VisitEachSucceeds
<1>14. TopologicallySorted(plan) = VisitEach(plan)[call]
  BY <1>1, <1>6, <1>9 DEF TopologicallySorted
<1>15. PICK walk : walk = TopologicallySorted(plan)
  OBVIOUS
<1>16. Fine(plan, walk) /\ StepIds(plan) \subseteq Range(walk.ordered)
  BY <1>8, <1>10, <1>13, <1>14, <1>15 DEF Succeeds
<1>17. walk.ordered \in Seq(StepIds(plan)) /\ ~walk.failed /\ InOrder(plan, walk.ordered)
  BY <1>16 DEF Fine, Walks
<1>18. Range(walk.ordered) \subseteq StepIds(plan)
  BY <1>17 DEF Range
<1> QED
  BY <1>15, <1>16, <1>17, <1>18

\* Steps taken to their places.
LEMMA OrderedFacts ==
  ASSUME NEW plan, IsPlan(plan), Distinct(plan), CheckDependencies(plan)
  PROVE  /\ Ordered(plan) \in Seq(Range(plan)) /\ Len(Ordered(plan)) = Len(plan)
         /\ StepIds(Ordered(plan)) = StepIds(plan)
         /\ Distinct(Ordered(plan))
         /\ \A k \in 1..Len(plan) :
              Range(Ordered(plan)[k].needs) \subseteq {Ordered(plan)[l].id : l \in 1..(k - 1)}
<1>1. PICK order : order = TopologicallySorted(plan).ordered
  OBVIOUS
<1>2. /\ order \in Seq(StepIds(plan)) /\ Range(order) = StepIds(plan) /\ InOrder(plan, order)
  BY <1>1, PlanIsOrdered
<1>3. DOMAIN plan = 1..Len(plan) /\ Len(plan) \in Nat
  BY DEF IsPlan
<1>4. DOMAIN order = 1..Len(order) /\ Len(order) \in Nat
  BY <1>2
<1>5. Len(order) = Len(plan)
  <2>1. order \in Bijection(1..Len(order), StepIds(plan))
    <3>1. order \in [1..Len(order) -> StepIds(plan)]
      BY <1>2, <1>4
    <3>2. \A k, l \in 1..Len(order) : order[k] = order[l] => k = l
      BY <1>2, <1>4 DEF InOrder
    <3>3. \A step \in StepIds(plan) : \E k \in 1..Len(order) : order[k] = step
      BY <1>2, <1>4 DEF Range
    <3> QED
      BY <3>1, <3>2, <3>3 DEF Bijection, Injection, Surjection, IsInjective
  <2>2. PICK ids : ids = [i \in 1..Len(plan) |-> plan[i].id]
    OBVIOUS
  <2>3. ids \in Bijection(1..Len(plan), StepIds(plan))
    BY <1>3, <2>2 DEF Bijection, Injection, Surjection, IsInjective, StepIds,
       Distinct
  <2>4. ExistsBijection(1..Len(order), StepIds(plan)) /\ ExistsBijection(1..Len(plan), StepIds(plan))
    BY <2>1, <2>3 DEF ExistsBijection
  <2>5. Cardinality(StepIds(plan)) = Len(order)
    BY <1>4, <2>4, FS_CountingElements
  <2>6. Cardinality(StepIds(plan)) = Len(plan)
    BY <1>3, <2>4, FS_CountingElements
  <2> QED
    BY <2>5, <2>6
<1>6. PICK steps : steps = Ordered(plan)
  OBVIOUS
<1>7. steps = [k \in 1..Len(plan) |-> StepOf(plan, order[k])]
  BY <1>1, <1>4, <1>5, <1>6 DEF Ordered
<1>8. ASSUME NEW k \in 1..Len(plan)
      PROVE  /\ steps[k] = StepOf(plan, order[k]) /\ steps[k] \in Range(plan)
             /\ steps[k].id = order[k]
  <2>1. order[k] \in StepIds(plan)
    BY <1>2, <1>5
  <2>2. PICK i \in DOMAIN plan : StepOf(plan, order[k]) = plan[i] /\ plan[i].id = order[k]
    BY <2>1, StepOfFacts
  <2> QED
    BY <1>7, <2>2 DEF Range
<1>9. steps \in Seq(Range(plan)) /\ Len(steps) = Len(plan) /\ DOMAIN steps = 1..Len(plan)
  BY <1>3, <1>7, <1>8
<1>10. StepIds(steps) = StepIds(plan)
  <2>1. StepIds(steps) = {order[k] : k \in 1..Len(plan)}
    BY <1>8, <1>9 DEF StepIds
  <2> QED
    BY <1>2, <1>4, <1>5, <2>1 DEF Range
<1>11. Distinct(steps)
  BY <1>2, <1>4, <1>5, <1>8, <1>9 DEF Distinct, InOrder
<1>12. ASSUME NEW k \in 1..Len(plan)
       PROVE  Range(steps[k].needs) \subseteq {steps[l].id : l \in 1..(k - 1)}
  <2>1. \A l \in 1..(k - 1) : l \in 1..Len(plan)
    BY <1>3
  <2>2. {steps[l].id : l \in 1..(k - 1)} = {order[l] : l \in 1..(k - 1)}
    BY <1>8, <2>1
  <2>3. Range(Needs(plan, order[k])) \subseteq {order[l] : l \in 1..(k - 1)}
    BY <1>2, <1>4, <1>5 DEF InOrder
  <2> QED
    BY <1>8, <2>2, <2>3 DEF Needs
<1> QED
  BY <1>6, <1>9, <1>10, <1>11, <1>12

-----------------------------------------------------------------------------
(* The routines that are saved, and the run of one.  What is saved was     *)
(* proposed or read from a file, so it can be put in order; a point brings *)
(* back what was saved once.  A run is at a step of its plan, has results  *)
(* of the steps before and of no other, and left no failure unexcused      *)
(* behind; the step that is paused at has its result already.              *)

GoodPlan(plan) ==
  /\ IsPlan(plan) /\ plan # <<>> /\ Distinct(plan) /\ CheckDependencies(plan)
  /\ \A i \in DOMAIN plan : plan[i].else \in OnFailure

PlansInv ==
  /\ \A plan \in routines : GoodPlan(plan)
  /\ \A point \in points : \A plan \in point.routines : GoodPlan(plan)
  /\ draft # <<>> => GoodPlan(draft)
  /\ draftFile # <<>> => draftFile \in Files
  /\ lastTurn # <<>> => lastTurn \in Turns

\* The steps a run takes.
Takable(plan) ==
  /\ plan \in Seq(Range(plan)) /\ Distinct(plan)
  /\ \A k \in 1..Len(plan) :
       /\ Range(plan[k].needs) \subseteq {plan[l].id : l \in 1..(k - 1)}
       /\ plan[k].else \in OnFailure

\* The first n steps of a plan are behind a run, and nothing else is.
Behind(plan, n, results) == DOMAIN results = {plan[l].id : l \in 1..n}
Excused(plan, n, results, yes) ==
  \A l \in 1..n : ~results[plan[l].id].ok => plan[l].else = "skip" \/ plan[l].id \in yes

RunInv ==
  job # NoJob =>
    /\ Takable(job.plan) /\ job.at \in 1..Len(job.plan)
    /\ Behind(job.plan, IF card = "keepGoing" THEN job.at ELSE job.at - 1, job.results)
    /\ Excused(job.plan, job.at - 1, job.results, job.yes)

-----------------------------------------------------------------------------
(* What is saved can be put in order.                                      *)

\* propose_from_recent_actions: each step waits for the one before.
LEMMA ProposedIsGood ==
  ASSUME NEW calls \in Turns, calls # <<>>
  PROVE  GoodPlan(Proposed(calls))
<1>1. PICK n \in Nat \ {0} : n = Len(calls) /\ DOMAIN calls = 1..n
  <2>1. calls \in Seq(Range(calls))
    BY RoutinesAssumption
  <2> QED
    BY <2>1
<1>2. PICK plan : plan = Proposed(calls)
  OBVIOUS
<1>3. plan = [i \in 1..n |-> ProposedStep(i, calls[i])]
  BY <1>1, <1>2 DEF Proposed
<1>4. ASSUME NEW i \in 1..n
      PROVE  /\ plan[i].id = i /\ plan[i].else = "abort"
             /\ plan[i].needs \in Seq(Range(plan[i].needs))
             /\ Range(plan[i].needs) = IF i = 1 THEN {} ELSE {i - 1}
  <2>1. PICK needs : needs = IF i = 1 THEN <<>> ELSE <<i - 1>>
    OBVIOUS
  <2>2. plan[i] = [id |-> i, tool |-> calls[i], needs |-> needs, uses |-> {}, else |-> "abort"]
    BY <1>3, <2>1 DEF ProposedStep
  <2>3. plan[i].id = i /\ plan[i].else = "abort" /\ plan[i].needs = needs
    BY <2>2
  <2>4. Range(needs) = IF i = 1 THEN {} ELSE {i - 1}
    <3>1. CASE i = 1
      BY <2>1, <3>1 DEF Range
    <3>2. CASE i # 1
      <4>1. needs = <<i - 1>> /\ DOMAIN needs = {1} /\ needs[1] = i - 1
        BY <2>1, <3>2
      <4> QED
        BY <3>2, <4>1 DEF Range
    <3> QED
      BY <3>1, <3>2
  <2>5. needs \in Seq(Range(needs))
    <3>1. CASE i = 1
      BY <2>1, <3>1
    <3>2. CASE i # 1
      BY <2>1, <2>4, <3>2
    <3> QED
      BY <3>1, <3>2
  <2> QED
    BY <2>3, <2>4, <2>5
<1>5. plan \in Seq(Range(plan)) /\ DOMAIN plan = 1..n /\ plan # <<>>
  <2>1. DOMAIN plan = 1..n
    BY <1>3
  <2>2. plan \in [1..n -> Range(plan)]
    BY <1>3, <2>1 DEF Range
  <2> QED
    BY <2>1, <2>2
<1>6. IsPlan(plan)
  <2>1. \A i \in 1..n : plan[i].needs \in Seq(Range(plan[i].needs))
    BY <1>4
  <2> QED
    BY <1>5, <2>1 DEF IsPlan
<1>7. Distinct(plan)
  BY <1>4, <1>5 DEF Distinct
<1>8. StepIds(plan) = 1..n
  <2>1. \A i \in 1..n : plan[i].id = i
    BY <1>4
  <2> QED
    BY <1>5, <2>1 DEF StepIds
<1>9. CheckDependencies(plan)
  <2>1. ASSUME NEW i \in 1..n
        PROVE  Range(plan[i].needs) \subseteq StepIds(plan) \ {plan[i].id}
    <3>1. plan[i].id = i /\ Range(plan[i].needs) = IF i = 1 THEN {} ELSE {i - 1}
      BY <1>4
    <3>2. i # 1 => i - 1 \in 1..n /\ i - 1 # i
      OBVIOUS
    <3> QED
      BY <1>8, <3>1, <3>2
  <2>2. ASSUME NEW steps \in SUBSET (1..n), TakenOut(plan, steps), NEW id \in 1..n
        PROVE  id \in steps
    <3> DEFINE Rest == (1..n) \ steps
    <3>1. SUFFICES ASSUME id \notin steps PROVE FALSE
      OBVIOUS
    <3>2. PICK first \in Rest : \A i \in Rest : first <= i
      <4>1. Rest \in SUBSET Nat /\ id \in Rest
        BY <3>1
      <4> HIDE DEF Rest
      <4> QED
        BY <4>1, NatHasLeast
    <3>3. Range(plan[first].needs) \subseteq steps
      <4>1. CASE first = 1
        <5>1. Range(plan[first].needs) = {}
          BY <1>4, <4>1
        <5> QED
          BY <5>1
      <4>2. CASE first # 1
        <5>1. first - 1 \in 1..n /\ first - 1 \notin Rest
          BY <3>2, <4>2
        <5>2. Range(plan[first].needs) = {first - 1}
          BY <1>4, <4>2
        <5> QED
          BY <5>1, <5>2
      <4> QED
        BY <4>1, <4>2
    <3>4. plan[first].id \in steps
      BY <1>5, <2>2, <3>3 DEF TakenOut
    <3> QED
      BY <1>4, <3>4
  <2>3. Done(plan) = StepIds(plan)
    BY <1>8, <2>2 DEF Done
  <2> QED
    BY <1>5, <2>1, <2>3 DEF CheckDependencies
<1> QED
  BY <1>2, <1>4, <1>5, <1>6, <1>7, <1>9 DEF GoodPlan, OnFailure

\* parse_portable.
LEMMA ParsedIsGood ==
  ASSUME NEW file \in Files, Parses(file)
  PROVE  GoodPlan(file)
<1>1. /\ file \in Seq(Range(file))
      /\ \A i \in DOMAIN file : file[i].needs \in Seq(Range(file[i].needs))
  BY RoutinesAssumption
<1>2. file # <<>>
  BY <1>1 DEF Parses
<1> QED
  BY <1>1, <1>2 DEF GoodPlan, IsPlan, Distinct, Parses

\* Every step keeps the saved plans in their order.
LEMMA PlansStep == PlansInv /\ [Next]_vars => PlansInv'
<1> SUFFICES ASSUME PlansInv, [Next]_vars PROVE PlansInv'
  OBVIOUS
<1>1. ASSUME Mint PROVE \A point \in points' : \A plan \in point.routines : GoodPlan(plan)
  <2>1. points' = points \cup {Now} /\ Now.routines = routines
    BY <1>1 DEF Mint, Now
  <2> QED
    BY <2>1 DEF PlansInv
<1>2. CASE AddServer \/ RemoveServer \/ ProfileSet
  <2>1. Mint /\ UNCHANGED library
    BY <1>2 DEF AddServer, RemoveServer, ProfileSet
  <2> QED
    BY <1>1, <2>1 DEF PlansInv, library
<1>3. CASE \/ RefreshServer \/ RefreshBreaks \/ StartRun \/ WorkerStep \/ Respond \/ Stop
           \/ UNCHANGED vars
  <2>1. UNCHANGED <<library, points>>
    BY <1>3 DEF RefreshServer, RefreshBreaks, StartRun, WorkerStep, Unresolved, StepRefused,
       GateAsks, GateDenies, ToolRuns, Unrecorded, KeepGoing, StillSaved, Respond, Stop, vars
  <2> QED
    BY <2>1 DEF PlansInv, library
<1>4. CASE ChatTurn
  BY <1>4 DEF ChatTurn, PlansInv
<1>5. CASE Restore
  <2>1. PICK point \in points : routines' = point.routines
    BY <1>5 DEF Restore
  <2>2. points' = points \cup {Now} /\ Now.routines = routines
    BY <1>5 DEF Restore, Now
  <2> QED
    BY <1>5, <2>1, <2>2 DEF Restore, PlansInv
<1>6. CASE Propose
  <2>1. GoodPlan(draft')
    BY <1>6, ProposedIsGood DEF Propose, PlansInv
  <2> QED
    BY <1>6, <2>1 DEF Propose, PlansInv
<1>7. CASE ConfirmSave
  BY <1>7 DEF ConfirmSave, PlansInv
<1>8. CASE ImportPreview
  BY <1>8 DEF ImportPreview, PlansInv
<1>9. CASE ImportConfirm
  <2>1. /\ draftFile # <<>> /\ draftFile \in Files
        /\ UNCHANGED <<lastTurn, draft>> /\ draftFile' \in {<<>>, draftFile}
    BY <1>9 DEF ImportConfirm, PlansInv
  <2>2. \/ Parses(draftFile) /\ Mint /\ routines' = routines \cup {draftFile}
        \/ UNCHANGED <<points, routines>>
    BY <1>9 DEF ImportConfirm
  <2>3. CASE Parses(draftFile) /\ Mint /\ routines' = routines \cup {draftFile}
    <3>1. GoodPlan(draftFile)
      BY <2>1, <2>3, ParsedIsGood
    <3> QED
      BY <1>1, <2>1, <2>3, <3>1 DEF PlansInv
  <2>4. CASE UNCHANGED <<points, routines>>
    BY <2>1, <2>4 DEF PlansInv
  <2> QED
    BY <2>2, <2>3, <2>4
<1>10. CASE RoutineDelete
  <2>1. Mint /\ routines' \subseteq routines /\ UNCHANGED <<lastTurn, draft, draftFile>>
    BY <1>10 DEF RoutineDelete
  <2> QED
    BY <1>1, <2>1 DEF PlansInv
<1>11. CASE Relaunch
  BY <1>11 DEF Relaunch, PlansInv
<1> QED
  BY <1>2, <1>3, <1>4, <1>5, <1>6, <1>7, <1>8, <1>9, <1>10, <1>11 DEF Next

\* At first nothing is saved.
LEMMA PlansAtFirst == Init => PlansInv
BY DEF Init, PlansInv

\* Whatever file was accepted, and whatever turn was made a routine of, a saved
\* routine has an order to run in, each step once (portable._check_dependencies,
\* engine.topologically_sorted).
THEOREM SavedRoutinesCanStart == Spec => []EveryRoutineCanStart
<1>1. ASSUME PlansInv, NEW plan \in routines
      PROVE  /\ ~TopologicallySorted(plan).failed
             /\ Len(Ordered(plan)) = Len(plan) /\ StepIds(Ordered(plan)) = StepIds(plan)
  <2>1. IsPlan(plan) /\ Distinct(plan) /\ CheckDependencies(plan)
    BY <1>1 DEF PlansInv, GoodPlan
  <2> QED
    BY <2>1, PlanIsOrdered, OrderedFacts
<1>2. PlansInv => EveryRoutineCanStart
  BY <1>1 DEF EveryRoutineCanStart
<1> QED
  BY <1>2, PlansAtFirst, PlansStep, PTL DEF Spec

-----------------------------------------------------------------------------
(* A run keeps to its plan.                                                *)

\* Where no run is under way there is nothing to show.
LEMMA RunOver ==
  ASSUME job' = NoJob
  PROVE  RunInv'
BY DEF RunInv

\* Where a run is when it goes on.
LEMMA RunGoesOn ==
  ASSUME NEW run, NEW plan, NEW at, NEW results, NEW sources, NEW warned, NEW yes,
         job' = [run |-> run, plan |-> plan, at |-> at, results |-> results,
                 sources |-> sources, told |-> warned, yes |-> yes],
         Takable(plan), at \in 1..Len(plan),
         Behind(plan, IF card' = "keepGoing" THEN at ELSE at - 1, results),
         Excused(plan, at - 1, results, yes)
  PROVE  RunInv'
<1>1. /\ job'.plan = plan /\ job'.at = at /\ job'.results = results /\ job'.yes = yes
  OBVIOUS
<1> QED
  BY <1>1 DEF RunInv

\* The next step, or the end, when the step is done with.
LEMMA AdvanceKeeps ==
  ASSUME NEW run, NEW plan, NEW at, NEW results, NEW sources, NEW warned, NEW yes, NEW done,
         done = [run |-> run, plan |-> plan, at |-> at, results |-> results,
                 sources |-> sources, told |-> warned, yes |-> yes],
         Takable(plan), at \in 1..Len(plan), Behind(plan, at, results),
         Excused(plan, at, results, yes), Advance(done)
  PROVE  RunInv'
<1>1. CASE Finish("completed")
  BY <1>1, RunOver DEF Finish
<1>2. CASE /\ done.at # Len(done.plan)
           /\ job' = [done EXCEPT !.at = @ + 1, !.told = FALSE] /\ NoCard
  <2>1. at # Len(plan)
    BY <1>2
  <2>2. PICK next : next = at + 1
    OBVIOUS
  <2>3. job' = [run |-> run, plan |-> plan, at |-> next, results |-> results,
                sources |-> sources, told |-> FALSE, yes |-> yes]
    BY <1>2, <2>2
  <2>4. card' # "keepGoing"
    BY <1>2 DEF NoCard, None
  <2>5. next \in 1..Len(plan) /\ next - 1 = at
    BY <2>1, <2>2 DEF Takable
  <2>6. Behind(plan, IF card' = "keepGoing" THEN next ELSE next - 1, results)
    BY <2>4, <2>5
  <2>7. Excused(plan, next - 1, results, yes)
    BY <2>5
  <2> QED
    BY <2>3, <2>5, <2>6, <2>7, RunGoesOn
<1> QED
  BY <1>1, <1>2 DEF Advance

\* The step's result beside those of the steps before.
LEMMA ResultBeside ==
  ASSUME NEW plan, Takable(plan), NEW at \in 1..Len(plan), NEW results, NEW yes, NEW result,
         Behind(plan, at - 1, results), Excused(plan, at - 1, results, yes)
  PROVE  /\ Behind(plan, at, With(results, plan[at].id, result))
         /\ Excused(plan, at - 1, With(results, plan[at].id, result), yes)
         /\ With(results, plan[at].id, result)[plan[at].id] = result
<1>1. PICK more : more = With(results, plan[at].id, result)
  OBVIOUS
<1>2. /\ DOMAIN more = DOMAIN results \cup {plan[at].id} /\ more[plan[at].id] = result
      /\ \A id \in DOMAIN results : id # plan[at].id => more[id] = results[id]
  BY <1>1 DEF With
<1>3. 1..at = (1..(at - 1)) \cup {at} /\ at \in DOMAIN plan
      /\ \A l \in 1..(at - 1) : l \in DOMAIN plan /\ l # at
  BY DEF Takable
<1>4. \A l \in 1..(at - 1) : plan[l].id # plan[at].id /\ plan[l].id \in DOMAIN results
  BY <1>3 DEF Takable, Distinct, Behind
<1>5. Behind(plan, at, more)
  BY <1>2, <1>3 DEF Behind
<1>6. Excused(plan, at - 1, more, yes)
  BY <1>2, <1>4 DEF Excused
<1> QED
  BY <1>1, <1>2, <1>5, <1>6

\* A step's failure, or its being excused, is all that is added.
LEMMA ExcusedOneMore ==
  ASSUME NEW plan, NEW at \in Nat \ {0}, NEW results, NEW yes, NEW more,
         Excused(plan, at - 1, results, yes), yes \subseteq more,
         results[plan[at].id].ok \/ plan[at].else = "skip" \/ plan[at].id \in more
  PROVE  Excused(plan, at, results, more)
<1>1. 1..at = (1..(at - 1)) \cup {at}
  OBVIOUS
<1> QED
  BY <1>1 DEF Excused

\* A step's result is recorded.
LEMMA RecordStepKeeps ==
  ASSUME JobInv, RunInv, job # NoJob, card # "keepGoing", NEW result, NEW sources,
         RecordStep(result, sources)
  PROVE  RunInv'
<1>1. IsARun /\ Takable(job.plan) /\ job.at \in 1..Len(job.plan)
      /\ Behind(job.plan, job.at - 1, job.results)
      /\ Excused(job.plan, job.at - 1, job.results, job.yes)
  BY DEF JobInv, RunInv
<1>2. PICK plan, at, yes : plan = job.plan /\ at = job.at /\ yes = job.yes
  OBVIOUS
<1>3. PICK results : results = With(job.results, plan[at].id, result)
  OBVIOUS
<1>4. Step = plan[at]
  BY <1>2 DEF Step
<1>5. Takable(plan) /\ at \in 1..Len(plan)
  BY <1>1, <1>2
<1>6. /\ Behind(plan, at, results) /\ Excused(plan, at - 1, results, yes)
      /\ results[plan[at].id] = result
  <2>1. Behind(plan, at - 1, job.results) /\ Excused(plan, at - 1, job.results, yes)
    BY <1>1, <1>2
  <2>2. /\ Behind(plan, at, With(job.results, plan[at].id, result))
        /\ Excused(plan, at - 1, With(job.results, plan[at].id, result), yes)
        /\ With(job.results, plan[at].id, result)[plan[at].id] = result
    BY <1>5, <2>1, ResultBeside
  <2> QED
    BY <1>3, <2>2
<1>7. PICK done : done = [job EXCEPT !.results = With(@, Step.id, result), !.sources = sources]
  OBVIOUS
<1>8. done = [run |-> job.run, plan |-> plan, at |-> at, results |-> results,
              sources |-> sources, told |-> job.told, yes |-> yes]
  BY <1>1, <1>2, <1>3, <1>4, <1>7 DEF IsARun
<1>9. \/ Finish("failed") \/ Finish("cancelled")
      \/ job' = done /\ card' = "keepGoing"
      \/ Advance(done) /\ ~(~result.ok /\ Step.else = "abort")
           /\ ~(~result.ok /\ Step.else = "ask_user")
  BY <1>7 DEF RecordStep
<1>10. CASE Finish("failed") \/ Finish("cancelled")
  BY <1>10, RunOver DEF Finish
<1>11. CASE job' = done /\ card' = "keepGoing"
  <2>1. job' = [run |-> job.run, plan |-> plan, at |-> at, results |-> results,
                sources |-> sources, told |-> job.told, yes |-> yes]
    BY <1>8, <1>11
  <2>2. Behind(plan, IF card' = "keepGoing" THEN at ELSE at - 1, results)
    BY <1>6, <1>11
  <2> QED
    BY <1>5, <1>6, <2>1, <2>2, RunGoesOn
<1>12. CASE Advance(done) /\ ~(~result.ok /\ Step.else = "abort")
              /\ ~(~result.ok /\ Step.else = "ask_user")
  <2>1. plan[at].else \in OnFailure
    BY <1>5 DEF Takable
  <2>2. results[plan[at].id].ok \/ plan[at].else = "skip"
    BY <1>4, <1>6, <1>12, <2>1 DEF OnFailure
  <2>3. at \in Nat \ {0}
    BY <1>5
  <2>4. Excused(plan, at, results, yes)
    BY <1>6, <2>2, <2>3, ExcusedOneMore
  <2> QED
    BY <1>5, <1>6, <1>8, <1>12, <2>4, AdvanceKeeps
<1> QED
  BY <1>9, <1>10, <1>11, <1>12

\* The person lets a run go on past a step that failed.
LEMMA KeepGoingKeeps ==
  ASSUME JobInv, RunInv, KeepGoing
  PROVE  RunInv'
<1>1. card = "keepGoing" /\ job # NoJob
  BY DEF JobInv, KeepGoing, None
<1>2. IsARun /\ Takable(job.plan) /\ job.at \in 1..Len(job.plan)
      /\ Behind(job.plan, job.at, job.results)
      /\ Excused(job.plan, job.at - 1, job.results, job.yes)
  BY <1>1 DEF JobInv, RunInv
<1>3. CASE Finish("cancelled")
  BY <1>3, RunOver DEF Finish
<1>4. CASE Advance([job EXCEPT !.yes = @ \cup {Step.id}])
  <2>1. PICK yes : yes = job.yes \cup {Step.id}
    OBVIOUS
  <2>2. PICK done : done = [job EXCEPT !.yes = @ \cup {Step.id}]
    OBVIOUS
  <2>3. done = [run |-> job.run, plan |-> job.plan, at |-> job.at, results |-> job.results,
                sources |-> job.sources, told |-> job.told, yes |-> yes]
    BY <1>2, <2>1, <2>2 DEF IsARun
  <2>4. job.at \in Nat \ {0}
    BY <1>2
  <2>5. job.plan[job.at].id \in yes /\ job.yes \subseteq yes
    BY <2>1 DEF Step
  <2>6. Excused(job.plan, job.at, job.results, yes)
    BY <1>2, <2>4, <2>5, ExcusedOneMore
  <2>7. Advance(done)
    BY <1>4, <2>2
  <2> QED
    BY <1>2, <2>3, <2>6, <2>7, AdvanceKeeps
<1> QED
  BY <1>3, <1>4 DEF KeepGoing

\* A run begins with a plan that can start.
LEMMA StartRunKeeps ==
  ASSUME PlansInv, JobInv, StartRun
  PROVE  RunInv'
<1>1. PICK plan \in routines :
        LET n == Len(runs) + 1
            circle == TopologicallySorted(plan).failed
        IN  job' = IF circle THEN NoJob
                   ELSE [run |-> n, plan |-> Ordered(plan), at |-> 1, results |-> <<>>,
                         sources |-> {}, told |-> FALSE, yes |-> {}]
  BY DEF StartRun
<1>2. /\ IsPlan(plan) /\ Distinct(plan) /\ CheckDependencies(plan) /\ plan # <<>>
      /\ \A i \in DOMAIN plan : plan[i].else \in OnFailure
  BY DEF PlansInv, GoodPlan
<1>3. PICK steps : steps = Ordered(plan)
  OBVIOUS
<1>4. /\ steps \in Seq(Range(plan)) /\ Len(steps) = Len(plan) /\ Distinct(steps)
      /\ \A k \in 1..Len(plan) : Range(steps[k].needs) \subseteq {steps[l].id : l \in 1..(k - 1)}
  <2>1. /\ Ordered(plan) \in Seq(Range(plan)) /\ Len(Ordered(plan)) = Len(plan)
        /\ Distinct(Ordered(plan))
    BY <1>2, OrderedFacts
  <2>2. \A k \in 1..Len(plan) :
          Range(Ordered(plan)[k].needs) \subseteq {Ordered(plan)[l].id : l \in 1..(k - 1)}
    BY <1>2, OrderedFacts
  <2> QED
    BY <1>3, <2>1, <2>2
<1>5. Len(plan) \in Nat \ {0} /\ DOMAIN plan = 1..Len(plan)
  BY <1>2 DEF IsPlan
<1>6. \A k \in 1..Len(steps) : steps[k] \in Range(plan)
  BY <1>4
<1>7. \A step \in Range(plan) : step.else \in OnFailure
  BY <1>2 DEF Range
<1>8. steps \in Seq(Range(steps))
  BY <1>4 DEF Range
<1>9. Takable(steps)
  BY <1>4, <1>6, <1>7, <1>8 DEF Takable
<1>10. CASE job' = NoJob
  BY <1>10, RunOver
<1>11. CASE job' # NoJob
  <2>1. PICK n : job' = [run |-> n, plan |-> steps, at |-> 1, results |-> <<>>,
                         sources |-> {}, told |-> FALSE, yes |-> {}]
    BY <1>1, <1>3, <1>11
  <2>2. PICK results : results = <<>> /\ DOMAIN results = {}
    OBVIOUS
  <2>3. job' = [run |-> n, plan |-> steps, at |-> 1, results |-> results,
                sources |-> {}, told |-> FALSE, yes |-> {}]
    BY <2>1, <2>2
  <2>4. card' # "keepGoing"
    BY DEF StartRun, Quiet, Idle, JobInv, None
  <2>5. 1 \in 1..Len(steps) /\ 1..(1 - 1) = {}
    BY <1>4, <1>5
  <2>6. Behind(steps, IF card' = "keepGoing" THEN 1 ELSE 1 - 1, results)
    BY <2>2, <2>4, <2>5 DEF Behind
  <2>7. Excused(steps, 1 - 1, results, {})
    BY <2>5 DEF Excused
  <2> QED
    BY <1>9, <2>3, <2>5, <2>6, <2>7, RunGoesOn
<1> QED
  BY <1>10, <1>11

\* What leaves the run alone leaves what is known of it.
LEMMA RunStands ==
  ASSUME RunInv, UNCHANGED <<job, card>>
  PROVE  RunInv'
BY DEF RunInv

\* Every step keeps what is known of the run.
LEMMA RunStep == PlansInv /\ JobInv /\ RunInv /\ [Next]_vars => RunInv'
<1> SUFFICES ASSUME PlansInv, JobInv, RunInv, [Next]_vars PROVE RunInv'
  OBVIOUS
<1>1. CASE AddServer \/ RemoveServer \/ RefreshServer \/ RefreshBreaks \/ ChatTurn \/ ProfileSet
           \/ Propose \/ ConfirmSave \/ ImportPreview \/ ImportConfirm
  BY <1>1, RunStands DEF AddServer, RemoveServer, RefreshServer, RefreshBreaks, ChatTurn,
     ProfileSet, Propose, ConfirmSave, ImportPreview, ImportConfirm, Act, running
<1>2. CASE Restore \/ RoutineDelete
  BY <1>2, RunStands DEF Restore, RoutineDelete, running
<1>3. CASE Respond \/ Stop \/ UNCHANGED vars
  BY <1>3, RunStands DEF Respond, Stop, vars, running
<1>4. CASE StartRun
  BY <1>4, StartRunKeeps
<1>5. CASE Unresolved \/ GateDenies \/ Unrecorded \/ Relaunch
  <2>1. job' = NoJob
    BY <1>5 DEF Unresolved, GateDenies, Unrecorded, Relaunch, Finish
  <2> QED
    BY <2>1, RunOver
<1>6. CASE StepRefused
  <2>1. job # NoJob /\ card # "keepGoing" /\ RecordStep(Failed, job.sources)
    BY <1>6 DEF StepRefused, Working, Idle, None
  <2> QED
    BY <2>1, RecordStepKeeps
<1>7. CASE GateAsks
  <2>1. /\ job # NoJob /\ card # "keepGoing" /\ card' = "permission"
    BY <1>7 DEF GateAsks, Working, Idle, None
  <2>2. PICK line : line = TaintLine
    OBVIOUS
  <2>3. job' = [run |-> job.run, plan |-> job.plan, at |-> job.at, results |-> job.results,
                sources |-> job.sources, told |-> line, yes |-> job.yes]
    BY <1>7, <2>1, <2>2 DEF GateAsks, JobInv, IsARun
  <2>4. /\ Takable(job.plan) /\ job.at \in 1..Len(job.plan)
        /\ Behind(job.plan, IF card' = "keepGoing" THEN job.at ELSE job.at - 1, job.results)
        /\ Excused(job.plan, job.at - 1, job.results, job.yes)
    BY <2>1 DEF RunInv
  <2> QED
    BY <2>3, <2>4, RunGoesOn
<1>8. CASE ToolRuns
  <2>1. job # NoJob /\ card # "keepGoing"
    BY <1>8 DEF ToolRuns, Cleared, Working, Idle, JobInv, None
  <2>2. PICK result \in Outcomes : RecordStep(result, IF result.ok
                                    THEN Tainted(Step.id, Step.tool, result.long) ELSE job.sources)
    BY <1>8 DEF ToolRuns
  <2> QED
    BY <2>1, <2>2, RecordStepKeeps
<1>9. CASE KeepGoing
  BY <1>9, KeepGoingKeeps
<1> QED
  BY <1>1, <1>2, <1>3, <1>4, <1>5, <1>6, <1>7, <1>8, <1>9 DEF Next, WorkerStep

\* RoutineEngine.run and _record_step, for any plan: a tool runs once in a run, after
\* what its step waits for, and after no failure but an excused one.
THEOREM RunsFollowTheirPlan == Spec => ReplayFollowsThePlan
<1>1. Init => PlansInv /\ JobInv /\ RunInv
  BY PlansAtFirst DEF Init, JobInv, RunInv, None
<1>2. ASSUME JobInv, RunInv, ToolRuns
      PROVE  /\ Step.id \notin DOMAIN job.results
             /\ Range(Step.needs) \subseteq DOMAIN job.results
             /\ \A i \in 1..(job.at - 1) :
                  ~job.results[job.plan[i].id].ok =>
                    job.plan[i].else = "skip" \/ job.plan[i].id \in job.yes
  <2>1. job # NoJob /\ card # "keepGoing"
    BY <1>2 DEF ToolRuns, Cleared, Working, Idle, JobInv, None
  <2>2. /\ Takable(job.plan) /\ job.at \in 1..Len(job.plan)
        /\ Behind(job.plan, job.at - 1, job.results)
        /\ Excused(job.plan, job.at - 1, job.results, job.yes)
    BY <1>2, <2>1 DEF RunInv
  <2>3. \A l \in 1..(job.at - 1) : l \in DOMAIN job.plan /\ l # job.at
    BY <2>2 DEF Takable
  <2>4. job.at \in DOMAIN job.plan
    BY <2>2 DEF Takable
  <2>5. Step.id \notin DOMAIN job.results
    BY <2>2, <2>3, <2>4 DEF Step, Takable, Distinct, Behind
  <2>6. Range(Step.needs) \subseteq DOMAIN job.results
    BY <2>2 DEF Step, Takable, Behind
  <2> QED
    BY <2>2, <2>5, <2>6 DEF Excused
<1>3. JobInv /\ RunInv =>
        [ToolRuns =>
           /\ Step.id \notin DOMAIN job.results
           /\ Range(Step.needs) \subseteq DOMAIN job.results
           /\ \A i \in 1..(job.at - 1) :
                LET before == job.plan[i]
                IN  ~job.results[before.id].ok => before.else = "skip" \/ before.id \in job.yes
        ]_vars
  BY <1>2
<1> QED
  BY <1>1, <1>3, PlansStep, JobStep, RunStep, PTL DEF Spec, ReplayFollowsThePlan

-----------------------------------------------------------------------------
(* One call on the wire (mcp_client._Session, net_vetting).  InTime is not *)
(* inductive: it says nothing of how much later than the budget a wait may *)
(* begin.  Clock adds what each phase knows: an address is tried before    *)
(* the budget ran out, or not at all; connecting to it takes no longer     *)
(* than what was left, and from then on only the socket's timeout is over  *)
(* each wait, until a chunk of the body asks the clock again.              *)

\* How late n waits in a row may make it.
Waits(n) == n * SocketTimeout

LEMMA WaitsAdd ==
  ASSUME NEW n \in Nat
  PROVE  /\ Waits(n) \in Nat /\ Waits(0) = 0 /\ SocketTimeout \in Nat
         /\ Waits(n + 1) = Waits(n) + SocketTimeout
         /\ Waits(n + 2) = Waits(n) + SocketTimeout + SocketTimeout
         /\ Waits(n + 3) = Waits(n) + SocketTimeout + SocketTimeout + SocketTimeout
BY TimesAssumption DEF Waits

BeganInTime == spent <= Budget + SocketTimeout \/ spent < Budget + MaxLookup
SoonEnough == spent <= Budget + Waits(pieces + 3) \/ spent < Budget + MaxLookup

Clock ==
  /\ spent \in Nat /\ wait \in 0..SocketTimeout /\ pieces \in Nat
  /\ SoonEnough
  /\ phase = "try" => BeganInTime
  /\ phase = "head" => spent <= Budget + Waits(pieces + 1)
  /\ phase = "body" => spent <= Budget + Waits(pieces + 2)

\* A timeout is no longer than the socket's and than what is left of the budget.
LEMMA ShorterFacts ==
  ASSUME spent \in Nat, NEW t \in Nat
  PROVE  /\ Remaining \in Nat
         /\ Shorter(t) \in 0..t
         /\ Remaining # 0 => spent + Shorter(t) <= Budget /\ spent < Budget
BY TimesAssumption DEF Remaining, Shorter

\* Where the time and the pieces stay, and the phase is none that knows more, so does the clock.
LEMMA ClockRests ==
  ASSUME Clock, spent' = spent, pieces' = pieces, wait' \in {0, wait},
         phase' \notin {"try", "head", "body"}
  PROVE  Clock'
BY TimesAssumption DEF Clock, SoonEnough

\* Every step keeps the clock right.
LEMMA ClockStep == Clock /\ [ExchangeNext]_exchangeVars => Clock'
<1> SUFFICES ASSUME Clock, [ExchangeNext]_exchangeVars PROVE Clock'
  OBVIOUS
<1>10. /\ {Budget, SocketTimeout, MaxLookup, spent, pieces} \subseteq Nat /\ wait \in 0..SocketTimeout
       /\ {Waits(pieces), Waits(pieces + 1), Waits(pieces + 2), Waits(pieces + 3)} \subseteq Nat
       /\ Waits(pieces + 1) = Waits(pieces) + SocketTimeout
       /\ Waits(pieces + 2) = Waits(pieces) + SocketTimeout + SocketTimeout
       /\ Waits(pieces + 3) = Waits(pieces) + SocketTimeout + SocketTimeout + SocketTimeout
  <2>1. {Budget, SocketTimeout, MaxLookup, spent, pieces} \subseteq Nat /\ wait \in 0..SocketTimeout
    BY TimesAssumption DEF Clock
  <2>2. pieces \in Nat /\ pieces + 1 \in Nat /\ pieces + 2 \in Nat /\ pieces + 3 \in Nat
    BY <2>1
  <2> QED
    BY <2>1, <2>2, WaitsAdd
<1>1. CASE Post
  <2>1. /\ spent' = spent /\ wait' \in {0, wait} /\ phase' \in {"over", "vet"}
        /\ pieces' = pieces
    BY <1>1 DEF Post, Fail
  <2> QED
    BY <2>1, ClockRests
<1>2. CASE Vet
  <2>1. CASE Remaining = 0
    <3>1. spent' = spent /\ wait' = 0 /\ phase' = "over" /\ pieces' = pieces
      BY <1>2, <2>1 DEF Vet, Fail
    <3> QED
      BY <3>1, ClockRests
  <2>2. CASE Remaining # 0
    <3>1. PICK t \in 0..(IF place.named THEN MaxLookup ELSE 0) :
            /\ spent' = spent + t /\ pieces' = pieces
            /\ \/ phase' = "try" /\ wait' = Shorter(SocketTimeout)
               \/ phase' = "over" /\ wait' = 0
      BY <1>2, <2>2 DEF Vet, Takes, Fail
    <3>2. Shorter(SocketTimeout) \in 0..SocketTimeout /\ spent < Budget
      BY <1>10, <2>2, ShorterFacts
    <3>3. t \in 0..MaxLookup
      BY <1>10
    <3>4. spent' \in Nat /\ spent' < Budget + MaxLookup /\ wait' \in 0..SocketTimeout
      BY <1>10, <3>1, <3>2, <3>3
    <3> QED
      BY <1>10, <3>1, <3>4 DEF Clock, SoonEnough, BeganInTime
  <2> QED
    BY <2>1, <2>2
<1>3. CASE TryAddress
  <2>1. phase = "try" /\ pieces' = 0 /\ BeganInTime
    BY <1>3 DEF TryAddress, Clock
  <2>2. /\ Waits(0 + 1) = SocketTimeout
        /\ Waits(0 + 3) = SocketTimeout + SocketTimeout + SocketTimeout
    BY WaitsAdd
  <2>3. Waits(pieces' + 1) = SocketTimeout /\ Waits(pieces' + 3) = SocketTimeout + SocketTimeout + SocketTimeout
    BY <2>1, <2>2
  <2>4. CASE Remaining = 0
    <3>1. spent' = spent /\ wait' = 0 /\ phase' = "over"
      BY <1>3, <2>4 DEF TryAddress, Fail
    <3> QED
      BY <1>10, <2>1, <2>3, <3>1 DEF Clock, SoonEnough, BeganInTime, Waits
  <2>5. CASE Remaining # 0
    <3>1. PICK connects, agrees \in 0..Shorter(wait) :
            /\ spent' = spent + (connects + agrees)
            /\ \/ phase' = "head" /\ wait' = Shorter(wait)
               \/ phase' = "try" /\ wait' = wait
               \/ phase' = "over" /\ wait' = 0
      BY <1>3, <2>5 DEF TryAddress, Takes, Fail
    <3>2. Shorter(wait) \in 0..wait /\ spent + Shorter(wait) <= Budget
      BY <1>10, <2>5, ShorterFacts
    <3>3. spent' \in Nat /\ spent' <= Budget + SocketTimeout /\ wait' \in 0..SocketTimeout
      BY <1>10, <3>1, <3>2
    <3> QED
      BY <1>10, <2>1, <2>3, <3>1, <3>3 DEF Clock, SoonEnough, BeganInTime, Waits
  <2> QED
    BY <2>4, <2>5
<1>9. CASE HeadPiece
  <2>1. /\ phase = "head" /\ phase' = "head" /\ pieces' = pieces + 1 /\ wait' = wait
        /\ \E t \in 0..wait : spent' = spent + t
    BY <1>9 DEF HeadPiece, Takes, conn
  <2>2. spent <= Budget + Waits(pieces + 1)
    BY <2>1 DEF Clock
  <2>3. pieces' \in Nat /\ spent' \in Nat /\ spent' <= Budget + Waits(pieces + 2)
    BY <1>10, <2>1, <2>2
  <2>4. pieces + 1 \in Nat /\ pieces + 1 + 1 = pieces + 2
    BY <1>10
  <2>5. Waits(pieces' + 1) = Waits(pieces + 2)
    BY <2>1, <2>4
  <2>6. /\ Waits(pieces + 1 + 1) = Waits(pieces + 1) + SocketTimeout
        /\ Waits(pieces + 1 + 3) = Waits(pieces + 1) + SocketTimeout + SocketTimeout + SocketTimeout
    BY <2>4, WaitsAdd
  <2>7. Waits(pieces' + 3) = Waits(pieces + 1 + 3)
    BY <2>1
  <2>8. spent' <= Budget + Waits(pieces' + 3)
    BY <1>10, <2>3, <2>6, <2>7
  <2> QED
    BY <1>10, <2>1, <2>3, <2>5, <2>8 DEF Clock, SoonEnough
<1>4. CASE ResponseHead
  <2>1. PICK t \in 0..wait :
          /\ spent' = spent + t
          /\ \/ phase' \in {"over", "vet"} /\ wait' = 0
             \/ phase' = "body" /\ wait' = wait
    BY <1>4 DEF ResponseHead, Redirect, Takes, Fail
  <2>2. phase = "head" /\ pieces' = pieces
    BY <1>4 DEF ResponseHead
  <2>3. spent <= Budget + Waits(pieces + 1)
    BY <2>2 DEF Clock
  <2>4. /\ spent' \in Nat /\ spent' <= Budget + Waits(pieces + 2)
        /\ spent' <= Budget + Waits(pieces + 3)
    BY <1>10, <2>1, <2>3
  <2> QED
    BY <1>10, <2>1, <2>2, <2>4 DEF Clock, SoonEnough
<1>5. CASE Chunk
  <2>1. PICK t \in 0..wait :
          /\ spent' = spent + t
          /\ \/ phase' = "over" /\ wait' = 0
             \/ phase' = "body" /\ wait' = wait /\ ~(spent + t >= Budget)
    BY <1>5 DEF Chunk, TakeChunk, Takes, Fail
  <2>2. phase = "body" /\ pieces' = pieces
    BY <1>5 DEF Chunk
  <2>3. spent <= Budget + Waits(pieces + 2)
    BY <2>2 DEF Clock
  <2>4. /\ spent' \in Nat /\ spent' <= Budget + Waits(pieces + 3)
        /\ phase' = "body" => spent' <= Budget + Waits(pieces + 2)
    BY <1>10, <2>1, <2>3
  <2> QED
    BY <1>10, <2>1, <2>2, <2>4 DEF Clock, SoonEnough
<1>6. CASE BodyEnds
  <2>1. PICK t \in 0..wait : spent' = spent + t
    BY <1>6 DEF BodyEnds, Takes
  <2>2. phase' \in {"over", "post", "answered"} /\ wait' = 0
    BY <1>6 DEF BodyEnds, Fail
  <2>3. phase = "body" /\ pieces' = pieces
    BY <1>6 DEF BodyEnds
  <2>4. spent <= Budget + Waits(pieces + 2)
    BY <2>3 DEF Clock
  <2>5. spent' \in Nat /\ spent' <= Budget + Waits(pieces + 3)
    BY <1>10, <2>1, <2>4
  <2> QED
    BY <1>10, <2>2, <2>3, <2>5 DEF Clock, SoonEnough
<1>7. CASE Answered
  <2>1. spent' = spent /\ wait' \in {0, wait} /\ phase' = "over" /\ pieces' = pieces
    BY <1>7 DEF Answered, Fail, conn
  <2> QED
    BY <2>1, ClockRests
<1>8. CASE UNCHANGED exchangeVars
  BY <1>8 DEF exchangeVars, conn, Clock, SoonEnough, BeganInTime
<1> QED
  BY <1>1, <1>2, <1>3, <1>4, <1>5, <1>6, <1>7, <1>8, <1>9 DEF ExchangeNext

\* One call, one session, one budget (mcp_client.call_tool), as far as it is kept: a person
\* waits no longer than the budget and one attempt that began in time, which is three waits
\* on its socket and one for every further piece the request went out and the head came in;
\* or one lookup.  Whatever the redirects, the addresses and the chunks of the bodies.
THEOREM CallIsInTime == ExchangeSpec => []InTime
<1>1. ExchangeInit => Clock
  <2> SUFFICES ASSUME ExchangeInit PROVE Clock
    OBVIOUS
  <2>1. spent = 0 /\ wait = 0 /\ pieces = 0 /\ phase = "post"
    BY DEF ExchangeInit
  <2>2. Waits(0 + 3) \in Nat
    BY WaitsAdd
  <2> QED
    BY <2>1, <2>2, TimesAssumption DEF Clock, SoonEnough
<1>2. Clock => InTime
  BY DEF Clock, SoonEnough, Waits, InTime
<1> QED
  BY <1>1, <1>2, ClockStep, PTL DEF ExchangeSpec

-----------------------------------------------------------------------------
(* Lists: what At and Joined make of them (ToolAnswer).                     *)

\* Min is the least.
LEMMA LeastIsMin ==
  ASSUME NEW S \in SUBSET Nat, S # {}
  PROVE  Min(S) \in S /\ \A i \in S : Min(S) <= i
<1>1. \E i \in S : \A j \in S : i <= j
  BY NatHasLeast
<1> QED
  BY <1>1 DEF Min

\* Max is the greatest, where there is a bound.
LEMMA GreatestIsMax ==
  ASSUME NEW n \in Nat, NEW S \in SUBSET (0..n), S # {}
  PROVE  Max(S) \in S /\ \A i \in S : i <= Max(S)
<1> DEFINE T == {n - i : i \in S}
<1>0. \A i \in S : i \in Nat /\ i <= n /\ n - i \in Nat
  OBVIOUS
<1>1. T \in SUBSET Nat /\ T # {}
  BY <1>0
<1>2. PICK k \in T : \A j \in T : k <= j
  <2> HIDE DEF T
  <2> QED
    BY <1>1, NatHasLeast
<1>3. PICK i \in S : k = n - i
  BY <1>2
<1>4. \A j \in S : j <= i
  <2>1. ASSUME NEW j \in S PROVE j <= i
    <3>1. k <= n - j
      BY <1>2
    <3>2. n \in Nat /\ i \in Nat /\ j \in Nat
      BY <1>0, <1>3
    <3> QED
      BY <1>3, <3>1, <3>2
  <2> QED
    BY <2>1
<1>5. \E x \in S : \A y \in S : x >= y
  BY <1>3, <1>4
<1> QED
  BY <1>5 DEF Max

\* out has what the first n of a list have at some places, in their order: e says
\* which of them each comes from.
PicksTo(e, list, places, out, n) ==
  /\ e \in [1..Len(out) -> 1..n]
  /\ \A m \in 1..Len(out) : e[m] \in places /\ out[m] = list[e[m]]
  /\ \A m, l \in 1..Len(out) : m < l => e[m] < e[l]
  /\ \A i \in 1..n : i \in places => \E m \in 1..Len(out) : e[m] = i

Picked(list, places, out, n) == \E e : PicksTo(e, list, places, out, n)

\* One more of them is kept, or is not.
LEMMA OneMorePicked ==
  ASSUME NEW C, NEW list \in Seq(C), NEW places, NEW n \in 1..Len(list), NEW out \in Seq(C),
         Picked(list, places, out, n - 1), NEW more,
         more = IF n \in places THEN Append(out, list[n]) ELSE out
  PROVE  more \in Seq(C) /\ Picked(list, places, more, n)
<1>1. PICK e : PicksTo(e, list, places, out, n - 1)
  BY DEF Picked
<1>2. PICK k \in Nat : k = Len(out)
  OBVIOUS
<1>3. /\ e \in [1..k -> 1..(n - 1)] /\ \A m \in 1..k : e[m] \in places /\ out[m] = list[e[m]]
      /\ \A m, l \in 1..k : m < l => e[m] < e[l]
      /\ \A i \in 1..(n - 1) : i \in places => \E m \in 1..k : e[m] = i
  BY <1>1, <1>2 DEF PicksTo
<1>4. n \in Nat /\ list[n] \in C
  OBVIOUS
<1>5. CASE n \notin places
  <2>1. more = out
    BY <1>5
  <2>2. \A m \in 1..k : e[m] \in 1..n
    BY <1>3, <1>4
  <2>3. e \in [1..k -> 1..n]
    BY <1>3, <2>2
  <2>4. \A i \in 1..n : i \in places => i \in 1..(n - 1)
    BY <1>4, <1>5
  <2>5. PicksTo(e, list, places, out, n)
    BY <1>2, <1>3, <2>3, <2>4 DEF PicksTo
  <2> QED
    BY <2>1, <2>5 DEF Picked
<1>6. CASE n \in places
  <2>1. more = Append(out, list[n])
    BY <1>6
  <2>2. more \in Seq(C) /\ Len(more) = k + 1 /\ more[k + 1] = list[n]
        /\ \A m \in 1..k : more[m] = out[m]
    BY <1>2, <1>4, <2>1
  <2>3. PICK f : f = [m \in 1..(k + 1) |-> IF m = k + 1 THEN n ELSE e[m]]
    OBVIOUS
  <2>4. f[k + 1] = n /\ DOMAIN f = 1..(k + 1) /\ \A m \in 1..k : f[m] = e[m]
    BY <2>3
  <2>5. \A m \in 1..(k + 1) : m = k + 1 \/ m \in 1..k
    OBVIOUS
  <2>6. \A m \in 1..k : e[m] \in 1..n /\ e[m] < n
    BY <1>3, <1>4
  <2>7. \A m \in 1..(k + 1) : f[m] \in 1..n /\ f[m] \in places /\ more[m] = list[f[m]]
    BY <1>3, <1>4, <1>6, <2>2, <2>4, <2>5, <2>6
  <2>8. f \in [1..(k + 1) -> 1..n]
    BY <2>3, <2>7
  <2>9. ASSUME NEW m \in 1..(k + 1), NEW l \in 1..(k + 1), m < l PROVE f[m] < f[l]
    <3>1. m \in 1..k
      BY <2>9
    <3>2. CASE l = k + 1
      BY <2>4, <2>6, <3>1, <3>2
    <3>3. CASE l \in 1..k
      BY <1>3, <2>4, <2>9, <3>1, <3>3
    <3> QED
      BY <2>5, <3>2, <3>3
  <2>10. ASSUME NEW i \in 1..n, i \in places PROVE \E m \in 1..(k + 1) : f[m] = i
    <3>1. CASE i = n
      BY <2>4, <3>1
    <3>2. CASE i # n
      <4>1. i \in 1..(n - 1)
        BY <1>4, <3>2
      <4>2. PICK m \in 1..k : e[m] = i
        BY <1>3, <2>10, <4>1
      <4> QED
        BY <2>4, <4>2
    <3> QED
      BY <3>1, <3>2
  <2>11. PicksTo(f, list, places, more, n)
    BY <2>2, <2>7, <2>8, <2>9, <2>10 DEF PicksTo
  <2> QED
    BY <2>2, <2>11 DEF Picked
<1> QED
  BY <1>5, <1>6

\* At gives what is at the places, in their order.
LEMMA AtPicks ==
  ASSUME NEW C, NEW list \in Seq(C), NEW places
  PROVE  At(list, places) \in Seq(C) /\ Picked(list, places, At(list, places), Len(list))
<1> DEFINE N == Len(list)
           S == Seq(C)
<1>1. N \in Nat /\ <<>> \in S /\ \A i \in 1..N : list[i] \in C
  OBVIOUS
<1>2. PICK step :
        step = [i \in 1..N |-> [x \in S |-> IF i \in places THEN Append(x, list[i]) ELSE x]]
  OBVIOUS
<1>3. step \in [1..N -> [S -> S]]
  <2>1. ASSUME NEW i \in 1..N, NEW x \in S PROVE Append(x, list[i]) \in S
    BY <1>1
  <2> HIDE DEF S, N
  <2> QED
    BY <1>2, <2>1
<1> HIDE DEF S
<1>4. PICK f \in [0..N -> S] : IsFold(f, <<>>, N, step)
  BY <1>1, <1>3, Folded
<1>5. f = [n \in 0..N |-> IF n = 0 THEN <<>>
                          ELSE IF n \in places THEN Append(f[n - 1], list[n]) ELSE f[n - 1]]
  <2>1. ASSUME NEW i \in 0..N
        PROVE  f[i] = IF i = 0 THEN <<>>
                      ELSE IF i \in places THEN Append(f[i - 1], list[i]) ELSE f[i - 1]
    <3>1. CASE i = 0
      BY <1>4, <3>1 DEF IsFold
    <3>2. CASE i # 0
      <4>1. i \in 1..N /\ i - 1 \in 0..N
        BY <1>1, <3>2
      <4>2. f[i] = step[i][f[i - 1]] /\ f[i - 1] \in S
        BY <1>4, <4>1 DEF IsFold
      <4> QED
        BY <1>2, <3>2, <4>1, <4>2
    <3> QED
      BY <3>1, <3>2
  <2> QED
    BY <1>4, <2>1
<1>6. PICK g : /\ g = [n \in 0..N |-> IF n = 0 THEN <<>>
                                      ELSE IF n \in places THEN Append(g[n - 1], list[n])
                                      ELSE g[n - 1]]
               /\ At(list, places) = g[N]
  BY <1>5 DEF At
<1> DEFINE P == {n \in 0..N : g[n] \in Seq(C) /\ Picked(list, places, g[n], n)}
<1>7. 0 \in P
  <2>1. g[0] = <<>>
    BY <1>1, <1>6
  <2>2. PicksTo(<<>>, list, places, <<>>, 0)
    BY DEF PicksTo
  <2> QED
    BY <1>1, <2>1, <2>2 DEF Picked
<1>8. ASSUME NEW n \in 1..N, n - 1 \in P PROVE n \in P
  <2>1. PICK out \in Seq(C) : out = g[n - 1]
    BY <1>8
  <2>6. n \in 0..N /\ n # 0
    BY <1>1
  <2>7. g[n] = IF n \in places THEN Append(g[n - 1], list[n]) ELSE g[n - 1]
    <3> HIDE DEF P
    <3> QED
      BY <1>6, <2>6
  <2>2. g[n] = IF n \in places THEN Append(out, list[n]) ELSE out
    BY <2>1, <2>7
  <2>3. Picked(list, places, out, n - 1) /\ n \in 0..N
    BY <1>1, <1>8, <2>1
  <2>4. PICK more : more = g[n]
    OBVIOUS
  <2>5. more \in Seq(C) /\ Picked(list, places, more, n)
    BY <2>2, <2>3, <2>4, OneMorePicked
  <2> QED
    BY <2>3, <2>4, <2>5
<1>9. N \in P
  <2>1. PICK len \in Nat : len = N
    BY <1>1
  <2> HIDE DEF P, N
  <2>2. \A n \in 1..len : n - 1 \in P => n \in P
    BY <1>8, <2>1
  <2>3. \A n \in 0..len : n \in P
    BY <1>7, <2>2, UpTo
  <2>4. len \in P
    BY <2>3
  <2> QED
    BY <2>1, <2>4
<1> QED
  BY <1>6, <1>9

\* A piece that lies in a whole, d places in.
LiesIn(piece, whole, d) ==
  d + Len(piece) <= Len(whole) /\ \A i \in 1..Len(piece) : whole[d + i] = piece[i]

\* A place of the whole is a separator's, or one of the first n pieces lies over it, at
\* the whole's beginning or behind a separator.
Covered(parts, between, whole, n) ==
  \A i \in 1..Len(whole) :
    \/ whole[i] = between
    \/ \E k \in 1..n, d \in Nat :
         /\ LiesIn(parts[k], whole, d) /\ i \in (d + 1)..(d + Len(parts[k]))
         /\ d = 0 \/ whole[d] = between

\* A whole of k elements, followed by l more.
TwoParts(s, k, t, l, whole) ==
  /\ Len(whole) = k + l
  /\ \A i \in 1..k : whole[i] = s[i]
  /\ \A i \in 1..l : whole[k + i] = t[i]

\* One list after the other.
LEMMA PutTogether ==
  ASSUME NEW C, NEW s \in Seq(C), NEW t \in Seq(C),
         NEW k \in Nat, k = Len(s), NEW l \in Nat, l = Len(t)
  PROVE  s \o t \in Seq(C) /\ TwoParts(s, k, t, l, s \o t)
<1>1. s \o t \in Seq(C) /\ Len(s \o t) = k + l
  OBVIOUS
<1>2. \A i \in 1..k : (s \o t)[i] = s[i]
  OBVIOUS
<1>3. ASSUME NEW i \in 1..l PROVE (s \o t)[k + i] = t[i]
  <2>1. k + i \in 1..(k + l) /\ ~(k + i <= k) /\ (k + i) - k = i
    OBVIOUS
  <2> QED
    BY <2>1
<1> QED
  BY <1>1, <1>2, <1>3 DEF TwoParts

\* The next piece, after a separator if there was anything before.
LEMMA OneMoreJoined ==
  ASSUME NEW C, NEW between \in C, NEW texts \in Seq(Seq(C)), NEW n \in 1..Len(texts),
         NEW out \in Seq(C), Covered(texts, between, out, n - 1), NEW more,
         more = IF out = <<>> THEN texts[n] ELSE out \o <<between>> \o texts[n]
  PROVE  more \in Seq(C) /\ Covered(texts, between, more, n)
<1>1. PICK text \in Seq(C) : text = texts[n]
  OBVIOUS
<1>2. PICK t \in Nat, k \in Nat : t = Len(text) /\ k = Len(out)
  OBVIOUS
<1>3. n \in Nat /\ n \in 1..n /\ \A l \in 1..(n - 1) : l \in 1..n /\ texts[l] \in Seq(C)
  OBVIOUS
<1>4. CASE out = <<>>
  <2>1. more = text
    BY <1>1, <1>4
  <2>2. 0 + t <= t /\ \A i \in 1..t : 0 + i = i /\ i \in (0 + 1)..(0 + t)
    OBVIOUS
  <2>3. LiesIn(text, more, 0)
    BY <1>2, <2>1, <2>2 DEF LiesIn
  <2>4. 0 \in Nat /\ Len(more) = t
    BY <1>2, <2>1
  <2> QED
    BY <1>1, <1>2, <1>3, <2>1, <2>2, <2>3, <2>4 DEF Covered
<1>5. CASE out # <<>>
  <2>1. PICK head : head = out \o <<between>>
    OBVIOUS
  <2>2. /\ head \in Seq(C) /\ Len(head) = k + 1 /\ head[k + 1] = between
        /\ \A i \in 1..k : head[i] = out[i]
    BY <1>2, <2>1
  <2>3. more = head \o text
    BY <1>1, <1>5, <2>1
  <2>9. PICK c \in Nat : c = k + 1
    OBVIOUS
  <2>4. /\ more \in Seq(C) /\ Len(more) = c + t
        /\ \A i \in 1..c : more[i] = head[i]
        /\ \A i \in 1..t : more[c + i] = text[i]
    <3>1. c = Len(head)
      BY <2>2, <2>9
    <3>2. head \in Seq(C) /\ t = Len(text)
      BY <1>2, <2>2
    <3>3. head \o text \in Seq(C) /\ TwoParts(head, c, text, t, head \o text)
      BY <3>1, <3>2, PutTogether
    <3> QED
      BY <2>3, <3>3 DEF TwoParts
  <2>5. more[c] = between /\ \A i \in 1..k : more[i] = out[i]
    <3>1. c \in 1..c /\ \A i \in 1..k : i \in 1..c
      BY <2>9
    <3> QED
      BY <2>2, <2>4, <2>9, <3>1
  <2>6. LiesIn(text, more, c)
    <3>1. c + t <= c + t
      OBVIOUS
    <3>2. c + Len(text) <= Len(more)
      BY <1>2, <2>4, <3>1
    <3> QED
      BY <1>2, <2>4, <3>2 DEF LiesIn
  <2>7. ASSUME NEW piece \in Seq(C), NEW d \in Nat, LiesIn(piece, out, d)
        PROVE  LiesIn(piece, more, d)
    <3>1. PICK p \in Nat : p = Len(piece)
      OBVIOUS
    <3>2. d + p <= k /\ \A i \in 1..p : out[d + i] = piece[i] /\ d + i \in 1..k
      BY <1>2, <2>7, <3>1 DEF LiesIn
    <3>3. d + p <= c + t
      BY <2>9, <3>2
    <3> QED
      BY <2>4, <2>5, <3>1, <3>2, <3>3 DEF LiesIn
  <2>8. ASSUME NEW i \in 1..Len(more), more[i] # between
        PROVE  \E l \in 1..n, d \in Nat :
                 /\ LiesIn(texts[l], more, d) /\ i \in (d + 1)..(d + Len(texts[l]))
                 /\ d = 0 \/ more[d] = between
    <3>1. i \in 1..k \/ i = c \/ i \in (c + 1)..(c + t)
      <4>1. i \in 1..(c + t)
        BY <2>4
      <4> QED
        BY <2>9, <4>1
    <3>2. CASE i \in 1..k
      <4>1. PICK l \in 1..(n - 1), d \in Nat :
              /\ LiesIn(texts[l], out, d) /\ i \in (d + 1)..(d + Len(texts[l]))
              /\ d = 0 \/ out[d] = between
        BY <1>2, <2>5, <2>8, <3>2 DEF Covered
      <4>2. LiesIn(texts[l], more, d)
        BY <1>3, <2>7, <4>1
      <4>3. Len(texts[l]) \in Nat /\ d + Len(texts[l]) <= k
        BY <1>2, <1>3, <4>1 DEF LiesIn
      <4>4. d = 0 \/ d \in 1..k
        BY <4>3
      <4>5. d = 0 \/ more[d] = between
        BY <2>5, <4>1, <4>4
      <4> QED
        BY <1>3, <4>1, <4>2, <4>5
    <3>3. CASE i \in (c + 1)..(c + t)
      <4>1. n \in 1..n /\ c \in Nat
        BY <1>1, <1>2
      <4>2. i \in (c + 1)..(c + Len(texts[n]))
        BY <1>1, <1>2, <3>3
      <4>3. LiesIn(texts[n], more, c)
        BY <1>1, <2>6
      <4> QED
        BY <2>5, <4>1, <4>2, <4>3
    <3> QED
      BY <2>5, <2>8, <3>1, <3>2, <3>3
  <2> QED
    BY <2>4, <2>8 DEF Covered
<1> QED
  BY <1>4, <1>5

\* Joined has nothing but the pieces and separators.
LEMMA JoinedCovers ==
  ASSUME NEW C, NEW between \in C, NEW texts \in Seq(Seq(C))
  PROVE  /\ Joined(texts, between) \in Seq(C)
         /\ Covered(texts, between, Joined(texts, between), Len(texts))
<1> DEFINE N == Len(texts)
           S == Seq(C)
<1>1. N \in Nat /\ <<>> \in S /\ \A i \in 1..N : texts[i] \in S
  OBVIOUS
<1>2. PICK step :
        step = [i \in 1..N |-> [x \in S |-> IF x = <<>> THEN texts[i]
                                            ELSE x \o <<between>> \o texts[i]]]
  OBVIOUS
<1>3. step \in [1..N -> [S -> S]]
  <2>1. ASSUME NEW i \in 1..N, NEW x \in S PROVE x \o <<between>> \o texts[i] \in S
    BY <1>1
  <2> HIDE DEF S, N
  <2> QED
    BY <1>1, <1>2, <2>1
<1> HIDE DEF S
<1>4. PICK f \in [0..N -> S] : IsFold(f, <<>>, N, step)
  BY <1>1, <1>3, Folded
<1>5. f = [n \in 0..N |-> IF n = 0 THEN <<>>
                          ELSE IF f[n - 1] = <<>> THEN texts[n]
                          ELSE f[n - 1] \o <<between>> \o texts[n]]
  <2>1. ASSUME NEW i \in 0..N
        PROVE  f[i] = IF i = 0 THEN <<>>
                      ELSE IF f[i - 1] = <<>> THEN texts[i]
                      ELSE f[i - 1] \o <<between>> \o texts[i]
    <3>1. CASE i = 0
      BY <1>4, <3>1 DEF IsFold
    <3>2. CASE i # 0
      <4>1. i \in 1..N /\ i - 1 \in 0..N
        BY <1>1, <3>2
      <4>2. f[i] = step[i][f[i - 1]] /\ f[i - 1] \in S
        BY <1>4, <4>1 DEF IsFold
      <4> QED
        BY <1>2, <3>2, <4>1, <4>2
    <3> QED
      BY <3>1, <3>2
  <2> QED
    BY <1>4, <2>1
<1>6. PICK g : /\ g = [n \in 0..N |-> IF n = 0 THEN <<>>
                                      ELSE IF g[n - 1] = <<>> THEN texts[n]
                                      ELSE g[n - 1] \o <<between>> \o texts[n]]
               /\ Joined(texts, between) = g[N]
  BY <1>5 DEF Joined
<1> DEFINE P == {n \in 0..N : g[n] \in Seq(C) /\ Covered(texts, between, g[n], n)}
<1>7. 0 \in P
  <2>1. g[0] = <<>>
    BY <1>1, <1>6
  <2>2. Len(<<>>) = 0
    OBVIOUS
  <2>3. Covered(texts, between, <<>>, 0)
    BY <2>2 DEF Covered
  <2>4. <<>> \in Seq(C) /\ 0 \in 0..N
    BY <1>1
  <2> QED
    BY <1>1, <2>1, <2>3, <2>4
<1>8. ASSUME NEW n \in 1..N, n - 1 \in P PROVE n \in P
  <2>1. PICK out \in Seq(C) : out = g[n - 1]
    BY <1>8
  <2>2. n \in 0..N /\ n # 0
    BY <1>1
  <2>3. Covered(texts, between, out, n - 1)
    BY <1>8, <2>1
  <2>4. PICK more : more = g[n]
    OBVIOUS
  <2>5. more = IF g[n - 1] = <<>> THEN texts[n] ELSE g[n - 1] \o <<between>> \o texts[n]
    <3> HIDE DEF P
    <3> QED
      BY <1>6, <2>2, <2>4
  <2>6. more \in Seq(C) /\ Covered(texts, between, more, n)
    BY <2>1, <2>3, <2>5, OneMoreJoined
  <2> QED
    BY <2>2, <2>4, <2>6
<1>9. N \in P
  <2>1. PICK len \in Nat : len = N
    BY <1>1
  <2> HIDE DEF P, N
  <2>2. \A n \in 1..len : n - 1 \in P => n \in P
    BY <1>8, <2>1
  <2>3. \A n \in 0..len : n \in P
    BY <1>7, <2>2, UpTo
  <2>4. len \in P
    BY <2>3
  <2> QED
    BY <2>1, <2>4
<1> QED
  BY <1>6, <1>9

-----------------------------------------------------------------------------
(* The texts of an answer: each conversion gives a text, of characters that *)
(* were there.                                                              *)

Classes == Printable \cup {"hidden"}
Chars(A) == [ch : Classes, at : A]

\* A text is a list of characters, each a class and a place.
LEMMA TextsAreLists ==
  ASSUME NEW A, NEW text \in Texts(A)
  PROVE  /\ text \in Seq(Chars(A)) /\ Len(text) \in Nat /\ DOMAIN text = 1..Len(text)
         /\ \A i \in DOMAIN text :
              /\ text[i] \in Chars(A) /\ text[i].ch \in Classes /\ text[i].at \in A
              /\ text[i] = [ch |-> text[i].ch, at |-> text[i].at]
<1>1. text \in Seq(Chars(A))
  BY DEF Texts, Chars, Classes
<1>2. Len(text) \in Nat /\ DOMAIN text = 1..Len(text) /\ \A i \in DOMAIN text : text[i] \in Chars(A)
  BY <1>1
<1>3. \A char \in Chars(A) : /\ char.ch \in Classes /\ char.at \in A
                             /\ char = [ch |-> char.ch, at |-> char.at]
  BY DEF Chars
<1> QED
  BY <1>1, <1>2, <1>3

\* Cleaning gives a text.
LEMMA CleanIsText ==
  ASSUME NEW A, NEW text \in Texts(A)
  PROVE  Clean(text) \in Texts(A)
<1> DEFINE keep == {i \in DOMAIN text :
                      \/ text[i].ch \in VisibleChars
                      \/ text[i].ch \in Printable /\ ~BetweenKeyCharacters(text, i)}
<1>1. text \in Seq(Chars(A))
  BY TextsAreLists
<1> HIDE DEF keep
<1>2. At(text, keep) \in Seq(Chars(A))
  BY <1>1, AtPicks
<1> QED
  BY <1>2 DEF keep, Clean, Texts, Chars, Classes

\* Where a match was there is a mark; every other character is what it was, and of a text
\* that is not blank something stays that is not.
LEMMA SealShows ==
  ASSUME NEW A, NEW text \in Texts(A), NEW matched \in SUBSET DOMAIN text
  PROVE  /\ Sealed(text, matched) \in Texts(A)
         /\ \A m \in DOMAIN Sealed(text, matched) : \E i \in DOMAIN text :
              Sealed(text, matched)[m] =
                IF i \in matched THEN [ch |-> "redacted", at |-> text[i].at] ELSE text[i]
         /\ (\E i \in DOMAIN text : text[i].ch # "blank") =>
              \E m \in DOMAIN Sealed(text, matched) : Sealed(text, matched)[m].ch # "blank"
<1> DEFINE marked == [i \in DOMAIN text |->
                        IF i \in matched THEN [ch |-> "redacted", at |-> text[i].at] ELSE text[i]]
           keep   == {i \in DOMAIN text : i \in matched => i - 1 \notin matched}
<1>1. PICK n \in Nat : n = Len(text)
  BY TextsAreLists
<1>2. DOMAIN text = 1..n /\ \A i \in 1..n : text[i] \in Chars(A) /\ text[i].at \in A
  BY <1>1, TextsAreLists
<1>3. marked \in [1..n -> Chars(A)]
  <2>1. ASSUME NEW at \in A PROVE [ch |-> "redacted", at |-> at] \in Chars(A)
    BY DEF Chars, Classes, Printable, VisibleChars
  <2> QED
    BY <1>2, <2>1
<1>4. PICK list, places : list = marked /\ places = keep
  OBVIOUS
<1>5. list \in Seq(Chars(A)) /\ Len(list) = n
  <2> HIDE DEF marked, keep
  <2>1. list \in [1..n -> Chars(A)]
    BY <1>3, <1>4
  <2> QED
    BY <2>1
<1>6. PICK out : out = At(list, places)
  OBVIOUS
<1>7. out \in Seq(Chars(A)) /\ Picked(list, places, out, n)
  BY <1>5, <1>6, AtPicks
<1>8. PICK e : PicksTo(e, list, places, out, n)
  BY <1>7 DEF Picked
<1>9. Sealed(text, matched) = out
  BY <1>4, <1>6 DEF Sealed
<1>10. DOMAIN out = 1..Len(out)
  BY <1>7
<1>11. \A m \in DOMAIN out : e[m] \in 1..n /\ out[m] = list[e[m]]
  BY <1>8, <1>10 DEF PicksTo
<1>12. \A i \in 1..n : i \in places => \E m \in DOMAIN out : out[m] = list[i]
  BY <1>8, <1>10 DEF PicksTo
<1>13. out \in Texts(A)
  BY <1>7 DEF Texts, Chars, Classes
<1>14. \A i \in 1..n :
         /\ list[i] = IF i \in matched THEN [ch |-> "redacted", at |-> text[i].at] ELSE text[i]
         /\ i \in places <=> (i \in matched => i - 1 \notin matched)
  BY <1>2, <1>4
<1> HIDE DEF marked, keep
<1>15. \A m \in DOMAIN out : \E i \in DOMAIN text :
         out[m] = IF i \in matched THEN [ch |-> "redacted", at |-> text[i].at] ELSE text[i]
  BY <1>2, <1>11, <1>14
<1>16. ASSUME NEW i \in 1..n, text[i].ch # "blank" PROVE \E m \in DOMAIN out : out[m].ch # "blank"
  <2>1. CASE i \notin matched
    <3>1. PICK m \in DOMAIN out : out[m] = text[i]
      BY <1>12, <1>14, <2>1
    <3> QED
      BY <1>16, <3>1
  <2>2. CASE i \in matched
    <3>1. matched \in SUBSET Nat /\ matched # {}
      BY <1>2, <2>2
    <3>2. PICK least : least = Min(matched)
      OBVIOUS
    <3>3. least \in matched /\ \A j \in matched : least <= j
      BY <3>1, <3>2, LeastIsMin
    <3>4. least \in 1..n /\ ~(least <= least - 1)
      BY <1>2, <3>3
    <3>5. least - 1 \notin matched
      BY <3>3, <3>4
    <3>6. PICK m \in DOMAIN out : out[m] = [ch |-> "redacted", at |-> text[least].at]
      BY <1>12, <1>14, <3>3, <3>4, <3>5
    <3> QED
      BY <3>6
  <2> QED
    BY <2>1, <2>2
<1> QED
  BY <1>2, <1>9, <1>13, <1>15, <1>16

\* Something is shown of a list where one of its characters stands as it came.
LEMMA ShownIsThere ==
  ASSUME NEW text, NEW at
  PROVE  at \in ShownPlaces(text) <=> \E char \in Range(text) : char.ch # "redacted" /\ char.at = at
BY DEF ShownPlaces, Range

\* A seal shows no more than there was.
LEMMA SealShowsNoMore ==
  ASSUME NEW A, NEW text \in Texts(A), NEW matched \in SUBSET DOMAIN text
  PROVE  ShownPlaces(Sealed(text, matched)) \subseteq {text[i].at : i \in DOMAIN text \ matched}
                                                        \cap ShownPlaces(text)
<1>1. PICK out : out = Sealed(text, matched)
  OBVIOUS
<1>2. ASSUME NEW m \in DOMAIN out, out[m].ch # "redacted"
      PROVE  \E i \in DOMAIN text \ matched : out[m].at = text[i].at /\ text[i].ch # "redacted"
  <2>1. PICK i \in DOMAIN text :
          out[m] = IF i \in matched THEN [ch |-> "redacted", at |-> text[i].at] ELSE text[i]
    BY <1>1, SealShows
  <2> QED
    BY <1>2, <2>1
<1> QED
  BY <1>1, <1>2 DEF ShownPlaces

LEMMA MatchesAreThere ==
  ASSUME NEW text
  PROVE  InKey(text) \in SUBSET DOMAIN text /\ InPhrase(text) \in SUBSET DOMAIN text
BY DEF InKey, InPhrase

\* The redaction, one rule after the other, gives a text, shows no more than there was, and
\* leaves something that is not blank of what was not.
LEMMA RedactShows ==
  ASSUME NEW A, NEW text \in Texts(A)
  PROVE  /\ Redact(text) \in Texts(A)
         /\ ShownPlaces(Redact(text)) \subseteq {text[i].at : i \in DOMAIN text \ InKey(text)}
         /\ (\E i \in DOMAIN text : text[i].ch # "blank") =>
              \E m \in DOMAIN Redact(text) : Redact(text)[m].ch # "blank"
         /\ text = <<>> => Redact(text) = <<>>
<1>1. PICK once : once = Sealed(text, InKey(text))
  OBVIOUS
<1>2. PICK out : out = Sealed(once, InPhrase(once))
  OBVIOUS
<1>3. Redact(text) = out
  BY <1>1, <1>2 DEF Redact, RedactWords
<1>4. InKey(text) \in SUBSET DOMAIN text /\ InPhrase(once) \in SUBSET DOMAIN once
  BY MatchesAreThere
<1>5. /\ once \in Texts(A)
      /\ \A m \in DOMAIN once : \E i \in DOMAIN text : TRUE
      /\ (\E i \in DOMAIN text : text[i].ch # "blank") => \E m \in DOMAIN once : once[m].ch # "blank"
      /\ ShownPlaces(once) \subseteq {text[i].at : i \in DOMAIN text \ InKey(text)}
  BY <1>1, <1>4, SealShows, SealShowsNoMore
<1>6. /\ out \in Texts(A)
      /\ \A m \in DOMAIN out : \E i \in DOMAIN once : TRUE
      /\ (\E i \in DOMAIN once : once[i].ch # "blank") => \E m \in DOMAIN out : out[m].ch # "blank"
      /\ ShownPlaces(out) \subseteq ShownPlaces(once)
  BY <1>2, <1>4, <1>5, SealShows, SealShowsNoMore
<1>7. ASSUME text = <<>> PROVE out = <<>>
  <2>1. DOMAIN out = {}
    BY <1>5, <1>6, <1>7
  <2>2. DOMAIN out = 1..Len(out) /\ Len(out) \in Nat /\ out \in Seq(Chars(A))
    BY <1>6, TextsAreLists
  <2> QED
    BY <2>1, <2>2
<1> QED
  BY <1>3, <1>5, <1>6, <1>7

\* What strip leaves is a stretch of the text, with all of it but blanks.
Stretch(s, text, d) ==
  /\ d + Len(s) <= Len(text)
  /\ \A i \in 1..Len(s) : s[i] = text[d + i]
  /\ \A i \in DOMAIN text : text[i].ch # "blank" => i \in (d + 1)..(d + Len(s))

LEMMA StripKeeps ==
  ASSUME NEW A, NEW text \in Texts(A)
  PROVE  /\ Strip(text) \in Texts(A)
         /\ Strip(text) = <<>> => \A i \in DOMAIN text : text[i].ch = "blank"
         /\ Strip(text) # <<>> => Len(Strip(text)) \in Nat \ {0} /\ Strip(text)[1].ch # "blank"
         /\ \E d \in Nat : Stretch(Strip(text), text, d)
<1> DEFINE there == {i \in DOMAIN text : text[i].ch # "blank"}
<1>1. PICK n \in Nat : n = Len(text)
  BY TextsAreLists
<1>2. /\ DOMAIN text = 1..n /\ text \in Seq(Chars(A))
      /\ there \subseteq 1..n /\ there \in SUBSET Nat /\ there \in SUBSET (0..n)
  BY <1>1, TextsAreLists
<1>3. CASE there = {}
  <2>1. Strip(text) = <<>>
    BY <1>3 DEF Strip
  <2>2. <<>> \in Texts(A) /\ Len(<<>>) = 0
    BY DEF Texts
  <2>3. 0 \in Nat /\ 0 + 0 <= n
    OBVIOUS
  <2>4. \A i \in DOMAIN text : text[i].ch = "blank"
    BY <1>3
  <2>5. \A i \in 1..0 : <<>>[i] = text[0 + i]
    OBVIOUS
  <2>6. Stretch(<<>>, text, 0)
    BY <1>1, <2>2, <2>3, <2>4, <2>5 DEF Stretch
  <2> QED
    BY <1>1, <2>1, <2>2, <2>3, <2>4, <2>5, <2>6
<1>4. CASE there # {}
  <2>1. PICK low, high : low = Min(there) /\ high = Max(there)
    OBVIOUS
  <2> HIDE DEF there
  <2>2. low \in there /\ \A i \in there : low <= i
    BY <1>2, <1>4, <2>1, LeastIsMin
  <2>3. high \in there /\ \A i \in there : i <= high
    BY <1>2, <1>4, <2>1, GreatestIsMax
  <2>4. low \in 1..n /\ high \in 1..n /\ low <= high
    BY <1>2, <2>2, <2>3
  <2>5. PICK s : s = SubSeq(text, low, high)
    OBVIOUS
  <2>6. Strip(text) = s
    BY <1>4, <2>1, <2>5 DEF Strip, there
  <2>7. PICK d \in Nat, l \in Nat : d = low - 1 /\ l = high - low + 1
    BY <2>4
  <2>8. Len(s) = l /\ s \in Seq(Chars(A)) /\ \A i \in 1..l : s[i] = text[low + i - 1]
    BY <1>1, <1>2, <2>4, <2>5, <2>7
  <2>9. \A i \in 1..l : low + i - 1 = d + i
    BY <2>4, <2>7
  <2>10. l # 0 /\ d + l <= n /\ d + l = high /\ d + 1 = low
    BY <2>4, <2>7
  <2>11. s \in Texts(A)
    BY <2>8 DEF Texts, Chars, Classes
  <2>12. 1 \in 1..l
    BY <2>10
  <2>13. s[1].ch # "blank"
    BY <2>2, <2>8, <2>9, <2>10, <2>12 DEF there
  <2>14. s # <<>>
    BY <2>8, <2>10
  <2>15. \A i \in DOMAIN text : text[i].ch # "blank" => i \in (d + 1)..(d + l)
    <3>1. ASSUME NEW i \in there PROVE i \in (d + 1)..(d + l)
      BY <1>2, <2>2, <2>3, <2>10
    <3> QED
      BY <3>1 DEF there
  <2>16. Stretch(s, text, d)
    BY <1>1, <2>8, <2>9, <2>10, <2>15 DEF Stretch
  <2> QED
    BY <2>6, <2>8, <2>10, <2>11, <2>13, <2>14, <2>16
<1> QED
  BY <1>3, <1>4

\* The places of its characters, and of those the conversions put between.
PlacesOf(content) ==
  {NoPlace} \cup UNION {{char.at : char \in Range(text)} : text \in RawTexts(content)}

\* The texts of an answer as it came are texts.
LEMMA RawTextsAreTexts ==
  ASSUME NEW content, IsAnswer(content), NEW text \in RawTexts(content)
  PROVE  text \in Texts(PlacesOf(content))
<1> DEFINE B == {char.at : char \in Range(text)}
           A == PlacesOf(content)
<1>1. text \in Texts(B)
  BY DEF IsAnswer
<1>2. B \subseteq A
  BY DEF PlacesOf
<1> HIDE DEF A, B
<1>3. Chars(B) \subseteq Chars(A)
  BY <1>2 DEF Chars
<1>4. text \in Seq(Chars(B))
  BY <1>1, TextsAreLists
<1>5. text \in Seq(Chars(A))
  BY <1>3, <1>4
<1> QED
  BY <1>5 DEF Texts, Chars, Classes, A

\* The texts of the items that carry one, in order.
CarriedTexts(items) ==
  LET carried == At(items, {i \in DOMAIN items : items[i].kind \in TextKinds})
  IN  [i \in DOMAIN carried |-> carried[i].text]

\* The texts put together are texts of the answer.
LEMMA CarriedTextsAreRaw ==
  ASSUME NEW content, IsAnswer(content)
  PROVE  /\ CarriedTexts(content.items) \in Seq(Texts(PlacesOf(content)))
         /\ \A i \in DOMAIN CarriedTexts(content.items) : CarriedTexts(content.items)[i] \in RawTexts(content)
<1> DEFINE R == RawTexts(content)
           T == Texts(PlacesOf(content))
<1>1. PICK items, places : items = content.items /\ places = {i \in DOMAIN items : items[i].kind \in TextKinds}
  OBVIOUS
<1>2. PICK out : out = At(items, places)
  OBVIOUS
<1>3. items \in Seq(Range(items))
  BY <1>1 DEF IsAnswer
<1>4. PICK n \in Nat : n = Len(items)
  BY <1>3
<1>5. DOMAIN items = 1..n
  BY <1>3, <1>4
<1>6. out \in Seq(Range(items)) /\ Picked(items, places, out, n)
  BY <1>2, <1>3, <1>4, AtPicks
<1>7. PICK e : PicksTo(e, items, places, out, n)
  BY <1>6 DEF Picked
<1>8. PICK m \in Nat : m = Len(out)
  BY <1>6
<1>9. DOMAIN out = 1..m
  BY <1>6, <1>8
<1>10. \A i \in 1..m : e[i] \in places /\ out[i] = items[e[i]]
  BY <1>7, <1>8 DEF PicksTo
<1>11. \A i \in 1..m : out[i].text \in R
  BY <1>1, <1>10 DEF RawTexts
<1>12. \A text \in R : text \in T
  BY RawTextsAreTexts
<1>13. PICK texts : texts = [i \in 1..m |-> out[i].text]
  OBVIOUS
<1>14. CarriedTexts(content.items) = texts
  BY <1>1, <1>2, <1>9, <1>13 DEF CarriedTexts
<1> HIDE DEF R, T
<1>15. DOMAIN texts = 1..m /\ \A i \in 1..m : texts[i] \in R /\ texts[i] \in T
  BY <1>11, <1>12, <1>13
<1>16. texts \in Seq(T)
  BY <1>13, <1>15
<1> QED
  BY <1>14, <1>15, <1>16 DEF R, T

\* Writing out changes no place, and no mark of the redaction.
LEMMA EscapedIsText ==
  ASSUME NEW A, NEW text \in Texts(A)
  PROVE  /\ Escaped(text) \in Texts(A) /\ DOMAIN Escaped(text) = DOMAIN text
         /\ \A i \in DOMAIN text :
              /\ Escaped(text)[i].at = text[i].at
              /\ text[i].ch = "redacted" => Escaped(text)[i].ch = "redacted"
<1>1. PICK n \in Nat : n = Len(text)
  BY TextsAreLists
<1>2. /\ DOMAIN text = 1..n
      /\ \A i \in 1..n : /\ text[i] \in Chars(A) /\ text[i].at \in A
                         /\ text[i] = [ch |-> text[i].ch, at |-> text[i].at]
  BY <1>1, TextsAreLists
<1>3. PICK out : out = [i \in 1..n |-> IF text[i].ch = "hidden" THEN [text[i] EXCEPT !.ch = "sign"]
                                       ELSE text[i]]
  OBVIOUS
<1>4. Escaped(text) = out
  BY <1>2, <1>3 DEF Escaped
<1>5. ASSUME NEW i \in 1..n
      PROVE  /\ out[i] \in Chars(A) /\ out[i].at = text[i].at
             /\ text[i].ch = "redacted" => out[i].ch = "redacted"
  <2>1. PICK char : char = text[i]
    OBVIOUS
  <2>2. char = [ch |-> char.ch, at |-> char.at] /\ char.at \in A /\ char \in Chars(A)
    BY <1>2, <2>1
  <2>3. CASE char.ch = "hidden"
    <3>1. out[i] = [ch |-> "sign", at |-> char.at]
      BY <1>3, <2>1, <2>2, <2>3
    <3>2. out[i].ch = "sign" /\ out[i].at = char.at
      BY <3>1
    <3>3. out[i] \in Chars(A)
      BY <2>2, <3>1 DEF Chars, Classes, Printable, VisibleChars
    <3> QED
      BY <2>1, <2>3, <3>2, <3>3
  <2>4. CASE char.ch # "hidden"
    BY <1>3, <2>1, <2>2, <2>4
  <2> QED
    BY <2>3, <2>4
<1>6. DOMAIN out = 1..n /\ out \in Seq(Chars(A))
  <2>1. DOMAIN out = 1..n /\ out = [i \in 1..n |-> out[i]]
    BY <1>3
  <2> QED
    BY <1>5, <2>1
<1>7. out \in Texts(A)
  BY <1>6 DEF Texts, Chars, Classes
<1> QED
  BY <1>2, <1>4, <1>5, <1>6, <1>7

\* The separators are characters.
LEMMA BetweenIsChar ==
  ASSUME NEW A, NoPlace \in A
  PROVE  /\ Quote \in Chars(A) /\ Break \in Chars(A) /\ Quote.at = NoPlace /\ Break.at = NoPlace
         /\ Break.ch \in VisibleChars \ WordChars
  BY DEF Quote, Break, Chars, Classes, Printable, VisibleChars, WordChars, CredentialAlphabet

\* What one list and another hold, and no more, is in the two together.
LEMMA RangeOfBoth ==
  ASSUME NEW C, NEW s \in Seq(C), NEW t \in Seq(C)
  PROVE  s \o t \in Seq(C) /\ Range(s \o t) \subseteq Range(s) \cup Range(t)
<1>1. PICK k \in Nat, l \in Nat : k = Len(s) /\ l = Len(t)
  OBVIOUS
<1>2. s \o t \in Seq(C) /\ TwoParts(s, k, t, l, s \o t)
  BY <1>1, PutTogether
<1>3. PICK whole : whole = s \o t
  OBVIOUS
<1>4. /\ DOMAIN s = 1..k /\ DOMAIN t = 1..l /\ DOMAIN whole = 1..(k + l)
      /\ \A i \in 1..k : whole[i] = s[i]
      /\ \A i \in 1..l : whole[k + i] = t[i]
  BY <1>1, <1>2, <1>3 DEF TwoParts
<1>5. ASSUME NEW i \in 1..(k + l) PROVE whole[i] \in Range(s) \cup Range(t)
  <2>1. CASE i \in 1..k
    BY <1>4, <2>1 DEF Range
  <2>2. CASE ~(i \in 1..k)
    <3>1. PICK j \in 1..l : i = k + j
      <4>1. i - k \in 1..l /\ i = k + (i - k)
        BY <2>2
      <4> QED
        BY <4>1
    <3> QED
      BY <1>4, <3>1 DEF Range
  <2> QED
    BY <2>1, <2>2
<1> QED
  BY <1>2, <1>3, <1>4, <1>5 DEF Range

\* One key with its value, written out: what they hold, with quotes.
LEMMA WrittenHolds ==
  ASSUME NEW A, NoPlace \in A, NEW entry, entry.key \in Texts(A), entry.value \in Texts(A)
  PROVE  /\ Written(entry) \in Seq(Chars(A))
         /\ Range(Written(entry)) \subseteq
              {Quote} \cup Range(Escaped(entry.key)) \cup Range(Escaped(entry.value))
<1>1. PICK key, value : key = Escaped(entry.key) /\ value = Escaped(entry.value)
  OBVIOUS
<1>2. key \in Seq(Chars(A)) /\ value \in Seq(Chars(A))
  <2>1. key \in Texts(A) /\ value \in Texts(A)
    BY <1>1, EscapedIsText
  <2> QED
    BY <2>1, TextsAreLists
<1>3. PICK mark : mark = <<Quote>>
  OBVIOUS
<1>4. mark \in Seq(Chars(A)) /\ Range(mark) = {Quote}
  <2>1. Quote \in Chars(A)
    BY BetweenIsChar
  <2>2. DOMAIN <<Quote>> = {1} /\ <<Quote>>[1] = Quote
    OBVIOUS
  <2> QED
    BY <1>3, <2>1, <2>2 DEF Range
<1>5. PICK first : first = mark \o key
  OBVIOUS
<1>6. first \in Seq(Chars(A)) /\ Range(first) \subseteq {Quote} \cup Range(key)
  BY <1>2, <1>4, <1>5, RangeOfBoth
<1>7. PICK second : second = first \o mark
  OBVIOUS
<1>8. second \in Seq(Chars(A)) /\ Range(second) \subseteq {Quote} \cup Range(key)
  BY <1>4, <1>6, <1>7, RangeOfBoth
<1>9. second \o value \in Seq(Chars(A)) /\ Range(second \o value) \subseteq Range(second) \cup Range(value)
  BY <1>2, <1>8, RangeOfBoth
<1>10. Written(entry) = second \o value
  BY <1>1, <1>3, <1>5, <1>7 DEF Written
<1> QED
  BY <1>1, <1>8, <1>9, <1>10

\* A document of texts.
Entries(A) == Seq([key : Texts(A), value : Texts(A)])

\* What is written out is a text, and each of its characters a quote or one of an entry's.
LEMMA SerializedIsText ==
  ASSUME NEW A, NoPlace \in A, NEW entries \in Entries(A)
  PROVE  /\ Serialized(entries) \in Texts(A)
         /\ \A char \in Range(Serialized(entries)) :
              \/ char = Quote
              \/ \E e \in DOMAIN entries :
                   char \in Range(Escaped(entries[e].key)) \cup Range(Escaped(entries[e].value))
<1>1. PICK n \in Nat : n = Len(entries)
  BY DEF Entries
<1>2. DOMAIN entries = 1..n /\ \A e \in 1..n : entries[e].key \in Texts(A) /\ entries[e].value \in Texts(A)
  <2>1. PICK T : T = Texts(A)
    OBVIOUS
  <2>2. PICK R : R = [key : T, value : T]
    OBVIOUS
  <2>3. entries \in Seq(R)
    BY <2>1, <2>2 DEF Entries
  <2>4. DOMAIN entries = 1..n /\ \A e \in 1..n : entries[e] \in R
    BY <1>1, <2>3
  <2>5. \A e \in 1..n : entries[e].key \in T /\ entries[e].value \in T
    BY <2>2, <2>4
  <2> QED
    BY <2>1, <2>4, <2>5
<1>3. PICK texts : texts = [e \in 1..n |-> Written(entries[e])]
  OBVIOUS
<1>4. ASSUME NEW e \in 1..n
      PROVE  /\ texts[e] \in Seq(Chars(A))
             /\ Range(texts[e]) \subseteq
                  {Quote} \cup Range(Escaped(entries[e].key)) \cup Range(Escaped(entries[e].value))
  <2>1. PICK entry : entry = entries[e] /\ entry.key \in Texts(A) /\ entry.value \in Texts(A)
    BY <1>2
  <2>2. /\ Written(entry) \in Seq(Chars(A))
        /\ Range(Written(entry)) \subseteq
             {Quote} \cup Range(Escaped(entry.key)) \cup Range(Escaped(entry.value))
    BY <2>1, WrittenHolds
  <2> QED
    BY <1>3, <2>1, <2>2
<1>5. texts \in Seq(Seq(Chars(A))) /\ Len(texts) = n
  BY <1>3, <1>4
<1>6. Quote \in Chars(A)
  BY BetweenIsChar
<1>7. PICK whole : whole = Joined(texts, Quote)
  OBVIOUS
<1>8. whole \in Seq(Chars(A)) /\ Covered(texts, Quote, whole, n)
  BY <1>5, <1>6, <1>7, JoinedCovers
<1>9. Serialized(entries) = whole
  BY <1>2, <1>3, <1>7 DEF Serialized
<1>10. PICK w \in Nat : w = Len(whole) /\ DOMAIN whole = 1..w
  BY <1>8
<1>11. ASSUME NEW i \in 1..w, whole[i] # Quote
       PROVE  \E e \in 1..n :
                whole[i] \in Range(Escaped(entries[e].key)) \cup Range(Escaped(entries[e].value))
  <2>1. PICK e \in 1..n, d \in Nat :
          LiesIn(texts[e], whole, d) /\ i \in (d + 1)..(d + Len(texts[e]))
    BY <1>8, <1>10, <1>11 DEF Covered
  <2>2. PICK piece \in Seq(Chars(A)) : piece = texts[e]
    BY <1>4
  <2>3. PICK l \in Nat : l = Len(piece) /\ DOMAIN piece = 1..l
    OBVIOUS
  <2>4. PICK j \in 1..l : i = d + j
    <3>1. i - d \in 1..l /\ i = d + (i - d)
      BY <2>1, <2>2, <2>3
    <3> QED
      BY <3>1
  <2>5. whole[i] = piece[j]
    BY <2>1, <2>2, <2>3, <2>4 DEF LiesIn
  <2>6. piece[j] \in Range(piece)
    BY <2>3 DEF Range
  <2> QED
    BY <1>4, <1>11, <2>2, <2>5, <2>6
<1>12. \A char \in Range(whole) : \E i \in 1..w : char = whole[i]
  BY <1>10 DEF Range
<1>13. whole \in Texts(A)
  BY <1>8 DEF Texts, Chars, Classes
<1>14. ASSUME NEW char \in Range(whole)
       PROVE  \/ char = Quote
              \/ \E e \in DOMAIN entries :
                   char \in Range(Escaped(entries[e].key)) \cup Range(Escaped(entries[e].value))
  <2>1. PICK i \in 1..w : char = whole[i]
    BY <1>12
  <2> QED
    BY <1>2, <1>11, <2>1
<1> QED
  BY <1>9, <1>13, <1>14

\* What is carried is a text, and does not begin with a blank.
LEMMA CarriedIsText ==
  ASSUME NEW content, IsAnswer(content)
  PROVE  /\ CarriedText(content.items) \in Texts(PlacesOf(content))
         /\ CarriedText(content.items) # <<>> =>
              /\ Len(CarriedText(content.items)) \in Nat \ {0}
              /\ CarriedText(content.items)[1].ch # "blank"
<1>1. PICK A : A = PlacesOf(content)
  OBVIOUS
<1>2. PICK texts : texts = CarriedTexts(content.items)
  OBVIOUS
<1>3. texts \in Seq(Texts(A)) /\ Break \in Chars(A)
  BY <1>1, <1>2, CarriedTextsAreRaw, BetweenIsChar DEF PlacesOf
<1>4. texts \in Seq(Seq(Chars(A)))
  BY <1>3 DEF Texts, Chars, Classes
<1>5. PICK whole : whole = Joined(texts, Break)
  OBVIOUS
<1>6. whole \in Seq(Chars(A))
  BY <1>3, <1>4, <1>5, JoinedCovers
<1>7. whole \in Texts(A)
  BY <1>6 DEF Texts, Chars, Classes
<1>8. CarriedText(content.items) = Strip(Clean(whole))
  BY <1>2, <1>5 DEF CarriedText, CarriedTexts
<1>9. PICK clean : clean = Clean(whole)
  OBVIOUS
<1>10. clean \in Texts(A)
  BY <1>7, <1>9, CleanIsText
<1>11. /\ Strip(clean) \in Texts(A)
       /\ Strip(clean) # <<>> => Len(Strip(clean)) \in Nat \ {0} /\ Strip(clean)[1].ch # "blank"
  BY <1>10, StripKeeps
<1> QED
  BY <1>1, <1>8, <1>9, <1>11

\* What is shown of the text before a cut is blank only where nothing was carried.
LEMMA NothingBlankIsCarried ==
  ASSUME NEW content, IsAnswer(content), Strip(Redact(CarriedText(content.items))) = <<>>
  PROVE  Redact(CarriedText(content.items)) = <<>>
<1>1. PICK A, text : A = PlacesOf(content) /\ text = CarriedText(content.items)
  OBVIOUS
<1>2. /\ text \in Texts(A)
      /\ text # <<>> => Len(text) \in Nat \ {0} /\ text[1].ch # "blank"
  BY <1>1, CarriedIsText
<1>3. PICK out : out = Redact(text)
  OBVIOUS
<1>4. /\ out \in Texts(A) /\ (text = <<>> => out = <<>>)
      /\ (\E i \in DOMAIN text : text[i].ch # "blank") => \E m \in DOMAIN out : out[m].ch # "blank"
  BY <1>2, <1>3, RedactShows
<1>5. \A m \in DOMAIN out : out[m].ch = "blank"
  BY <1>1, <1>3, <1>4, StripKeeps
<1>6. text # <<>> => 1 \in DOMAIN text
  BY <1>2, TextsAreLists
<1> QED
  BY <1>1, <1>2, <1>3, <1>4, <1>5, <1>6

\* What a key or a value becomes is a text.
LEMMA ScrubIsText ==
  ASSUME NEW A, NEW text \in Texts(A)
  PROVE  Scrub(text) \in Texts(A)
<1>1. PICK clean : clean = Clean(text)
  OBVIOUS
<1>2. clean \in Texts(A)
  BY <1>1, CleanIsText
<1> QED
  BY <1>1, <1>2, RedactShows DEF Scrub

\* The keys and values that are kept are each what a text of the answer became.
LEMMA ScrubsAreOfTheAnswer ==
  ASSUME NEW content, IsAnswer(content)
  PROVE  /\ ScrubStrings(content.structured.entries) \in Entries(PlacesOf(content))
         /\ \A e \in DOMAIN ScrubStrings(content.structured.entries) :
              \E raw, other \in RawTexts(content) :
                /\ ScrubStrings(content.structured.entries)[e].key = Scrub(raw)
                /\ ScrubStrings(content.structured.entries)[e].value = Scrub(other)
<1> DEFINE S == {Scrub(raw) : raw \in RawTexts(content)}
<1>1. PICK entries : entries = content.structured.entries
  OBVIOUS
<1>2. /\ entries \in Seq(Range(entries))
      /\ \A entry \in Range(entries) : entry.key \in RawTexts(content) /\ entry.value \in RawTexts(content)
  BY <1>1 DEF IsAnswer, RawTexts
<1>3. PICK n \in Nat : n = Len(entries)
  BY <1>2
<1>4. DOMAIN entries = 1..n
  BY <1>2, <1>3
<1>5. \A e \in 1..n : entries[e].key \in RawTexts(content) /\ entries[e].value \in RawTexts(content)
  BY <1>2, <1>4 DEF Range
<1>6. ASSUME NEW e \in 1..n PROVE Max(SameKey(entries, e)) \in 1..n
  <2>1. e \in SameKey(entries, e)
    BY <1>4 DEF SameKey, Alike
  <2>2. SameKey(entries, e) \in SUBSET (0..n) /\ SameKey(entries, e) # {} /\ SameKey(entries, e) \subseteq 1..n
    BY <1>4, <2>1 DEF SameKey
  <2>3. PICK same : same = SameKey(entries, e)
    OBVIOUS
  <2>4. Max(same) \in same
    BY <2>2, <2>3, GreatestIsMax
  <2> QED
    BY <2>2, <2>3, <2>4
<1>7. PICK list : list = [e \in 1..n |-> [key   |-> Scrub(entries[e].key),
                                          value |-> Scrub(entries[Max(SameKey(entries, e))].value)]]
  OBVIOUS
<1>14. PICK R : R = [key : S, value : S]
  OBVIOUS
<1>8. ASSUME NEW e \in 1..n PROVE list[e] \in R
  <2>1. Scrub(entries[e].key) \in S
    BY <1>5
  <2>2. Scrub(entries[Max(SameKey(entries, e))].value) \in S
    BY <1>5, <1>6
  <2> HIDE DEF S
  <2>3. PICK key \in S, value \in S : list[e] = [key |-> key, value |-> value]
    BY <1>7, <2>1, <2>2
  <2> QED
    BY <1>14, <2>3
<1>9. S \subseteq Texts(PlacesOf(content))
  BY RawTextsAreTexts, ScrubIsText
<1> HIDE DEF S
<1>10. list \in Seq(R)
  BY <1>7, <1>8
<1>11. PICK places, out : places = {e \in DOMAIN entries : e = Min(SameKey(entries, e))}
                          /\ out = At(list, places)
  OBVIOUS
<1>12. out \in Seq(R)
  BY <1>10, <1>11, AtPicks
<1>13. ScrubStrings(entries) = out
  BY <1>4, <1>7, <1>11 DEF ScrubStrings
<1>15. \A e \in DOMAIN out : out[e].key \in S /\ out[e].value \in S
  <2>1. \A e \in DOMAIN out : out[e] \in R
    BY <1>12
  <2> QED
    BY <1>14, <2>1
<1>16. PICK T : T = [key : Texts(PlacesOf(content)), value : Texts(PlacesOf(content))]
  OBVIOUS
<1>17. out \in Entries(PlacesOf(content))
  <2>1. R \subseteq T
    BY <1>9, <1>14, <1>16
  <2>2. out \in Seq(T)
    BY <1>12, <2>1
  <2> QED
    BY <1>16, <2>2 DEF Entries
<1> QED
  BY <1>1, <1>13, <1>15, <1>17 DEF S

\* A structured answer comes to a text.
LEMMA StructuredIsText ==
  ASSUME NEW content, IsAnswer(content)
  PROVE  StructuredAnswer(content.structured).text \in Texts(PlacesOf(content))
<1>1. PICK A, entries : A = PlacesOf(content) /\ entries = ScrubStrings(content.structured.entries)
  OBVIOUS
<1>2. entries \in Entries(A) /\ NoPlace \in A
  BY <1>1, ScrubsAreOfTheAnswer DEF PlacesOf
<1>3. Serialized(entries) \in Texts(A)
  BY <1>2, SerializedIsText
<1>4. <<>> \in Texts(A)
  BY DEF Texts
<1>5. StructuredAnswer(content.structured).text =
        IF content.structured.unreadable THEN <<>> ELSE Serialized(entries)
  BY <1>1 DEF StructuredAnswer
<1> QED
  BY <1>1, <1>3, <1>4, <1>5

\* What a cut leaves: the start of the text, and the numbers for the whole answer.
CutTells(cut, A, text, offered, used) ==
  /\ cut.shown \in Texts(A) /\ Len(cut.shown) + used <= MaxResult
  /\ Len(cut.shown) <= Len(text)
  /\ \A i \in DOMAIN cut.shown : i \in DOMAIN text /\ cut.shown[i] = text[i]
  /\ \/ cut.shown = text /\ cut.sent = 0 /\ cut.told = 0
     \/ cut.shown # text /\ cut.sent = Len(text) + offered /\ cut.told = Len(cut.shown) + used

\* trim_result, for any text and any room.
LEMMA TrimTells ==
  ASSUME NEW A, NEW text \in Texts(A), NEW offered \in Nat, NEW used \in 0..MaxResult
  PROVE  CutTells(Trim(text, offered, used), A, text, offered, used)
<1>1. MaxResult \in Nat
  BY CapsAssumption
<1>2. PICK n \in Nat : n = Len(text)
  BY TextsAreLists
<1>3. PICK room \in Nat : room = MaxResult - used
  BY <1>1
<1>4. PICK cut : cut = Trim(text, offered, used)
  OBVIOUS
<1>5. text \in Seq(Chars(A)) /\ DOMAIN text = 1..n
  BY <1>2, TextsAreLists
<1>6. CASE n <= room
  <2>1. cut = [shown |-> text, sent |-> 0, told |-> 0]
    BY <1>2, <1>3, <1>4, <1>6 DEF Trim
  <2>2. n + used <= MaxResult
    BY <1>1, <1>3, <1>6
  <2> QED
    BY <1>2, <1>4, <2>1, <2>2 DEF CutTells
<1>7. CASE ~(n <= room)
  <2>1. PICK s : s = SubSeq(text, 1, room)
    OBVIOUS
  <2>2. cut = [shown |-> s, sent |-> n + offered, told |-> room + used]
    BY <1>2, <1>3, <1>4, <1>7, <2>1 DEF Trim
  <2>3. \A i \in 1..room : i \in 1..n
    BY <1>7
  <2>4. s \in Seq(Chars(A)) /\ Len(s) = room /\ \A i \in 1..room : s[i] = text[i]
    BY <1>2, <1>5, <2>1, <2>3
  <2>5. DOMAIN s = 1..room /\ s \in Texts(A)
    BY <2>4 DEF Texts, Chars, Classes
  <2>6. room + used <= MaxResult /\ room <= n
    BY <1>1, <1>3, <1>7
  <2>7. s # text
    BY <1>2, <1>7, <2>4
  <2> QED
    BY <1>2, <1>4, <1>5, <2>2, <2>3, <2>4, <2>5, <2>6, <2>7 DEF CutTells
<1> QED
  BY <1>6, <1>7

\* What an answer of a text and a structured answer is to say of itself.
Tells(result, A, text, structured) ==
  /\ result.body \in Texts(A)
  /\ \A i \in DOMAIN result.body : i \in DOMAIN text /\ result.body[i] = text[i]
  /\ Len(result.body) + Len(result.block) <= MaxResult
  /\ IF result.body = text THEN result.sent = 0 /\ result.told = 0
     ELSE TellsBoth(result, text, structured.text)
  /\ result.block = structured.text \/ (result.block = <<>> /\ "too big" \in result.notes)
  /\ structured.unreadable => "unreadable" \in result.notes
  /\ result.body = <<>> /\ result.block = <<>> => result.nothing

\* compose_result, of any text and any structured answer.
LEMMA ComposeTells ==
  ASSUME NEW A, NEW text \in Texts(A), Strip(text) = <<>> => text = <<>>,
         NEW structured, structured.text \in Texts(A), NEW parts
  PROVE  Tells(Compose(text, structured, parts), A, text, structured)
<1>1. MaxResult \in Nat /\ MaxStructured \in 0..MaxResult
  BY CapsAssumption
<1>2. PICK n \in Nat, offered \in Nat : n = Len(text) /\ offered = Len(structured.text)
  BY TextsAreLists
<1>3. PICK block : block = IF offered > MaxStructured THEN <<>> ELSE structured.text
  OBVIOUS
<1>4. PICK size \in 0..MaxResult : size = Len(block)
  <2>1. Len(<<>>) = 0
    OBVIOUS
  <2>2. PICK length : length = Len(block)
    OBVIOUS
  <2>3. length \in 0..MaxResult
    BY <1>1, <1>2, <1>3, <2>1, <2>2
  <2> QED
    BY <2>2, <2>3
<1>5. PICK body : body = IF Strip(text) = <<>> THEN [shown |-> <<>>, sent |-> 0, told |-> 0]
                         ELSE Trim(text, offered, size)
  OBVIOUS
<1>6. <<>> \in Texts(A) /\ Len(<<>>) = 0 /\ DOMAIN <<>> = {}
  BY DEF Texts
<1>7. /\ body.shown \in Texts(A) /\ Len(body.shown) + size <= MaxResult
      /\ \A i \in DOMAIN body.shown : i \in DOMAIN text /\ body.shown[i] = text[i]
      /\ \/ body.shown = text /\ body.sent = 0 /\ body.told = 0
         \/ body.shown # text /\ body.sent = n + offered /\ body.told = Len(body.shown) + size
  <2>1. CASE Strip(text) = <<>>
    <3>1. body.shown = <<>> /\ text = <<>> /\ body.sent = 0 /\ body.told = 0
      BY <1>5, <2>1
    <3> QED
      BY <1>1, <1>4, <1>6, <3>1
  <2>2. CASE Strip(text) # <<>>
    <3>1. body = Trim(text, offered, size)
      BY <1>5, <2>2
    <3>2. CutTells(Trim(text, offered, size), A, text, offered, size)
      BY TrimTells
    <3> QED
      BY <1>2, <3>1, <3>2 DEF CutTells
  <2> QED
    BY <2>1, <2>2
<1>8. PICK notes, nothing, result :
        /\ notes = (IF structured.unreadable THEN {"unreadable"} ELSE {})
                     \cup (IF offered > MaxStructured THEN {"too big"} ELSE {})
        /\ nothing = (body.shown = <<>> /\ block = <<>>)
        /\ result = [body |-> body.shown, block |-> block, sent |-> body.sent,
                     told |-> body.told, notes |-> notes, parts |-> parts, nothing |-> nothing]
  OBVIOUS
<1>9. Compose(text, structured, parts) = result
  BY <1>2, <1>3, <1>4, <1>5, <1>8 DEF Compose
<1>10. /\ result.body = body.shown /\ result.block = block /\ result.sent = body.sent
       /\ result.told = body.told /\ result.notes = notes /\ result.nothing = nothing
  BY <1>8
<1>11. structured.unreadable => "unreadable" \in result.notes
  BY <1>8, <1>10
<1>12. result.body = <<>> /\ result.block = <<>> => result.nothing
  BY <1>8, <1>10
<1>13. Len(result.body) + Len(result.block) <= MaxResult
  BY <1>4, <1>7, <1>10
<1>14. result.block = structured.text \/ (result.block = <<>> /\ "too big" \in result.notes)
  BY <1>3, <1>8, <1>10
<1>15. /\ result.body \in Texts(A)
       /\ \A i \in DOMAIN result.body : i \in DOMAIN text /\ result.body[i] = text[i]
  BY <1>7, <1>10
<1>16. IF result.body = text THEN result.sent = 0 /\ result.told = 0
       ELSE TellsBoth(result, text, structured.text)
  BY <1>2, <1>4, <1>7, <1>10 DEF TellsBoth
<1> QED
  BY <1>9, <1>11, <1>12, <1>13, <1>14, <1>15, <1>16 DEF Tells

\* Whatever a server answers, what is left out is told.
LEMMA ResultTells ==
  ASSUME NEW content, IsAnswer(content)
  PROVE  TellsWhatIsMissing(content, Result(content))
<1>1. PICK A, text, structured, parts, result :
        /\ A = PlacesOf(content) /\ text = Redact(CarriedText(content.items))
        /\ structured = StructuredAnswer(content.structured)
        /\ parts = LeftParts(content.items) /\ result = Compose(text, structured, parts)
  OBVIOUS
<1>2. Result(content) = result
  BY <1>1 DEF Result
<1>3. CarriedText(content.items) \in Texts(A)
  BY <1>1, CarriedIsText
<1>4. text \in Texts(A)
  BY <1>1, <1>3, RedactShows
<1>5. Strip(text) = <<>> => text = <<>>
  BY <1>1, NothingBlankIsCarried
<1>6. structured.text \in Texts(A)
  BY <1>1, StructuredIsText
<1>7. Tells(result, A, text, structured)
  BY <1>1, <1>4, <1>5, <1>6, ComposeTells
<1>8. structured.unreadable = content.structured.unreadable
  BY <1>1 DEF StructuredAnswer
<1> QED
  BY <1>1, <1>2, <1>7, <1>8 DEF Tells, TellsWhatIsMissing

-----------------------------------------------------------------------------
(* A key stays a key.  To somebody who sees only what is visible it is one  *)
(* in the text as it came; once the invisible characters inside it are gone *)
(* it is one in the text as it is, and the redaction takes all of it.       *)

KeySeen(text, q, y) == SeenToBegin(text, q) /\ SeenToGoOn(text, q, y)

SeenInKey(text, p) ==
  p \in DOMAIN text /\ \E q, y \in DOMAIN text : KeySeen(text, q, y) /\ q <= p /\ p <= y

KeyRun(text, q, y) ==
  q < y /\ Begins(text, q, "k") /\ \A m \in q..y : text[m].ch \in CredentialAlphabet

InRun(text, p) ==
  p \in DOMAIN text /\ \E q, y \in DOMAIN text : KeyRun(text, q, y) /\ q <= p /\ p <= y

\* The redaction finds every run of a key's characters.
LEMMA RunIsInKey ==
  ASSUME NEW A, NEW text \in Texts(A), NEW p, InRun(text, p)
  PROVE  p \in InKey(text)
<1>1. PICK n \in Nat : n = Len(text) /\ DOMAIN text = 1..n
  BY TextsAreLists
<1>2. PICK q \in 1..n, y \in 1..n : KeyRun(text, q, y) /\ q <= p /\ p <= y
  BY <1>1 DEF InRun
<1>3. p \in 1..n /\ q \in 1..p
  BY <1>1, <1>2 DEF InRun
<1>4. q < y /\ Begins(text, q, "k") /\ \A m \in q..y : text[m].ch \in CredentialAlphabet
  BY <1>2 DEF KeyRun
<1>5. \A m \in q..(q + 1) : m \in q..y /\ m \in 1..n
  BY <1>4
<1>6. \A m \in q..p : m \in q..y /\ m \in 1..n
  BY <1>2, <1>3
<1>7. GoesOn(text, q, q + 1) /\ GoesOn(text, q, p)
  BY <1>1, <1>4, <1>5, <1>6 DEF GoesOn
<1> QED
  BY <1>1, <1>3, <1>4, <1>7 DEF InKey, IsWord

\* What is picked keeps its order.
LEMMA PickOrder ==
  ASSUME NEW e, NEW list, NEW places, NEW out, NEW n \in Nat, PicksTo(e, list, places, out, n),
         NEW k \in Nat, k = Len(out), NEW m \in 1..k, NEW l \in 1..k
  PROVE  /\ e[m] \in 1..n /\ e[l] \in 1..n
         /\ e[m] < e[l] <=> m < l
         /\ e[m] <= e[l] <=> m <= l
<1>1. e[m] \in 1..n /\ e[l] \in 1..n /\ (m < l => e[m] < e[l]) /\ (l < m => e[l] < e[m])
  BY DEF PicksTo
<1> QED
  BY <1>1

\* Wherever the character with this place is, it is part of a key.
SealedSeen(text, at) == \A i \in DOMAIN text : text[i].at = at => SeenInKey(text, i)
SealedRun(text, at)  == \A i \in DOMAIN text : text[i].at = at => InRun(text, i)

\* No other character of the answer has the place of one in a key.
LEMMA KeysAreSealed ==
  ASSUME NEW content, IsAnswer(content), NEW raw \in RawTexts(content), NEW at \in KeyPlaces(raw),
         NEW text \in RawTexts(content)
  PROVE  SealedSeen(text, at) /\ at # NoPlace
<1>1. PICK p \in DOMAIN raw : raw[p].at = at /\ SeenInKey(raw, p)
  BY DEF KeyPlaces, KeySeen, SeenInKey, VisiblePlaces
<1>2. ASSUME NEW i \in DOMAIN text, text[i].at = at PROVE SeenInKey(text, i)
  <2>1. text = raw /\ i = p
    BY <1>1, <1>2 DEF IsAnswer
  <2> QED
    BY <1>1, <2>1
<1>3. at # NoPlace
  BY <1>1 DEF IsAnswer
<1> QED
  BY <1>2, <1>3 DEF SealedSeen

\* Putting texts together tears no key apart and hides where none begins: what stands
\* between two texts is seen, and part of no word.
LEMMA SealedWhenJoined ==
  ASSUME NEW A, NEW at, at # NoPlace, NEW texts \in Seq(Texts(A)),
         \A k \in DOMAIN texts : SealedSeen(texts[k], at),
         NEW whole \in Texts(A), Covered(texts, Break, whole, Len(texts))
  PROVE  SealedSeen(whole, at)
<1>1. PICK n \in Nat : n = Len(whole) /\ DOMAIN whole = 1..n
  BY TextsAreLists
<1>2. PICK t \in Nat : t = Len(texts) /\ DOMAIN texts = 1..t
  OBVIOUS
<1>4. Break.at = NoPlace /\ Break.ch \in VisibleChars \ WordChars
  BY DEF Break, VisibleChars, WordChars, CredentialAlphabet
<1>3. ASSUME NEW i \in 1..n, whole[i].at = at PROVE SeenInKey(whole, i)
  <2>1. PICK k \in 1..t, d \in Nat :
          /\ LiesIn(texts[k], whole, d) /\ i \in (d + 1)..(d + Len(texts[k]))
          /\ d = 0 \/ whole[d] = Break
    BY <1>1, <1>2, <1>3, <1>4 DEF Covered
  <2>2. PICK piece \in Texts(A) : piece = texts[k]
    BY <1>2
  <2>3. PICK l \in Nat : l = Len(piece) /\ DOMAIN piece = 1..l
    BY TextsAreLists
  <2>4. d + l <= n /\ \A j \in 1..l : whole[d + j] = piece[j]
    BY <1>1, <2>1, <2>2, <2>3 DEF LiesIn
  <2>5. PICK j \in 1..l : i = d + j
    <3>1. i - d \in 1..l /\ i = d + (i - d)
      BY <2>1, <2>2, <2>3
    <3> QED
      BY <3>1
  <2>6. SeenInKey(piece, j)
    BY <1>2, <1>3, <2>2, <2>3, <2>4, <2>5 DEF SealedSeen
  <2>7. PICK q \in 1..l, y \in 1..l : KeySeen(piece, q, y) /\ q <= j /\ j <= y
    BY <2>3, <2>6 DEF SeenInKey
  <2>8. PICK q2 \in 1..n, y2 \in 1..n : q2 = d + q /\ y2 = d + y
    BY <2>4
  <2>9. SeenToBegin(whole, q2)
    <3>1. whole[q2].ch = "k"
      BY <2>4, <2>7, <2>8 DEF KeySeen, SeenToBegin
    <3>2. ASSUME NEW b \in 1..(q2 - 1), whole[b].ch \in WordChars
          PROVE  \E m \in (b + 1)..(q2 - 1) : whole[m].ch \in VisibleChars \ WordChars
      <4>1. CASE b <= d
        <5>1. d \in 1..n /\ whole[d] = Break
          BY <2>1, <2>4, <4>1
        <5>2. b # d
          BY <1>4, <3>2, <5>1
        <5>3. d \in (b + 1)..(q2 - 1)
          BY <2>8, <4>1, <5>2
        <5> QED
          BY <1>4, <5>1, <5>3
      <4>2. CASE ~(b <= d)
        <5>1. PICK u \in 1..(q - 1) : b = d + u
          <6>1. b - d \in 1..(q - 1) /\ b = d + (b - d)
            BY <2>8, <4>2
          <6> QED
            BY <6>1
        <5>2. u \in 1..l /\ piece[u].ch \in WordChars
          BY <2>4, <3>2, <5>1
        <5>3. PICK m \in (u + 1)..(q - 1) : piece[m].ch \in VisibleChars \ WordChars
          BY <2>7, <5>1, <5>2 DEF KeySeen, SeenToBegin
        <5>4. m \in 1..l /\ d + m \in (b + 1)..(q2 - 1)
          BY <2>8, <5>1
        <5> QED
          BY <2>4, <5>3, <5>4
      <4> QED
        BY <4>1, <4>2
    <3> QED
      BY <3>1, <3>2 DEF SeenToBegin
  <2>10. SeenToGoOn(whole, q2, y2)
    <3>1. y \in VisiblePlaces(piece) /\ q < y
      BY <2>7 DEF KeySeen, SeenToGoOn
    <3>2. y2 \in VisiblePlaces(whole) /\ q2 < y2
      BY <1>1, <2>4, <2>8, <3>1 DEF VisiblePlaces
    <3>3. ASSUME NEW v \in VisiblePlaces(whole), q2 <= v, v <= y2
          PROVE  whole[v].ch \in CredentialAlphabet
      <4>1. v \in 1..n /\ whole[v].ch \in VisibleChars
        BY <1>1 DEF VisiblePlaces
      <4>2. PICK u \in 1..l : v = d + u /\ q <= u /\ u <= y
        <5>1. v - d \in 1..l /\ v = d + (v - d) /\ q <= v - d /\ v - d <= y
          BY <2>8, <3>3, <4>1
        <5> QED
          BY <5>1
      <4>3. u \in VisiblePlaces(piece)
        BY <2>3, <2>4, <4>1, <4>2 DEF VisiblePlaces
      <4> QED
        BY <2>4, <2>7, <4>2, <4>3 DEF KeySeen, SeenToGoOn
    <3> QED
      BY <3>2, <3>3 DEF SeenToGoOn
  <2>11. q2 <= i /\ i <= y2
    BY <2>5, <2>7, <2>8
  <2> QED
    BY <1>1, <2>9, <2>10, <2>11 DEF SeenInKey, KeySeen
<1> QED
  BY <1>1, <1>3 DEF SealedSeen

\* Inside a key nothing invisible is left.
LEMMA NothingHidesInAKey ==
  ASSUME NEW A, NEW text \in Texts(A), NEW q \in DOMAIN text, NEW y \in DOMAIN text,
         KeySeen(text, q, y), NEW v \in DOMAIN text, q <= v, v <= y,
         text[v].ch \in VisibleChars \/ ~BetweenKeyCharacters(text, v)
  PROVE  text[v].ch \in CredentialAlphabet
<1> DEFINE before == {j \in VisiblePlaces(text) : j < v}
           after  == {j \in VisiblePlaces(text) : j > v}
<1>1. PICK n \in Nat : n = Len(text) /\ DOMAIN text = 1..n
  BY TextsAreLists
<1>4. /\ q \in VisiblePlaces(text) /\ y \in VisiblePlaces(text)
      /\ \A u \in VisiblePlaces(text) : q <= u /\ u <= y => text[u].ch \in CredentialAlphabet
  BY DEF KeySeen, SeenToBegin, SeenToGoOn, VisiblePlaces, VisibleChars, CredentialAlphabet
<1>2. CASE v \in VisiblePlaces(text)
  BY <1>2, <1>4
<1>3. CASE v \notin VisiblePlaces(text)
  <2>1. v \in 1..n /\ q \in 1..n /\ y \in 1..n /\ q < v /\ v < y
    BY <1>1, <1>3, <1>4
  <2>2. before \in SUBSET (0..n) /\ before # {} /\ q \in before
    BY <1>1, <1>4, <2>1 DEF VisiblePlaces
  <2>3. after \in SUBSET Nat /\ after # {} /\ y \in after
    BY <1>1, <1>4, <2>1 DEF VisiblePlaces
  <2>4. PICK low, high : low = Max(before) /\ high = Min(after)
    OBVIOUS
  <2> HIDE DEF before, after
  <2>5. low \in before /\ q <= low
    BY <2>2, <2>4, GreatestIsMax
  <2>6. high \in after /\ high <= y
    BY <2>3, <2>4, LeastIsMin
  <2>7. low \in VisiblePlaces(text) /\ low < v /\ high \in VisiblePlaces(text) /\ high > v
        /\ low \in 1..n /\ high \in 1..n
    BY <1>1, <2>5, <2>6 DEF before, after, VisiblePlaces
  <2>8. text[low].ch \in CredentialAlphabet /\ text[high].ch \in CredentialAlphabet
    BY <1>1, <1>4, <2>1, <2>5, <2>6, <2>7
  <2>9. BetweenKeyCharacters(text, v)
    BY <2>2, <2>3, <2>4, <2>8 DEF BetweenKeyCharacters, before, after
  <2>10. text[v].ch \notin VisibleChars
    BY <1>1, <1>3, <2>1 DEF VisiblePlaces
  <2> QED
    BY <2>9, <2>10
<1> QED
  BY <1>2, <1>3

\* Cleaning puts the pieces of a key together, and leaves what it begins behind.
LEMMA SealedWhenClean ==
  ASSUME NEW A, NEW text \in Texts(A), NEW at, SealedSeen(text, at)
  PROVE  SealedRun(Clean(text), at)
<1>1. PICK n \in Nat : n = Len(text) /\ DOMAIN text = 1..n
  BY TextsAreLists
<1>2. PICK places :
        places = {i \in DOMAIN text :
                    \/ text[i].ch \in VisibleChars
                    \/ text[i].ch \in Printable /\ ~BetweenKeyCharacters(text, i)}
  OBVIOUS
<1>3. PICK out : out = At(text, places)
  OBVIOUS
<1>4. Clean(text) = out
  BY <1>2, <1>3 DEF Clean
<1>5. text \in Seq(Chars(A))
  BY TextsAreLists
<1>6. out \in Seq(Chars(A)) /\ Picked(text, places, out, n)
  BY <1>1, <1>3, <1>5, AtPicks
<1>7. PICK e : PicksTo(e, text, places, out, n)
  BY <1>6 DEF Picked
<1>8. PICK k \in Nat : k = Len(out) /\ DOMAIN out = 1..k
  BY <1>6
<1>9. \A m \in 1..k : /\ e[m] \in places /\ e[m] \in 1..n /\ out[m] = text[e[m]]
  BY <1>7, <1>8 DEF PicksTo
<1>10. \A v \in 1..n : v \in places => \E m \in 1..k : e[m] = v
  BY <1>7, <1>8 DEF PicksTo
<1>11. \A m, l \in 1..k : (e[m] < e[l] <=> m < l) /\ (e[m] <= e[l] <=> m <= l)
  BY <1>7, <1>8, PickOrder
<1>12. \A v \in 1..n : text[v].ch \in VisibleChars => v \in places
  BY <1>1, <1>2
<1>13. ASSUME NEW i \in 1..k, out[i].at = at PROVE InRun(out, i)
  <2>1. SeenInKey(text, e[i])
    BY <1>1, <1>9, <1>13 DEF SealedSeen
  <2>2. PICK q \in 1..n, y \in 1..n : KeySeen(text, q, y) /\ q <= e[i] /\ e[i] <= y
    BY <1>1, <2>1 DEF SeenInKey
  <2>3. q \in places /\ y \in places /\ q < y /\ text[q].ch = "k"
    BY <1>12, <2>2 DEF KeySeen, SeenToBegin, SeenToGoOn, VisiblePlaces, VisibleChars, CredentialAlphabet
  <2>4. PICK q2 \in 1..k, y2 \in 1..k : e[q2] = q /\ e[y2] = y
    BY <1>10, <2>3
  <2>5. q2 < y2 /\ q2 <= i /\ i <= y2
    BY <1>11, <2>2, <2>3, <2>4
  <2>6. Begins(out, q2, "k")
    <3>1. out[q2].ch = "k"
      BY <1>9, <2>3, <2>4
    <3>2. ASSUME q2 > 1 PROVE out[q2 - 1].ch \notin WordChars
      <4>1. PICK b \in 1..k : b = q2 - 1 /\ b < q2
        BY <3>2
      <4>2. e[b] \in 1..n /\ e[b] < q /\ out[b] = text[e[b]]
        BY <1>9, <1>11, <2>4, <4>1
      <4>3. e[b] \in 1..(q - 1)
        BY <4>2
      <4>4. ASSUME text[e[b]].ch \in WordChars PROVE FALSE
        <5>1. PICK m \in (e[b] + 1)..(q - 1) : text[m].ch \in VisibleChars
          BY <2>2, <4>3, <4>4 DEF KeySeen, SeenToBegin
        <5>2. m \in 1..n /\ e[b] < m /\ m < q
          BY <4>2
        <5>3. PICK c \in 1..k : e[c] = m
          BY <1>10, <1>12, <5>1, <5>2
        <5>4. b < c /\ c < q2
          BY <1>11, <2>4, <5>2, <5>3
        <5> QED
          BY <4>1, <5>4
      <4> QED
        BY <4>1, <4>2, <4>4
    <3> QED
      BY <3>1, <3>2 DEF Begins
  <2>7. ASSUME NEW m \in q2..y2 PROVE out[m].ch \in CredentialAlphabet
    <3>1. m \in 1..k /\ q2 <= m /\ m <= y2
      BY <2>4
    <3>2. PICK v \in 1..n : v = e[m]
      BY <1>9, <3>1
    <3>3. q <= v /\ v <= y
      BY <1>11, <2>4, <3>1, <3>2
    <3>4. v \in places /\ v \in DOMAIN text
      BY <1>1, <1>9, <3>1, <3>2
    <3>5. text[v].ch \in VisibleChars \/ ~BetweenKeyCharacters(text, v)
      BY <1>2, <3>4
    <3>6. text[v].ch \in CredentialAlphabet
      BY <1>1, <2>2, <3>3, <3>4, <3>5, NothingHidesInAKey
    <3> QED
      BY <1>9, <3>1, <3>2, <3>6
  <2>8. KeyRun(out, q2, y2)
    BY <2>5, <2>6, <2>7 DEF KeyRun
  <2> QED
    BY <1>8, <2>5, <2>8 DEF InRun
<1> QED
  BY <1>4, <1>8, <1>13 DEF SealedRun

\* Taking blanks off the ends takes nothing of a key.
LEMMA SealedWhenStripped ==
  ASSUME NEW A, NEW text \in Texts(A), NEW at, SealedRun(text, at)
  PROVE  SealedRun(Strip(text), at)
<1>1. PICK n \in Nat : n = Len(text) /\ DOMAIN text = 1..n
  BY TextsAreLists
<1>2. PICK s : s = Strip(text)
  OBVIOUS
<1>3. s \in Texts(A) /\ \E d \in Nat : Stretch(s, text, d)
  BY <1>2, StripKeeps
<1>4. PICK d \in Nat : Stretch(s, text, d)
  BY <1>3
<1>5. PICK l \in Nat : l = Len(s) /\ DOMAIN s = 1..l
  BY <1>3, TextsAreLists
<1>6. /\ d + l <= n /\ \A i \in 1..l : s[i] = text[d + i]
      /\ \A i \in 1..n : text[i].ch # "blank" => i \in (d + 1)..(d + l)
  BY <1>1, <1>4, <1>5 DEF Stretch
<1>7. ASSUME NEW i \in 1..l, s[i].at = at PROVE InRun(s, i)
  <2>1. d + i \in 1..n
    BY <1>6
  <2>2. InRun(text, d + i)
    BY <1>1, <1>6, <1>7, <2>1 DEF SealedRun
  <2>3. PICK q \in 1..n, y \in 1..n : KeyRun(text, q, y) /\ q <= d + i /\ d + i <= y
    BY <1>1, <2>2 DEF InRun
  <2>4. q < y /\ Begins(text, q, "k") /\ \A m \in q..y : text[m].ch \in CredentialAlphabet
    BY <2>3 DEF KeyRun
  <2>5. text[q].ch # "blank" /\ text[y].ch # "blank"
    <3>1. q \in q..y /\ y \in q..y
      BY <2>4
    <3> QED
      BY <2>4, <3>1 DEF CredentialAlphabet
  <2>6. q \in (d + 1)..(d + l) /\ y \in (d + 1)..(d + l)
    BY <1>6, <2>5
  <2>7. PICK q2 \in 1..l, y2 \in 1..l : q = d + q2 /\ y = d + y2
    <3>1. q - d \in 1..l /\ q = d + (q - d) /\ y - d \in 1..l /\ y = d + (y - d)
      BY <2>6
    <3> QED
      BY <3>1
  <2>8. q2 < y2 /\ q2 <= i /\ i <= y2
    BY <2>3, <2>4, <2>7
  <2>9. Begins(s, q2, "k")
    <3>1. s[q2].ch = "k"
      BY <1>6, <2>4, <2>7 DEF Begins
    <3>2. ASSUME q2 > 1 PROVE s[q2 - 1].ch \notin WordChars
      <4>1. q2 - 1 \in 1..l /\ d + (q2 - 1) = q - 1 /\ q > 1
        BY <2>7, <3>2
      <4>2. s[q2 - 1] = text[q - 1]
        BY <1>6, <4>1
      <4> QED
        BY <2>4, <4>1, <4>2 DEF Begins
    <3> QED
      BY <3>1, <3>2 DEF Begins
  <2>10. ASSUME NEW m \in q2..y2 PROVE s[m].ch \in CredentialAlphabet
    <3>1. m \in 1..l /\ d + m \in q..y
      BY <2>7
    <3> QED
      BY <1>6, <2>4, <3>1
  <2>11. KeyRun(s, q2, y2)
    BY <2>8, <2>9, <2>10 DEF KeyRun
  <2> QED
    BY <1>5, <2>8, <2>11 DEF InRun
<1> QED
  BY <1>2, <1>5, <1>7 DEF SealedRun

\* The redaction shows nothing of a key.
LEMMA SealedIsNotShown ==
  ASSUME NEW A, NEW text \in Texts(A), NEW at, SealedRun(text, at)
  PROVE  at \notin ShownPlaces(Redact(text))
<1>1. SUFFICES ASSUME at \in ShownPlaces(Redact(text)) PROVE FALSE
  OBVIOUS
<1>2. ShownPlaces(Redact(text)) \subseteq {text[i].at : i \in DOMAIN text \ InKey(text)}
  BY RedactShows
<1>3. PICK i \in DOMAIN text \ InKey(text) : text[i].at = at
  BY <1>1, <1>2
<1>4. InRun(text, i)
  BY <1>3 DEF SealedRun
<1> QED
  BY <1>3, <1>4, RunIsInKey

\* No key of the answer is in the text that is shown.
LEMMA CarriedKeepsKeysBack ==
  ASSUME NEW content, IsAnswer(content), NEW raw \in RawTexts(content), NEW at \in KeyPlaces(raw)
  PROVE  at \notin ShownPlaces(Redact(CarriedText(content.items)))
<1>1. PICK A : A = PlacesOf(content)
  OBVIOUS
<1>2. PICK texts : texts = CarriedTexts(content.items)
  OBVIOUS
<1>3. texts \in Seq(Texts(A)) /\ Break \in Chars(A)
  BY <1>1, <1>2, CarriedTextsAreRaw, BetweenIsChar DEF PlacesOf
<1>4. \A i \in DOMAIN texts : texts[i] \in RawTexts(content)
  BY <1>2, CarriedTextsAreRaw
<1>5. at # NoPlace /\ \A i \in DOMAIN texts : SealedSeen(texts[i], at)
  BY <1>4, KeysAreSealed
<1>6. texts \in Seq(Seq(Chars(A)))
  BY <1>3 DEF Texts, Chars, Classes
<1>7. PICK whole : whole = Joined(texts, Break)
  OBVIOUS
<1>8. whole \in Seq(Chars(A)) /\ Covered(texts, Break, whole, Len(texts))
  BY <1>3, <1>6, <1>7, JoinedCovers
<1>9. whole \in Texts(A)
  BY <1>8 DEF Texts, Chars, Classes
<1>10. SealedSeen(whole, at)
  BY <1>3, <1>5, <1>8, <1>9, SealedWhenJoined
<1>11. PICK clean : clean = Clean(whole)
  OBVIOUS
<1>12. clean \in Texts(A) /\ SealedRun(clean, at)
  BY <1>9, <1>10, <1>11, CleanIsText, SealedWhenClean
<1>13. PICK strip : strip = Strip(clean)
  OBVIOUS
<1>14. strip \in Texts(A) /\ SealedRun(strip, at)
  BY <1>12, <1>13, StripKeeps, SealedWhenStripped
<1>15. at \notin ShownPlaces(Redact(strip))
  BY <1>14, SealedIsNotShown
<1>16. CarriedText(content.items) = strip
  BY <1>2, <1>7, <1>11, <1>13 DEF CarriedText, CarriedTexts
<1> QED
  BY <1>15, <1>16

\* Nor in what a key or a value became.
LEMMA ScrubKeepsKeysBack ==
  ASSUME NEW content, IsAnswer(content), NEW raw \in RawTexts(content), NEW at \in KeyPlaces(raw),
         NEW text \in RawTexts(content)
  PROVE  at \notin ShownPlaces(Scrub(text))
<1>1. PICK A : A = PlacesOf(content)
  OBVIOUS
<1>2. text \in Texts(A) /\ SealedSeen(text, at)
  BY <1>1, RawTextsAreTexts, KeysAreSealed
<1>3. PICK clean : clean = Clean(text)
  OBVIOUS
<1>4. clean \in Texts(A) /\ SealedRun(clean, at)
  BY <1>2, <1>3, CleanIsText, SealedWhenClean
<1>5. at \notin ShownPlaces(Redact(clean))
  BY <1>4, SealedIsNotShown
<1> QED
  BY <1>3, <1>5 DEF Scrub

\* Writing out shows nothing that was not shown.
LEMMA EscapedShowsNoMore ==
  ASSUME NEW A, NEW text \in Texts(A), NEW at, at \notin ShownPlaces(text),
         NEW char \in Range(Escaped(text)), char.at = at
  PROVE  char.ch = "redacted"
<1>1. PICK out : out = Escaped(text)
  OBVIOUS
<1>2. /\ DOMAIN out = DOMAIN text
      /\ \A i \in DOMAIN text : /\ out[i].at = text[i].at
                                /\ text[i].ch = "redacted" => out[i].ch = "redacted"
  BY <1>1, EscapedIsText
<1>3. PICK i \in DOMAIN text : char = out[i]
  BY <1>1, <1>2 DEF Range
<1>4. text[i].at = at
  BY <1>2, <1>3
<1>5. text[i].ch = "redacted"
  BY <1>4 DEF ShownPlaces
<1> QED
  BY <1>2, <1>3, <1>5

\* No key of the answer is in the structured answer that is shown.
LEMMA StructuredKeepsKeysBack ==
  ASSUME NEW content, IsAnswer(content), NEW raw \in RawTexts(content), NEW at \in KeyPlaces(raw)
  PROVE  at \notin ShownPlaces(StructuredAnswer(content.structured).text)
<1>1. PICK A, safe : A = PlacesOf(content) /\ safe = ScrubStrings(content.structured.entries)
  OBVIOUS
<1>2. /\ safe \in Entries(A) /\ NoPlace \in A
      /\ \A e \in DOMAIN safe : \E one, other \in RawTexts(content) :
           safe[e].key = Scrub(one) /\ safe[e].value = Scrub(other)
  BY <1>1, ScrubsAreOfTheAnswer DEF PlacesOf
<1>3. ASSUME NEW e \in DOMAIN safe, NEW char \in Range(Escaped(safe[e].key)) \cup Range(Escaped(safe[e].value)),
             char.at = at
      PROVE  char.ch = "redacted"
  <2>1. PICK one \in RawTexts(content), other \in RawTexts(content) :
          safe[e].key = Scrub(one) /\ safe[e].value = Scrub(other)
    BY <1>2
  <2>2. PICK key, value : key = Scrub(one) /\ value = Scrub(other)
    OBVIOUS
  <2>3. key \in Texts(A) /\ value \in Texts(A)
    BY <1>1, <2>2, RawTextsAreTexts, ScrubIsText
  <2>4. at \notin ShownPlaces(key) /\ at \notin ShownPlaces(value)
    BY <2>2, ScrubKeepsKeysBack
  <2>5. char \in Range(Escaped(key)) \/ char \in Range(Escaped(value))
    BY <1>3, <2>1, <2>2
  <2> QED
    BY <1>3, <2>3, <2>4, <2>5, EscapedShowsNoMore
<1>4. PICK whole : whole = Serialized(safe)
  OBVIOUS
<1>5. \A char \in Range(whole) :
        \/ char = Quote
        \/ \E e \in DOMAIN safe :
             char \in Range(Escaped(safe[e].key)) \cup Range(Escaped(safe[e].value))
  BY <1>2, <1>4, SerializedIsText
<1>6. at # NoPlace /\ Quote.at = NoPlace
  BY KeysAreSealed DEF Quote
<1>7. \A char \in Range(whole) : char.at = at => char.ch = "redacted"
  BY <1>3, <1>5, <1>6
<1>8. at \notin ShownPlaces(whole)
  BY <1>7, ShownIsThere
<1>9. at \notin ShownPlaces(<<>>)
  BY DEF ShownPlaces
<1>10. StructuredAnswer(content.structured).text =
         IF content.structured.unreadable THEN <<>> ELSE whole
  BY <1>1, <1>4 DEF StructuredAnswer
<1> QED
  BY <1>8, <1>9, <1>10

\* No key of the answer is in what is made of it.
LEMMA ResultKeepsKeysBack ==
  ASSUME NEW content, IsAnswer(content)
  PROVE  KeepsKeysBack(content, Result(content))
<1>1. PICK A, text, structured, parts, result :
        /\ A = PlacesOf(content) /\ text = Redact(CarriedText(content.items))
        /\ structured = StructuredAnswer(content.structured)
        /\ parts = LeftParts(content.items) /\ result = Compose(text, structured, parts)
  OBVIOUS
<1>2. Result(content) = result
  BY <1>1 DEF Result
<1>3. CarriedText(content.items) \in Texts(A)
  BY <1>1, CarriedIsText
<1>4. text \in Texts(A) /\ structured.text \in Texts(A)
  BY <1>1, <1>3, RedactShows, StructuredIsText
<1>5. Strip(text) = <<>> => text = <<>>
  BY <1>1, NothingBlankIsCarried
<1>6. Tells(result, A, text, structured)
  BY <1>1, <1>4, <1>5, ComposeTells
<1>7. ASSUME NEW raw \in RawTexts(content), NEW at \in KeyPlaces(raw)
      PROVE  at \notin ShownPlaces(result.body) /\ at \notin ShownPlaces(result.block)
  <2>1. at \notin ShownPlaces(text)
    BY <1>1, CarriedKeepsKeysBack
  <2>2. at \notin ShownPlaces(structured.text)
    BY <1>1, StructuredKeepsKeysBack
  <2>3. \A i \in DOMAIN result.body : i \in DOMAIN text /\ result.body[i] = text[i]
    BY <1>6 DEF Tells
  <2>4. at \notin ShownPlaces(result.body)
    BY <2>1, <2>3 DEF ShownPlaces
  <2>5. result.block = <<>> \/ result.block = structured.text
    BY <1>6 DEF Tells
  <2>6. at \notin ShownPlaces(<<>>)
    BY DEF ShownPlaces
  <2> QED
    BY <2>2, <2>4, <2>5, <2>6
<1> QED
  BY <1>2, <1>7 DEF KeepsKeysBack

-----------------------------------------------------------------------------
(* What a call that was answered has in hand is an answer.                  *)

AnswerInv == outcome.said = "answer" => outcome.content \in Contents

\* Nothing but an answer of a server is taken for one.
LEMMA AnswerKept == ExchangeSpec => []AnswerInv
<1>1. ExchangeInit => AnswerInv
  BY DEF ExchangeInit, AnswerInv, Nothing
<1>2. AnswerInv /\ [ExchangeNext]_exchangeVars => AnswerInv'
  <2> SUFFICES ASSUME AnswerInv, [ExchangeNext]_exchangeVars PROVE AnswerInv'
    OBVIOUS
  <2>1. CASE outcome' = outcome
    BY <2>1 DEF AnswerInv
  <2>2. ASSUME NEW why, why # "answer", Fail(why) PROVE AnswerInv'
    <3>1. outcome' = [said |-> why]
      BY <2>2 DEF Fail
    <3> QED
      BY <2>2, <3>1 DEF AnswerInv
  <2>3. CASE Post
    BY <2>1, <2>2, <2>3 DEF Post, told
  <2>4. CASE Vet
    BY <2>1, <2>2, <2>4 DEF Vet, told
  <2>5. CASE TryAddress
    BY <2>1, <2>2, <2>5 DEF TryAddress, told
  <2>11. CASE HeadPiece
    BY <2>1, <2>11 DEF HeadPiece, told
  <2>6. CASE ResponseHead
    BY <2>1, <2>2, <2>6 DEF ResponseHead, Redirect, told
  <2>7. CASE Chunk
    BY <2>1, <2>2, <2>7 DEF Chunk, TakeChunk, told
  <2>8. CASE BodyEnds
    BY <2>1, <2>2, <2>8 DEF BodyEnds
  <2>9. CASE Answered
    <3>1. ASSUME NEW content \in Contents, outcome' = [said |-> "answer", content |-> content]
          PROVE  AnswerInv'
      <4>1. outcome'.content = content
        BY <3>1
      <4> QED
        BY <4>1 DEF AnswerInv
    <3> QED
      BY <2>2, <2>9, <3>1 DEF Answered
  <2>10. CASE UNCHANGED exchangeVars
    BY <2>1, <2>10 DEF exchangeVars, told
  <2> QED
    BY <2>3, <2>4, <2>5, <2>6, <2>7, <2>8, <2>9, <2>10, <2>11 DEF ExchangeNext
<1> QED
  BY <1>1, <1>2, PTL DEF ExchangeSpec

\* No character of what is a key of one word, at a boundary, to somebody who reads what the
\* tool sent is in what the model reads: not where invisible characters cut the key in
\* pieces, not where the cap falls into it, and not in a key or a value of the structured
\* answer (clean_result_text, redact, _structured_answer, compose_result).
THEOREM KeysAreKeptBack == ExchangeSpec => []KeysStayBehind
<1>1. AnswerInv => KeysStayBehind
  BY ExchangeAssumption, ResultKeepsKeysBack DEF AnswerInv, KeysStayBehind
<1> QED
  BY <1>1, AnswerKept, PTL

\* What a model reads of an answer fits the budget across both channels, and where the text
\* is cut both numbers are the whole answer's: what it held, and what of it is here; a
\* document is passed on in full or said to be too big (compose_result, trim_result).
THEOREM WhatIsLeftOutIsSaid == ExchangeSpec => []LeftOutIsTold
<1>1. AnswerInv => LeftOutIsTold
  BY ExchangeAssumption, ResultTells DEF AnswerInv, LeftOutIsTold
<1> QED
  BY <1>1, AnswerKept, PTL

===============================================================================
