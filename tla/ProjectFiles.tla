----------------------------- MODULE ProjectFiles -----------------------------
(***************************************************************************)
(* The files Addison writes, and the three ways back: undo, redo, and the  *)
(* review surface's revert of one file (agent_core/snapshots/              *)
(* undo_manager.py, snapshots/file_revert.py, rpc/undo.py,                 *)
(* rpc/workspace.py, tools/write_project_file.py, tools/save_file.py).     *)
(*                                                                         *)
(* Four accounts must agree: the disk, which a person changes at any time; *)
(* the rows of what Addison did; the redo stack, in memory; and the        *)
(* shell's ledgers of the paths it may touch again, gone with the session. *)
(***************************************************************************)
EXTENDS Naturals, Sequences, FiniteSets, SequencesExt

CONSTANTS
  Names,         \* paths
  Found,         \* where a file of the person's stands at first
  Outside,       \* those in folders nobody trusts
  AddisonTexts,  \* what Addison writes
  PersonTexts,   \* what the person writes
  KeepLast,      \* prune's max_actions
  MaxFiles,      \* bound: files ever made on disk
  MaxRows,       \* bound: rows ever recorded
  MaxActs,       \* bound: changes a person makes
  MaxRestarts,   \* bound: restarts
  MaxFaults      \* bound: rows that cannot be marked

ASSUME ProjectFilesAssumption ==
  /\ Outside \subseteq Names /\ Found \in Names
  /\ AddisonTexts \cap PersonTexts = {}
  /\ {KeepLast, MaxFiles, MaxRows, MaxActs, MaxRestarts, MaxFaults} \subseteq Nat

VARIABLES
  disk,     \* what stands at each name
  text,     \* the text of each file ever made; a file keeps its number when renamed
  developer, \* the profile whose surface and tools these are
  trusted,  \* the project's folder is in workspace_trust
  log,      \* action_snapshots, oldest first
  redo,     \* _redo_stack: places in log
  written,  \* the shell's workspace_written
  created,  \* the shell's created
  deleted,  \* the shell's deleted
  acts, restarts, faults

ledgers == <<written, created, deleted>>
vars == <<disk, text, developer, trusted, log, redo, ledgers, acts, restarts, faults>>

Files == 1..Len(text)

Nothing == [is |-> "none", file |-> 0, to |-> "none"]
File(i) == [is |-> "file", file |-> i, to |-> "none"]
Link(n) == [is |-> "link", file |-> 0, to |-> n]

NoText == "no text"

\* An ActionSnapshot: "prior" is NoText when nothing stood there.
Row(tool, n, prior, t, i) ==
  [tool |-> tool, name |-> n, prior |-> prior, wrote |-> t, file |-> i, reverted |-> FALSE]

Init ==
  /\ disk = [n \in Names |-> IF n = Found THEN File(1) ELSE Nothing]
  /\ text \in {<<t>> : t \in PersonTexts}
  /\ developer = TRUE /\ trusted = TRUE
  /\ log = <<>> /\ redo = <<>>
  /\ written = {} /\ created = {} /\ deleted = {}
  /\ acts = 0 /\ restarts = 0 /\ faults = 0

-----------------------------------------------------------------------------
(* The disk, and the shell's side of it.                                   *)

\* realpath; links are one step deep here.
Resolve(n) == IF disk[n].is = "link" THEN disk[n].to ELSE n
Stands(n) == disk[n].is # "none"
TextAt(n) == LET e == disk[Resolve(n)] IN IF e.is = "file" THEN text[e.file] ELSE NoText

\* Put text t at name n, through a link, or remove the entry when t is NoText.
Put(n, t) ==
  LET m == Resolve(n) IN
  IF t = NoText THEN disk' = [disk EXCEPT ![n] = Nothing] /\ UNCHANGED text
  ELSE IF disk[m].is = "file" THEN text' = [text EXCEPT ![disk[m].file] = t] /\ UNCHANGED disk
  ELSE /\ Len(text) < MaxFiles
       /\ text' = Append(text, t)
       /\ disk' = [disk EXCEPT ![m] = File(Len(text) + 1)]

\* can_restore_workspace_files, and what restore_workspace_file refuses.
Ledgered(n) == n \in written
ShellRestores(n, led) == n \in led /\ disk[n].is # "link"

\* adopt_workspace_path: back into the ledger when the bytes are still Addison's.
Adopted(n, wrote) == IF disk[n].is # "link" /\ TextAt(n) = wrote THEN written \cup {n} ELSE written

-----------------------------------------------------------------------------
(* The rows.                                                               *)

Rows == 1..Len(log)
Unreverted == {k \in Rows : ~log[k].reverted}
RecentUnreverted == IF Unreverted = {} THEN 0 ELSE CHOOSE k \in Unreverted : \A j \in Unreverted : j <= k
Writes == {k \in Unreverted : log[k].tool = "write"}
Marked(ks, flag) == [k \in Rows |-> IF k \in ks THEN [log[k] EXCEPT !.reverted = flag] ELSE log[k]]

\* Marking may fail once the file has been put back; a whole chain is one statement.
MarkFails == faults < MaxFaults /\ faults' = faults + 1 /\ UNCHANGED log
MarkSnapshotReverted(k) == (log' = Marked({k}, TRUE) /\ UNCHANGED faults) \/ MarkFails
MarkSnapshotUnreverted(k) == (log' = Marked({k}, FALSE) /\ UNCHANGED faults) \/ MarkFails
MarkSnapshotsReverted(c) == (log' = Marked(c, TRUE) /\ UNCHANGED faults) \/ MarkFails

\* record: the row goes in, and what was undone before cannot be done again.
InsertActionSnapshot(row) == log' = Append(log, row)
RecordWithout(row) == InsertActionSnapshot(row) /\ UNCHANGED redo
Record(row) == InsertActionSnapshot(row) /\ redo' = <<>>

\* prune, at launch: reverted rows beyond the last KeepLast, once they are old enough.
Pruned ==
  LET over == {k \in Rows : log[k].reverted /\
                 Cardinality({j \in Rows : j > k /\ log[j].reverted}) >= KeepLast}
      places == 1..Cardinality(Rows \ over)
      inOrder == {f \in [places -> Rows \ over] : \A i, j \in places : i < j => f[i] < f[j]} IN
  {log} \cup {[i \in places |-> log[f[i]]] : f \in inOrder}

-----------------------------------------------------------------------------
(* What Addison writes.                                                    *)

\* is_trusted, of a resolved path.
IsTrusted(n) == trusted /\ n \notin Outside

\* write_project_file, once allowed: the path is the resolved one, and the row says what
\* stood there and which file it was written to.
WriteProjectFile(n, t) ==
  LET m == Resolve(n) IN
  /\ developer /\ IsTrusted(m) /\ disk[m].is # "link"
  /\ Len(log) < MaxRows
  /\ Put(m, t)
  /\ written' = written \cup {m}
  /\ Record(Row("write", m, TextAt(m), t, disk'[m].file))
  /\ UNCHANGED <<developer, trusted, created, deleted, acts, restarts, faults>>

\* save_file: only ever a brand-new file, wherever the person chooses.
SaveFile(n, t) ==
  /\ ~Stands(n)
  /\ Len(log) < MaxRows
  /\ Put(n, t)
  /\ created' = created \cup {n}
  /\ Record(Row("save", n, NoText, t, disk'[n].file))
  /\ UNCHANGED <<developer, trusted, written, deleted, acts, restarts, faults>>

-----------------------------------------------------------------------------
(* Undo and redo.                                                          *)

ReplacedByALink(n) == disk[n].is = "link"

\* Does the name reach a file other than those of the chain?  A link is one.
NothingStandsThere(n, files) == FALSE
AnotherFileStands(n, files) ==
  ReplacedByALink(n) \/ (disk[n].is = "file" /\ disk[n].file \notin files)

\* _write_edit_lost_to_a_restart
LostToRestart(k) == log[k].tool = "write" /\ ~Ledgered(log[k].name)

\* WriteProjectFileTool.undo
UndoWrite(k) ==
  LET r == log[k] IN
  /\ r.tool = "write"
  /\ ~AnotherFileStands(r.name, {r.file})
  /\ ShellRestores(r.name, written)
  /\ Put(r.name, r.prior)
  /\ UNCHANGED ledgers

\* SaveFileTool.undo: whatever stands at the name by now is what is removed.
UndoSave(k) ==
  LET n == log[k].name IN
  /\ log[k].tool = "save"
  /\ n \in created /\ Stands(n)
  /\ disk' = [disk EXCEPT ![n] = Nothing] /\ UNCHANGED text
  /\ created' = created \ {n} /\ deleted' = deleted \cup {n} /\ UNCHANGED written

\* undo_last: the newest row that is not reverted; one that cannot be marked is not
\* on the redo stack either, and is undone again next time.
UndoLast ==
  LET k == RecentUnreverted IN
  /\ UndoWrite(k) \/ UndoSave(k)
  /\ MarkSnapshotReverted(k)
  /\ redo' = IF log' = log THEN redo ELSE Append(redo, k)
  /\ UNCHANGED <<developer, trusted, acts, restarts>>

\* undo.last
UndoLastAction ==
  /\ RecentUnreverted # 0 /\ ~LostToRestart(RecentUnreverted)
  /\ UndoLast

\* SaveFileTool.redo: only where nothing stands, and only what was just removed.
RedoSave(k) ==
  LET n == log[k].name IN
  /\ n \in deleted /\ ~Stands(n)
  /\ Put(n, log[k].wrote)
  /\ deleted' = deleted \ {n} /\ created' = created \cup {n} /\ UNCHANGED written

\* redo_last: what cannot be done again is dropped; what fails stays.
RedoLast ==
  /\ redo # <<>>
  /\ LET k == Last(redo) IN
     \/ /\ log[k].tool # "save"
        /\ redo' = Front(redo)
        /\ UNCHANGED <<disk, text, log, ledgers, faults>>
     \/ /\ log[k].tool = "save" /\ RedoSave(k)
        /\ MarkSnapshotUnreverted(k)
        /\ redo' = IF log' = log THEN redo ELSE Front(redo)
  /\ UNCHANGED <<developer, trusted, acts, restarts>>

\* redo.last
RedoLastAction == RedoLast

-----------------------------------------------------------------------------
(* The review surface.                                                     *)

\* revert_key: which file a name reaches, asked of the disk; links are not followed.
RevertKey(n) == IF disk[n].is = "file" THEN disk[n].file ELSE 0

\* _read: rows of one name, or of one file, are one chain.
Joined(j, k) == log[j].name = log[k].name \/ log[j].file = log[k].file
Chain(k) ==
  {j \in Writes : \A s \in SUBSET Writes :
     (k \in s /\ \A x \in s, y \in Writes : Joined(x, y) => y \in s) => j \in s}
Identities(c) == {log[k].file : k \in c}
Oldest(c) == CHOOSE k \in c : \A j \in c : k <= j
Newest(c) == CHOOSE k \in c : \A j \in c : k >= j

\* index_for: by the name written, else by the file it reaches now.
ChainFor(n) ==
  LET named == {k \in Writes : log[k].name = n}
      same  == {k \in Writes : log[k].file = RevertKey(n)} IN
  IF named # {} THEN Chain(CHOOSE k \in named : TRUE)
  ELSE IF same # {} THEN Chain(CHOOSE k \in same : TRUE) ELSE {}

\* _edit: N writes to one file are one change, from what the oldest found.
BeforeOfNewest(c) == log[Newest(c)].prior
Before(c) == log[Oldest(c)].prior
Target(c) == log[Oldest(c)].name

\* One batch each: can_restore_workspace_files and digest_workspace_files.
RestorableMap == [n \in Names |-> Ledgered(n)]
DigestMap == [n \in Names |-> TextAt(n)]

\* _disk_state: the digest on disk against the one recorded.
DiskState(c) ==
  LET t == DigestMap[Target(c)] IN
  [missing |-> t = NoText, unchanged |-> t = log[Newest(c)].wrote]

\* _replaced_by
ReplacedBy(c) ==
  IF ReplacedByALink(Target(c)) THEN "shortcut"
  ELSE IF AnotherFileStands(Target(c), Identities(c)) THEN "other-file" ELSE "no"

\* workspace.listEdits, one payload for each chain: what the list says of a change.
EditPayload(c) ==
  [revertable |-> RestorableMap[Target(c)] \/ DiskState(c).unchanged,
   replacedBy |-> ReplacedBy(c), missing |-> DiskState(c).missing]

PendingEdits == {Chain(k) : k \in Writes}

\* workspace.readEditDiff: the two panes, or a refusal.
ReadEditDiff(n) ==
  LET c == ChainFor(n) IN
  IF c = {} \/ ReplacedBy(c) # "no" THEN [ok |-> FALSE, before |-> NoText, after |-> NoText]
  ELSE [ok |-> TRUE, before |-> Before(c), after |-> TextAt(Target(c))]

ListEdits == IF developer THEN {[chain |-> c, says |-> EditPayload(c)] : c \in PendingEdits} ELSE {}

\* revert_path as far as the write: swapped files are refused, adoption is tried, and
\* the shell's ledger answers.
AdoptsOldest(c) == Adopted(Target(c), log[Oldest(c)].wrote)
Adopts(c) == Adopted(Target(c), log[Newest(c)].wrote)
RevertWrites(c) == c # {} /\ ReplacedBy(c) = "no" /\ ShellRestores(Target(c), Adopts(c))

\* revert_path: one write, from the oldest row, then one mark of the chain.
RevertPath(n) ==
  LET c == ChainFor(n) IN
  /\ RevertWrites(c)
  /\ written' = Adopts(c)
  /\ Put(Target(c), log[Oldest(c)].prior)
  /\ MarkSnapshotsReverted(c)

\* workspace.revertFile
RevertFile(n) ==
  /\ developer
  /\ RevertPath(n)
  /\ UNCHANGED <<trusted, developer, redo, created, deleted, acts, restarts>>

-----------------------------------------------------------------------------
(* The person, and the session.                                            *)

Act == acts < MaxActs /\ acts' = acts + 1
Person == Act /\ UNCHANGED <<log, redo, restarts, faults>>

\* workspace.grantTrust, workspace.revokeTrust, profile.set
GrantTrust == ~trusted /\ trusted' = TRUE /\ Person /\ UNCHANGED <<disk, text, developer, ledgers>>
RevokeTrust == trusted /\ trusted' = FALSE /\ Person /\ UNCHANGED <<disk, text, developer, ledgers>>
ProfileSet == developer' = ~developer /\ Person /\ UNCHANGED <<disk, text, trusted, ledgers>>

PersonEdits(n, t) ==
  /\ disk[n].is = "file" /\ text[disk[n].file] # t
  /\ text' = [text EXCEPT ![disk[n].file] = t]
  /\ Person /\ UNCHANGED <<disk, developer, trusted, ledgers>>

\* A save by rename, or another branch: a new file at the same name.
PersonReplaces(n, t) ==
  /\ Len(text) < MaxFiles
  /\ text' = Append(text, t) /\ disk' = [disk EXCEPT ![n] = File(Len(text) + 1)]
  /\ Person /\ UNCHANGED <<developer, trusted, ledgers>>

\* Removed, moved to another name, linked, or hard-linked.
PersonMoves(n) ==
  /\ Stands(n)
  /\ \/ disk' = [disk EXCEPT ![n] = Nothing]
     \/ \E m \in Names \ {n} :
          \/ disk[n].is = "file" /\ disk' = [disk EXCEPT ![n] = Nothing, ![m] = disk[n]]
          \/ disk[n].is = "file" /\ disk' = [disk EXCEPT ![m] = disk[n]]
          \/ disk[m].is # "link" /\ (\A k \in Names : disk[k] # Link(n)) /\ disk' = [disk EXCEPT ![n] = Link(m)]
  /\ \A k \in Names : disk'[k].is = "link" => disk'[disk'[k].to].is # "link"
  /\ Person /\ UNCHANGED <<text, developer, trusted, ledgers>>

\* The ledgers and the redo stack go with the session; the rows stay.
Restart ==
  /\ restarts < MaxRestarts /\ restarts' = restarts + 1
  /\ log' \in Pruned
  /\ redo' = <<>> /\ written' = {} /\ created' = {} /\ deleted' = {}
  /\ UNCHANGED <<disk, text, developer, trusted, acts, faults>>

Next ==
  \/ \E n \in Names, t \in AddisonTexts : WriteProjectFile(n, t) \/ SaveFile(n, t)
  \/ \E n \in Names : RevertFile(n) \/ PersonMoves(n)
  \/ \E n \in Names, t \in PersonTexts : PersonEdits(n, t) \/ PersonReplaces(n, t)
  \/ UndoLastAction \/ RedoLastAction \/ GrantTrust \/ RevokeTrust \/ ProfileSet \/ Restart

Spec == Init /\ [][Next]_vars

-----------------------------------------------------------------------------
(* Putting a write back, by undo or by revert, changes or removes no file but one an   *)
(* unreverted row says Addison wrote, and never through a link, whatever the person     *)
(* moved, replaced or linked since (file_revert.py another_file_stands_there).          *)
PutsAWriteBack == (RecentUnreverted # 0 /\ UndoWrite(RecentUnreverted) /\ UndoLastAction)
                  \/ \E n \in Names : RevertFile(n)
Touched == {i \in Files : text'[i] # text[i]}
           \cup {disk[n].file : n \in {m \in Names : disk'[m] # disk[m] /\ Stands(m)}}
KeepsOffOtherFiles ==
  [][PutsAWriteBack => Touched \subseteq {log[k].file : k \in Writes}]_vars

(* A change the review surface calls revertable, and does not call replaced, is one the *)
(* shell will write back when asked, in this session or a later one                     *)
(* (rpc/workspace.py _edit_payload against file_revert.py revert_path).                 *)
RevertablePromise ==
  \A e \in ListEdits : e.says.revertable /\ e.says.replacedBy = "no" => RevertWrites(e.chain)

(* The actions that may be done again come after every action still in force: redoing  *)
(* in stack order rebuilds the history that was undone and never jumps over a newer one *)
(* (undo_manager.py record, undo_last, redo_last).                                      *)
RedoIsNewest ==
  \A i \in DOMAIN redo : /\ \A k \in Unreverted : k < redo[i]
                         /\ \A j \in 1..(i - 1) : redo[i] < redo[j]

(* The left pane of the diff is what a revert puts back, by whatever name of the chain  *)
(* it is asked for (rpc/workspace.py _workspace_read_edit_diff, file_revert.py).        *)
RevertGivesWhatTheDiffShows ==
  [][\A n \in Names : RevertFile(n) =>
       \E m \in {Target(ChainFor(n))} : TextAt(m)' = ReadEditDiff(n).before]_vars
=============================================================================
