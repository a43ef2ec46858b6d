---------------------------- MODULE RestorePoints ----------------------------
(***************************************************************************)
(* Restore points and the one-press way back                               *)
(* (agent_core/snapshots/snapshot_manager.py, memory/store.py,             *)
(* rpc/snapshots.py, the cold start in main.py).                           *)
(*                                                                         *)
(* A restore point is a row of config_snapshots and a sidecar file with    *)
(* the same content.  "Restore my last working setup" walks the proven     *)
(* points downwards from wherever the last restore landed; that place is   *)
(* kept in memory, in a note beside the files and on the pre_restore row.  *)
(* Points are numbered in the order they were saved, so a smaller number   *)
(* is an older point; their content never changes, and only the row's and  *)
(* the file's verified flag and their very presence do.                    *)
(***************************************************************************)
EXTENDS Naturals, Sequences, FiniteSets, FiniteSetsExt

CONSTANTS
  Setups,     \* what the person chose: the configuration but for its timestamps
  KeepLast,   \* KEEP_LAST
  MaxPoints,  \* bound: restore points ever saved
  MaxGone,    \* bound: points without a row when one is deleted by hand
  MaxMoves,   \* bound: how often a timestamp moves
  MaxFaults   \* bound: writes and reads that fail

ASSUME RestorePointsAssumption ==
  KeepLast \in Nat /\ MaxPoints \in Nat \ {0} /\ MaxGone \in Nat /\ MaxMoves \in Nat /\ MaxFaults \in Nat

VARIABLES
  live,     \* the captured tables, as the fingerprint sees them
  known,    \* provider_config.secret_presence is not "unknown"
  points,   \* the content of every point ever saved, oldest first
  rows,     \* the points with a row in config_snapshots
  verified, \* those whose row says verified_working
  rotten,   \* those whose state_blob no longer decodes
  files,    \* the points with a readable sidecar
  stamped,  \* those whose sidecar says verified_working
  memory,   \* _last_restored_id
  note,     \* the walk-position file
  db,       \* "ok", "unreadable" (the table cannot be queried), "lost" (will not open)
  said,     \* the sentence of the last step, if it was a press of the button
  proven,   \* history: configurations a message was answered on while the table could
            \* record it, and a fresh install's first one
  standing, \* history: where the last restore landed, until the person changes the setup
  faults    \* how many reads and writes failed

table == <<points, rows, verified, rotten>>
disk == <<files, stamped, note>>
vars == <<live, known, table, disk, memory, db, said, proven, standing, faults>>

NoPoint == 0
Ids == DOMAIN points
NextId == Len(points) + 1

Later == 1 + Max({live.at} \union {points[i].config.at : i \in Ids})
Touched == [live EXCEPT !.at = Later]
\* kind: genesis, pre_upgrade, capture, pre_restore, turn_verified or guard_weakened.
Point(config, kind, target) == [config |-> config, kind |-> kind, target |-> target]
Undeletable(i) == points[i].kind \in {"genesis", "pre_upgrade", "guard_weakened"}

Newest(S) == IF S = {} THEN NoPoint ELSE Max(S)
NewestFew(S, n) == {i \in S : Cardinality({j \in S : j > i}) < n}

(***************************** Saving a point *****************************)

\* How _write_row may end: "both" copies, the "row" alone, "none" (it raised).
SaveCost(s) == IF s = "both" \/ db # "ok" THEN 0 ELSE 1
Saves == {s \in IF db = "ok" THEN {"both", "row", "none"} ELSE {"none"} :
            faults + SaveCost(s) <= MaxFaults}
Spend(n) == faults + n <= MaxFaults /\ faults' = faults + n

Added(s) == IF s = "none" THEN {} ELSE {NextId}
AddedFile(s) == IF s = "both" THEN {NextId} ELSE {}

\* _write_row: the row first, then the sidecar, best effort.
WriteRow(s, point, isVerified) ==
  /\ s # "none" => NextId <= MaxPoints
  /\ points' = IF s = "none" THEN points ELSE Append(points, point)
  /\ rows' = rows \union Added(s)
  /\ verified' = verified \union (IF isVerified THEN Added(s) ELSE {})
  /\ files' = files \union AddedFile(s)
  /\ stamped' = stamped \union (IF isVerified THEN AddedFile(s) ELSE {})
  /\ rotten' = rotten

\* prune_config_snapshots over `all` rows, `good` of them verified.  The points
\* below `old` are past the age floor; the clock is the wall clock, so `old` may be
\* anything.
Pruned(all, good, old) ==
  {i \in all : /\ i < old
               /\ i \in Ids => ~Undeletable(i)
               /\ i \notin NewestFew(all, KeepLast)
               /\ i \notin NewestFew(good, 2)}

\* Bound: either no point is past the age floor or every one is.
Ages == {0, NextId}

\* capture() of the current configuration, with the pruning and the sweep of
\* orphaned files that follow a row that was written.
Capture(s, old) ==
  LET all == rows \union Added(s)
      kept == IF s = "none" THEN rows ELSE all \ Pruned(all, verified, old)
  IN /\ s # "none" => NextId <= MaxPoints
     /\ points' = IF s = "none" THEN points ELSE Append(points, Point(live, "capture", NoPoint))
     /\ rows' = kept
     /\ verified' = verified \intersect kept
     /\ rotten' = rotten \intersect kept
     /\ files' = IF s = "none" THEN files ELSE (files \union AddedFile(s)) \intersect kept
     /\ stamped' = IF s = "none" THEN stamped ELSE stamped \intersect kept

(* snapshot.create and the snapshot_now tool; the failure saves nothing. *)
Save(s, old) ==
  /\ s # "none"
  /\ Capture(s, old)
  /\ Spend(SaveCost(s))
  /\ UNCHANGED <<live, known, note, memory, db, proven, standing>>

(* A setting, note, widget, routine or service is changed by the person.  The hook
   saves a point first; where it cannot, or there is no hook, the change may go
   ahead all the same.  A change to a table with timestamps is this and a moved
   timestamp, see RoutineRuns. *)
Change(setup, s, old) ==
  /\ setup # live.setup
  /\ db # "lost"
  /\ Capture(s, old)
  /\ live' = [live EXCEPT !.setup = setup]
  /\ standing' = NoPoint
  /\ Spend(IF s = "row" THEN 1 ELSE 0)
  /\ UNCHANGED <<known, note, memory, db, proven>>

(* A routine runs: run_count and last_run_at are columns of a captured table. *)
RoutineRuns ==
  /\ db # "lost" /\ Later <= MaxMoves
  /\ live' = Touched
  /\ UNCHANGED <<known, table, disk, memory, db, proven, standing, faults>>

(***************************** Proof that it works ****************************)

\* A first look into the keychain after a restore writes what it found, and with it
\* updated_at of the provider's row.
AfterProbe(probed) == IF probed /\ ~known THEN Touched ELSE live

\* The permanent row, whatever it holds.
AnyPermanentRow(config) == Newest({i \in rows : Undeletable(i)})

PermanentRowMatching(config) ==
  Newest({i \in rows : Undeletable(i) /\ points[i].config = config})

\* How a best-effort write over an existing file may end.
WriteCost(w) == IF w = "written" THEN 0 ELSE 1
Writes == {w \in {"written", "kept", "emptied"} : faults + WriteCost(w) <= MaxFaults}

\* set_config_snapshot_verified, then the mirror into the sidecar.
FlagPermanent(i, w) ==
  /\ verified' = verified \union {i}
  /\ files' = CASE w = "written" -> files \union {i}
                [] w = "kept" -> files
                [] w = "emptied" -> files \ {i}
  /\ stamped' = IF w = "written" THEN stamped \union {i} ELSE stamped \ {i}
  /\ Spend(WriteCost(w))
  /\ UNCHANGED <<points, rows, rotten>>

\* mark_verified_working for the configuration that just answered.
MarkVerifiedWorking(config, s, w) ==
  LET permanent == PermanentRowMatching(config)
      already == \E i \in NewestFew(verified, 1) : points[i].config = config
  IN CASE db # "ok" \/ already -> UNCHANGED <<table, files, stamped, faults>>
       [] db = "ok" /\ ~already /\ permanent \in rows \ verified ->
            FlagPermanent(permanent, w)
       [] OTHER -> /\ WriteRow(s, Point(config, "turn_verified", NoPoint), TRUE)
                   /\ Spend(SaveCost(s))

(* A message is answered; a turn on a local model does not look into the keychain. *)
ChatTurn(probed, s, w) ==
  /\ db # "lost"
  /\ probed /\ ~known => Later <= MaxMoves
  /\ live' = AfterProbe(probed)
  /\ known' = (known \/ probed)
  /\ proven' = IF db = "ok" THEN proven \union {live'} ELSE proven
  /\ MarkVerifiedWorking(live', s, w)
  /\ UNCHANGED <<note, memory, db, standing>>

(* A turn fails after the keychain was read. *)
ChatTurnFails ==
  /\ db # "lost" /\ ~known /\ Later <= MaxMoves
  /\ live' = AfterProbe(TRUE)
  /\ known' = TRUE
  /\ UNCHANGED <<table, disk, memory, db, proven, standing, faults>>

(* guards.set weakens a guard: mint_anchor copies the newest verified point that
   still loads into a permanent one, or finds it copied already; without an anchor
   nothing changes, and the setting may still fail to be stored. *)
Loadable(i) == (db = "ok" /\ i \in rows \ rotten) \/ i \in files

Anchored(config) ==
  \E i \in rows : /\ points[i].kind = "guard_weakened" /\ points[i].config = config
                  /\ Loadable(i)

WeakenGuard(setup, s) ==
  LET source == Newest({i \in verified : Loadable(i)})
      config == points[source].config
  IN /\ db = "ok" /\ source # NoPoint
     /\ setup # live.setup
     /\ IF Anchored(config)
          THEN UNCHANGED <<table, files, stamped, faults>>
          ELSE /\ s # "none"
               /\ WriteRow(s, Point(config, "guard_weakened", NoPoint), TRUE)
               /\ Spend(SaveCost(s))
     /\ \/ live' = [live EXCEPT !.setup = setup] /\ standing' = NoPoint
        \/ UNCHANGED <<live, standing>>
     /\ UNCHANGED <<known, note, memory, db, proven>>

(******************************* Restoring *******************************)

\* What a relaunched process reads back: the note, else the newest pre_restore row.
RecordedRestoreTarget ==
  LET escape == IF db = "ok" THEN Newest({i \in rows : points[i].kind = "pre_restore"})
                ELSE NoPoint
  IN IF note # NoPoint THEN note
     ELSE IF escape # NoPoint /\ Loadable(escape) THEN points[escape].target
     ELSE NoPoint

WalkMarker == IF memory # NoPoint THEN memory ELSE RecordedRestoreTarget

\* _note_restored, after the tables are in.
NoteRestored(i, w) ==
  /\ memory' = i
  /\ note' = CASE w = "written" -> i [] w = "kept" -> note [] w = "emptied" -> NoPoint
  /\ standing' = i

\* apply_config_state: the captured tables become the point's, and the columns that
\* are not captured fall back to their defaults.
Apply(i) == live' = points[i].config /\ known' = FALSE

\* The escape is saved without the name of the point restored.
EscapeWithoutTarget(i, s) == WriteRow(s, Point(live, "pre_restore", NoPoint), FALSE)

\* The reversible part of a restore: pre_restore first, then the tables, then the note.
Escape(i, s) == WriteRow(s, Point(live, "pre_restore", i), FALSE)

RestoreApplied(i, s, w) ==
  /\ Escape(i, s) /\ Apply(i) /\ NoteRestored(i, w)
  /\ Spend(SaveCost(s) + WriteCost(w))

RestoreRefused(i, s, marker) ==
  /\ Escape(i, s)
  /\ memory' = marker
  /\ Spend(SaveCost(s) + 1)
  /\ UNCHANGED <<live, known, note, standing>>

(* snapshot.restore of one row of the list. *)
RestoreOne(i, s, w) ==
  /\ db # "lost" /\ i \in rows /\ Loadable(i)
  /\ RestoreApplied(i, s, w) \/ RestoreRefused(i, s, memory)
  /\ UNCHANGED <<db, proven>>

\* Every press starts at the top.
WalkFromTheTop(marker) == verified

\* The proven rows the walk looks at: those below its position for as long as the
\* restored configuration is the running one, else all of them.
WalkFrom(marker) ==
  IF marker \in rows /\ points[marker].config = live
    THEN {i \in verified : i < marker}
    ELSE verified

Differs(i) == points[i].config # live

\* _walk_last_working: the point to restore, or why there is none.
WalkLastWorking(marker) ==
  LET looked == WalkFrom(marker)
      usable == {i \in looked : Differs(i) /\ Loadable(i)}
  IN IF db # "ok" THEN [target |-> NoPoint, why |-> "unreadable"]
     ELSE [target |-> Newest(usable),
           why |-> CASE usable # {} -> "ok"
                     [] usable = {} /\ \E i \in looked : Differs(i) -> "unreadable"
                     [] looked # {} /\ \A i \in looked : ~Differs(i) -> "identical"
                     [] looked = {} /\ verified # {} -> "bottom"
                     [] OTHER -> "none"]

\* _payloads_below: the files older than the position, when it can be placed.
PayloadsBelow(position) ==
  IF position \in files /\ ~Differs(position) THEN {i \in files : i < position} ELSE files

\* select_payload_to_restore: proven first, and never the escape as a guess.
SelectPayload(payloads) ==
  LET good == {i \in payloads : i \in stamped /\ Differs(i)}
      guess == {i \in payloads : Differs(i) /\ points[i].kind # "pre_restore"}
  IN IF good # {} THEN Newest(good) ELSE Newest(guess)

\* _restore_from_sidecars: the file it applies, NoPoint when it gives up.  `bad` are
\* the files whose tables would not go in.
FromSidecars(marker, why, bad) ==
  LET choice == SelectPayload(PayloadsBelow(marker) \ bad)
  IN IF why = "identical" /\ choice \notin stamped THEN NoPoint ELSE choice

\* The files tried in vain: at most the first choice, bound.
Tries ==
  LET first == FromSidecars(WalkMarker, WalkLastWorking(WalkMarker).why, {})
  IN {{}, {first} \ {NoPoint}}

(* The walk found its point: the press is a restore of that row. *)
PressWalks(s, w) ==
  LET marker == WalkMarker
      walk == WalkLastWorking(marker)
  IN /\ walk.why = "ok"
     /\ \/ RestoreApplied(walk.target, s, w) /\ said' = "restored"
        \/ RestoreRefused(walk.target, s, marker) /\ said' = "failed"

(* The walk found nothing and is not at the bottom: the files are asked.  Where the
   table answered, the escape is saved first, naming the first file tried. *)
PressReadsFiles(s, w, bad) ==
  LET marker == WalkMarker
      why == WalkLastWorking(marker).why
      first == FromSidecars(marker, why, {})
      choice == FromSidecars(marker, why, bad)
      escapes == first # NoPoint /\ why \in {"none", "identical"}
  IN /\ why \notin {"ok", "bottom"}
     /\ IF escapes THEN Escape(first, s) ELSE UNCHANGED <<table, files, stamped>>
     /\ IF choice # NoPoint
          THEN /\ Apply(choice) /\ NoteRestored(choice, w)
               /\ said' = IF choice \in stamped THEN "restored" ELSE "unproven"
          ELSE /\ memory' = marker /\ said' = why
               /\ UNCHANGED <<live, known, note, standing>>
     /\ Spend((IF escapes THEN SaveCost(s) ELSE 0) + Cardinality(bad)
              + (IF choice # NoPoint THEN WriteCost(w) ELSE 0))

(* The walk is over: the sentence names an older, unproven point if the list has one. *)
PressAtTheBottom ==
  LET marker == WalkMarker
  IN /\ WalkLastWorking(marker).why = "bottom"
     /\ said' = IF \E i \in rows : i < marker THEN "older_in_the_list" ELSE "bottom"
     /\ memory' = marker
     /\ UNCHANGED <<live, known, table, disk, standing, faults>>

(* snapshot.restoreLastWorking. *)
RestoreLastWorking(s, w) ==
  /\ db # "lost"
  /\ \/ PressWalks(s, w)
     \/ \E bad \in Tries : PressReadsFiles(s, w, bad)
     \/ PressAtTheBottom
  /\ UNCHANGED <<db, proven>>

(* snapshot.list names the target of the button, and reads the marker for it. *)
ListPoints ==
  /\ db = "ok" /\ memory # WalkMarker
  /\ memory' = WalkMarker
  /\ UNCHANGED <<live, known, table, disk, db, proven, standing, faults>>

(* snapshot.delete: the row, then its file; a file that stays is swept by the next
   pruning. *)
Delete(i, unlinked) ==
  /\ db = "ok" /\ i \in rows /\ ~Undeletable(i)
  /\ Cardinality(Ids \ rows) < MaxGone
  /\ rows' = rows \ {i}
  /\ verified' = verified \ {i}
  /\ rotten' = rotten \ {i}
  /\ files' = (IF unlinked THEN files \ {i} ELSE files)
  /\ stamped' = stamped \intersect files'
  /\ Spend(IF unlinked \/ i \notin files THEN 0 ELSE 1)
  /\ UNCHANGED <<live, known, points, note, memory, db, proven, standing>>

(********************** Relaunches, damage, the cold start ********************)

(* The process ends and another starts on the same files. *)
Relaunch ==
  /\ db # "lost" /\ memory # NoPoint
  /\ memory' = NoPoint
  /\ UNCHANGED <<live, known, table, disk, db, proven, standing, faults>>

BlobRots(i) ==
  /\ i \in rows \ rotten
  /\ rotten' = rotten \union {i}
  /\ Spend(1)
  /\ UNCHANGED <<live, known, points, rows, verified, disk, memory, db, proven, standing>>

FileIsLost(i) ==
  /\ i \in files
  /\ files' = files \ {i} /\ stamped' = stamped \ {i}
  /\ Spend(1)
  /\ UNCHANGED <<live, known, table, note, memory, db, proven, standing>>

TableIsDamaged ==
  /\ db = "ok" /\ db' = "unreadable"
  /\ Spend(1)
  /\ UNCHANGED <<live, known, table, disk, memory, proven, standing>>

(* The database will not open at the next launch. *)
DatabaseIsLost ==
  /\ db # "lost" /\ db' = "lost"
  /\ memory' = NoPoint /\ standing' = NoPoint
  /\ Spend(1)
  /\ UNCHANGED <<live, known, table, disk, proven>>

\* With no configuration to compare with, the newest proven file, else the newest guess.
ColdChoice(payloads) ==
  IF payloads \intersect stamped # {} THEN Newest(payloads \intersect stamped)
  ELSE Newest({i \in payloads : points[i].kind # "pre_restore"})

(* _recover_from_sidecars: the rows are rebuilt from the files with the flags these
   carry, and one of them is applied. *)
RebuildFromFiles ==
  LET choice == ColdChoice(files)
  IN /\ db = "lost" /\ choice # NoPoint
     /\ rows' = files /\ verified' = stamped /\ rotten' = {}
     /\ Apply(choice)
     /\ db' = "ok" /\ memory' = NoPoint
     /\ UNCHANGED <<points, disk, proven, standing, faults>>

(******************************** Behaviours *********************************)

\* _ensure_genesis on an empty table: only a launch that made the database itself may
\* call what it finds proven.
Init ==
  \E setup \in Setups, fresh \in BOOLEAN :
    LET config == [setup |-> setup, at |-> 0]
        first == Point(config, IF fresh THEN "genesis" ELSE "pre_upgrade", NoPoint)
    IN /\ live = config /\ known = FALSE
       /\ points = <<first>> /\ rows = {1} /\ rotten = {}
       /\ verified = (IF fresh THEN {1} ELSE {})
       /\ files = {1} /\ stamped = verified
       /\ memory = NoPoint /\ note = NoPoint
       /\ db = "ok" /\ said = "nothing"
       /\ proven = (IF fresh THEN {config} ELSE {})
       /\ standing = NoPoint /\ faults = 0

Press == \E s \in Saves, w \in Writes : RestoreLastWorking(s, w)

Quiet ==
  \/ \E s \in Saves, old \in Ages : Save(s, old)
  \/ \E setup \in Setups, s \in Saves \union {"none"}, old \in Ages : Change(setup, s, old)
  \/ RoutineRuns
  \/ \E probed \in BOOLEAN, s \in Saves, w \in Writes : ChatTurn(probed, s, w)
  \/ ChatTurnFails
  \/ \E setup \in Setups, s \in Saves : WeakenGuard(setup, s)
  \/ \E i \in rows, s \in Saves, w \in Writes : RestoreOne(i, s, w)
  \/ ListPoints
  \/ \E i \in rows, unlinked \in BOOLEAN : Delete(i, unlinked)
  \/ Relaunch
  \/ \E i \in rows : BlobRots(i)
  \/ \E i \in files : FileIsLost(i)
  \/ TableIsDamaged \/ DatabaseIsLost \/ RebuildFromFiles

Next ==
  \/ Press
  \/ Quiet /\ said' = "nothing"

Spec == Init /\ [][Next]_vars

(******************************** Properties *********************************)

\* Whatever a row or a file calls verified_working did answer a message, or is the
\* first configuration of a fresh install: through capture, the permanent row's late
\* flag, copies into anchors, restores and rebuilt tables (mark_verified_working).
ProvenMeansRan == \A i \in verified \union stamped : points[i].config \in proven

\* Each press goes back.  While the running configuration is still the one the last
\* restore put there and the position and its file can be read, a press never lands on
\* that point or a newer one (_walk_start, _payloads_below).
PressGoesBack ==
  [][(/\ said' # "nothing" /\ standing # NoPoint
      /\ points[standing].config = live
      /\ WalkMarker = standing /\ standing \in files
      /\ db = "ok" => standing \in rows)
     => standing' < standing \/ (said' \notin {"restored", "unproven"} /\ live' = live)]_vars

\* The position survives a relaunch: after one failure at most, what a new process would
\* read back is where the person stands, given a note that is absent or current and, if
\* absent, the newest pre_restore row (_recorded_restore_target).
PlaceSurvivesRelaunch ==
  (/\ standing # NoPoint /\ db = "ok" /\ faults <= 1
   /\ note \in {NoPoint, standing}
   /\ note = NoPoint => Newest({i \in Ids : points[i].kind = "pre_restore"}) \in rows)
  => RecordedRestoreTarget = standing

===============================================================================
