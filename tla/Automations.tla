----------------------------- MODULE Automations -----------------------------
(***************************************************************************)
(* Automations, and the bridge their calls to the shell go through         *)
(* (agent_core/shell_bridge.py, tools/create_automation.py,                *)
(* tools/arm_automation.py, tools/disarm_automation.py,                    *)
(* rpc/automations.py; agent_process.rs and automation.rs on the shell's   *)
(* side).                                                                  *)
(*                                                                         *)
(* A row says what the computer is to run; whether it runs is launchd's to *)
(* say, and only the shell can ask it.  The worker does one thing at a     *)
(* time and waits for its call; the folder picker has a thread of its own. *)
(* The shell carries calls out on tasks of their own, in any order, late,  *)
(* and after the core that asked has died.                                 *)
(***************************************************************************)
EXTENDS Naturals, Sequences, FiniteSets, SequencesExt

CONSTANTS
  Labels,     \* the labels one name may get, in the order they are tried
  Commands,
  MaxActs,    \* bound: what the person and the model do
  MaxCalls    \* bound: calls to the shell

ASSUME AutomationsAssumption == Labels # <<>> /\ {MaxActs, MaxCalls} \subseteq Nat

None == "none"
Threads == {"worker", "picker"}

VARIABLES
  rows,       \* the automations table
  trail,      \* unreverted action snapshots, newest last
  points,     \* the rows restore points hold
  job,        \* what the worker is doing
  \* the bridge
  counter,    \* _counter
  pending,    \* _pending
  asked, waiting, answered, told,
  \* the shell
  live,       \* a core is running
  cores,      \* how many were started
  generation,
  pipe,       \* requests the core wrote and the pump has not read
  pump,       \* the request the pump awaits
  tasks,
  frames,     \* answers on the core's stdin
  \* launchd
  file, loaded,
  refused,    \* history: labels whose job launchctl last would not unload, and said so
  blind,      \* history: calls answered from a folder that was not read to its end
  lost,       \* history: labels of an arming that somebody stopped waiting for
  acts

core == <<rows, trail, points, job>>
bridge == <<counter, pending, asked, waiting, told>>
shell == <<live, cores, generation, pipe, pump, tasks, frames, answered>>
launchd == <<file, loaded, refused, blind>>
vars == <<core, bridge, shell, launchd, lost, acts>>

Idle == [is |-> "idle", label |-> None, id |-> 0]
Nobody == [n |-> 0, id |-> 0, request |-> None]

Request(what, label, command) == [what |-> what, label |-> label, command |-> command]
Ok(armed) == [ok |-> TRUE, armed |-> armed]
NotOk == [ok |-> FALSE, armed |-> {}]
NoAnswer == [ok |-> FALSE, armed |-> {None}]
Answers == {NotOk} \cup {Ok(s) : s \in SUBSET Range(Labels)}

Init ==
  /\ rows = {} /\ trail = <<>> /\ points = {{}} /\ job = Idle
  /\ counter = 0 /\ pending = <<>> /\ asked = 0 /\ answered = {}
  /\ waiting = [t \in Threads |-> 0] /\ told = [t \in Threads |-> <<0, NoAnswer>>]
  /\ live = TRUE /\ cores = 1 /\ generation = 1
  /\ pipe = <<>> /\ pump = Nobody /\ tasks = {} /\ frames = {}
  /\ file = [l \in Range(Labels) |-> None] /\ loaded = file
  /\ refused = {} /\ blind = {} /\ lost = {} /\ acts = 0

-----------------------------------------------------------------------------
(* The bridge.                                                             *)

\* _call: a waiter under a new id, then the frame.
Call(t, request) ==
  /\ asked < MaxCalls
  /\ asked' = asked + 1 /\ counter' = counter + 1
  /\ waiting' = [waiting EXCEPT ![t] = asked']
  /\ pending' = [id \in DOMAIN pending \cup {counter'} |->
                   IF id = counter' THEN [thread |-> t, event |-> FALSE, result |-> <<0, NoAnswer>>] ELSE pending[id]]
  /\ pipe' = Append(pipe, [n |-> asked', id |-> counter', request |-> request])
  /\ UNCHANGED <<told, live, cores, generation, pump, tasks, frames, answered>>

Popped(id) == [i \in DOMAIN pending \ {id} |-> pending[i]]

\* The thread's call is over, with its answer or with none.
Return(t, result) ==
  /\ \E id \in DOMAIN pending :
       /\ pending[id].thread = t
       /\ \/ pending[id].event /\ result = pending[id].result
          \/ result = <<waiting[t], NoAnswer>>      \* the wait ran out, an answer just in or not
       /\ pending' = Popped(id)
  /\ told' = [told EXCEPT ![t] = result]
  /\ waiting' = [waiting EXCEPT ![t] = 0]
  /\ UNCHANGED <<counter, asked, shell>>

\* resolve_response, on the read loop; an answer nobody waits for is dropped.
ResolveResponse ==
  \E f \in frames :
    /\ frames' = frames \ {f}
    /\ pending' = IF f.id \in DOMAIN pending
                  THEN [pending EXCEPT ![f.id].event = TRUE, ![f.id].result = <<f.n, f.answer>>]
                  ELSE pending
    /\ UNCHANGED <<core, counter, asked, waiting, told, live, cores, generation, pipe, pump, tasks,
                   answered, launchd, lost, acts>>

-----------------------------------------------------------------------------
(* The shell.                                                              *)

\* handle_line: a folder dialog is awaited on the pump, the rest goes off it.
PumpReads ==
  /\ pipe # <<>> /\ pump = Nobody
  /\ pipe' = Tail(pipe)
  /\ IF Head(pipe).request.what = "pick"
       THEN pump' = Head(pipe) /\ UNCHANGED tasks
       ELSE /\ tasks' = tasks \cup {[asks |-> Head(pipe), generation |-> 0, answer |-> <<>>]}
            /\ UNCHANGED pump
  /\ UNCHANGED <<core, bridge, live, cores, generation, frames, answered, launchd, lost, acts>>

\* spawn_request: the task's first step looks which core asked.
TaskStarts ==
  \E k \in tasks :
    /\ k.generation = 0
    /\ tasks' = (tasks \ {k}) \cup {[k EXCEPT !.generation = generation]}
    /\ UNCHANGED <<core, bridge, live, cores, generation, pipe, pump, frames, answered, launchd, lost, acts>>

\* arm_inner.  launchctl may refuse, or not answer in time and have done it or not.
ShellArms(l, c, a) ==
  \/ a = NotOk /\ UNCHANGED launchd                     \* the file could not be written
  \/ /\ \E before \in {None, loaded[l]} :
          \/ /\ before = None /\ a = Ok({})
             /\ file' = [file EXCEPT ![l] = c] /\ loaded' = [loaded EXCEPT ![l] = c]
          \/ /\ a = NotOk /\ file' = [file EXCEPT ![l] = None]
             /\ \E left \in IF before = None THEN {None, c} ELSE {before} :
                  loaded' = [loaded EXCEPT ![l] = left]
     /\ UNCHANGED <<refused, blind>>

\* disarm_inner before its review: no answer passed for "it was not loaded".
ShellDisarmsRegardless(l, a) ==
  \E left \in {None, loaded[l]} :
    /\ a = Ok({}) /\ file' = [file EXCEPT ![l] = None]
    /\ loaded' = [loaded EXCEPT ![l] = left]
    /\ UNCHANGED <<refused, blind>>

\* launchctl bootout: no answer, unloaded, or an answer that it could not: for want of a
\* job, as a rule.
BootoutHangs(l) == /\ \E left \in {None, loaded[l]} : loaded' = [loaded EXCEPT ![l] = left]
                   /\ UNCHANGED refused
BootoutWorks(l) == loaded' = [loaded EXCEPT ![l] = None] /\ refused' = refused \ {l}
BootoutFails(l) == UNCHANGED loaded /\ refused' = IF loaded[l] = None THEN refused ELSE refused \cup {l}

\* disarm_inner.  Without an answer from launchctl the file stays: it names the job.
\* Whatever launchctl answered, the file goes.
ShellDisarms(l, a) ==
  /\ \/ BootoutHangs(l) /\ a = NotOk /\ UNCHANGED file
     \/ /\ BootoutWorks(l) \/ BootoutFails(l)
        /\ \/ a = Ok({}) /\ file' = [file EXCEPT ![l] = None]
           \/ a = NotOk /\ UNCHANGED file               \* it could not be removed
  /\ UNCHANGED blind

\* list_armed reads the folder, not launchd.  No home, a folder or an entry that cannot be
\* read is no error: what was not seen is not in the list.
Installed == {l \in Range(Labels) : file[l] # None}
ShellLists(n, a) ==
  /\ \E seen \in SUBSET Installed :
       a = Ok(seen) /\ blind' = IF seen = Installed THEN blind ELSE blind \cup {n}
  /\ UNCHANGED <<file, loaded, refused>>

\* q is a call, numbered, with its request.
CarryOut(q, a) ==
  LET r == q.request IN
  \/ r.what = "arm" /\ ShellArms(r.label, r.command, a)
  \/ r.what = "disarm" /\ ShellDisarms(r.label, a)
  \/ r.what = "list" /\ ShellLists(q.n, a)
  \/ r.what = "pick" /\ a \in {NotOk, Ok({})} /\ UNCHANGED launchd

TaskWorks ==
  \E k \in tasks, a \in Answers :
    /\ k.generation # 0 /\ k.answer = <<>>
    /\ CarryOut(k.asks, a)
    /\ answered' = answered \cup {<<k.asks.n, a>>}
    /\ tasks' = (tasks \ {k}) \cup {[k EXCEPT !.answer = <<a>>]}
    /\ UNCHANGED <<core, bridge, live, cores, generation, pipe, pump, frames, lost, acts>>

\* The answer goes to the core that asked or to none: another core counts from one again.
SomeCoreIsThere(k) == live
StillTheAskingCore(k) == k.generation = generation
TaskAnswers ==
  \E k \in tasks :
    /\ k.answer # <<>>
    /\ tasks' = tasks \ {k}
    /\ frames' = IF live /\ StillTheAskingCore(k)
                 THEN frames \cup {[n |-> k.asks.n, id |-> k.asks.id, answer |-> k.answer[1]]} ELSE frames
    /\ UNCHANGED <<core, bridge, live, cores, generation, pipe, pump, answered, launchd, lost, acts>>

PumpAnswers ==
  /\ pump # Nobody
  /\ \E a \in Answers :
       /\ CarryOut(pump, a)
       /\ answered' = answered \cup {<<pump.n, a>>}
       /\ frames' = IF live THEN frames \cup {[n |-> pump.n, id |-> pump.id, answer |-> a]} ELSE frames
  /\ pump' = Nobody
  /\ UNCHANGED <<core, bridge, live, cores, generation, pipe, tasks, lost, acts>>

\* The core dies; the store and launchd stay.  supervise starts one more.
CoreDies ==
  /\ live /\ live' = FALSE
  /\ pending' = <<>> /\ frames' = {}
  /\ waiting' = [t \in Threads |-> 0]
  /\ lost' = IF job.is = "arm" THEN lost \cup {job.label} ELSE lost
  /\ job' = Idle
  /\ UNCHANGED <<rows, trail, points, counter, asked, told, cores, generation, pipe, pump, tasks,
                 answered, launchd, acts>>

\* What supervise relies on: in the second and a half before the next core, every task
\* that was spawned has taken its first step.
RespawnTakesSeconds == \A k \in tasks : k.generation # 0

\* The pump has read the last line; the channel closes, and opens for the next core.
Respawn ==
  /\ ~live /\ cores = 1 /\ pipe = <<>> /\ pump = Nobody
  /\ RespawnTakesSeconds
  /\ live' = TRUE /\ cores' = 2 /\ generation' = generation + 2 /\ counter' = 0
  /\ UNCHANGED <<core, pending, asked, waiting, told, pipe, pump, tasks, frames, answered, launchd,
                 lost, acts>>

-----------------------------------------------------------------------------
(* The worker.                                                             *)

Saved == {r.label : r \in rows}
Rows(id) == {r \in rows : r.id = id}

Act == live /\ job = Idle /\ acts < MaxActs /\ acts' = acts + 1
Quiet == UNCHANGED <<bridge, shell, launchd, lost>>

\* derive_label: the first one no row has.
DeriveLabel(l) ==
  \E i \in DOMAIN Labels :
    l = Labels[i] /\ l \notin Saved /\ \A j \in 1..(i - 1) : Labels[j] \in Saved

\* create_automation, and the snapshot of its undo.
CreateAutomation(c) ==
  /\ Act
  /\ \E l \in Range(Labels) :
       /\ DeriveLabel(l)
       /\ rows' = rows \cup {[id |-> acts', label |-> l, command |-> c]}
       /\ trail' = Append(trail, [undoes |-> "create", id |-> acts', label |-> l])
  /\ UNCHANGED <<points, job>> /\ Quiet

\* A restore replaces every row, and does nothing to the computer.
Restore ==
  /\ Act
  /\ rows' \in points \ {rows}
  /\ UNCHANGED <<trail, points, job>> /\ Quiet

Begin(what, l, id, request) ==
  /\ job' = [is |-> what, label |-> l, id |-> id]
  /\ Call("worker", request)
  /\ UNCHANGED <<launchd, lost>>

\* arm_automation, once the person typed the card's code; disarm_automation; disarmOrphan.
ArmAutomation(r) ==
  /\ Act /\ Begin("arm", r.label, r.id, Request("arm", r.label, r.command))
  /\ UNCHANGED <<rows, trail, points>>
DisarmAutomation(r) ==
  /\ Act /\ Begin("disarm", r.label, r.id, Request("disarm", r.label, None))
  /\ UNCHANGED <<rows, trail, points>>
DisarmOrphan(l) ==
  /\ Act /\ l \notin Saved
  /\ Begin("disarm", l, 0, Request("disarm", l, None))
  /\ UNCHANGED <<rows, trail, points>>

\* automation.remove: the restore point, then what launchd holds, then the row.
AutomationRemove(r) ==
  /\ Act /\ points' = points \cup {rows}
  /\ Begin("list", r.label, r.id, Request("list", r.label, None))
  /\ UNCHANGED <<rows, trail>>

\* undo_last: the row goes at once, a job only through the shell.
UndoLast ==
  /\ Act /\ trail # <<>>
  /\ IF Last(trail).undoes = "create"
       THEN /\ rows' = rows \ Rows(Last(trail).id)
            /\ trail' = Front(trail)
            /\ UNCHANGED <<points, job>> /\ Quiet
       ELSE /\ Begin("undo", Last(trail).label, 0, Request("disarm", Last(trail).label, None))
            /\ UNCHANGED <<rows, trail, points>>

ArmReturns ==
  /\ job.is = "arm"
  /\ \E n \in 1..asked, a \in Answers \cup {NoAnswer} :
       /\ Return("worker", <<n, a>>)
       /\ trail' = IF a.ok THEN Append(trail, [undoes |-> "arm", id |-> job.id, label |-> job.label]) ELSE trail
       /\ lost' = IF a = NoAnswer THEN lost \cup {job.label} ELSE lost
  /\ job' = Idle /\ UNCHANGED <<rows, points, launchd, acts>>

DisarmReturns ==
  /\ job.is = "disarm"
  /\ \E n \in 1..asked, a \in Answers \cup {NoAnswer} : Return("worker", <<n, a>>)
  /\ job' = Idle /\ UNCHANGED <<rows, trail, points, launchd, lost, acts>>

\* ArmAutomationTool.undo looks at no answer; only a call that ran out stays to be undone.
UndoReturns ==
  /\ job.is = "undo"
  /\ \E n \in 1..asked, a \in Answers \cup {NoAnswer} :
       /\ Return("worker", <<n, a>>)
       /\ trail' = IF a = NoAnswer THEN trail ELSE Front(trail)
  /\ job' = Idle /\ UNCHANGED <<rows, points, launchd, lost, acts>>

\* _disarm_before_forgetting.
ForgetsAnyway(a) == TRUE
MayForget(a) == a.ok
Forget == rows' = rows \ Rows(job.id) /\ job' = Idle

ListReturns ==
  /\ job.is = "list"
  /\ \E n \in 1..asked, a \in Answers \cup {NoAnswer} :
       /\ Return("worker", <<n, a>>)
       /\ IF ~a.ok THEN job' = Idle /\ UNCHANGED rows
          ELSE IF job.label \notin a.armed THEN Forget
          ELSE job' = [job EXCEPT !.is = "toDisarm"] /\ UNCHANGED rows
  /\ UNCHANGED <<trail, points, launchd, lost, acts>>

DisarmFirst ==
  /\ job.is = "toDisarm"
  /\ Begin("remove", job.label, job.id, Request("disarm", job.label, None))
  /\ UNCHANGED <<rows, trail, points, acts>>

RemoveReturns ==
  /\ job.is = "remove"
  /\ \E n \in 1..asked, a \in Answers \cup {NoAnswer} :
       /\ Return("worker", <<n, a>>)
       /\ IF MayForget(a) THEN Forget ELSE job' = Idle /\ UNCHANGED rows
  /\ UNCHANGED <<trail, points, launchd, lost, acts>>

WorkerReturns == ArmReturns \/ DisarmReturns \/ UndoReturns \/ ListReturns \/ RemoveReturns

\* workspace.pickDirectory, on a thread of its own.
PickDirectory ==
  /\ live /\ waiting["picker"] = 0 /\ acts < MaxActs /\ acts' = acts + 1
  /\ Call("picker", Request("pick", None, None))
  /\ UNCHANGED <<core, launchd, lost>>
PickReturns ==
  /\ \E n \in 1..asked, a \in Answers \cup {NoAnswer} : Return("picker", <<n, a>>)
  /\ UNCHANGED <<core, launchd, lost, acts>>

Next ==
  \/ \E c \in Commands : CreateAutomation(c)
  \/ \E r \in rows : ArmAutomation(r) \/ DisarmAutomation(r) \/ AutomationRemove(r)
  \/ \E l \in Range(Labels) : DisarmOrphan(l)
  \/ UndoLast \/ Restore \/ DisarmFirst \/ WorkerReturns
  \/ PickDirectory \/ PickReturns
  \/ ResolveResponse
  \/ PumpReads \/ PumpAnswers \/ TaskStarts \/ TaskWorks \/ TaskAnswers
  \/ CoreDies \/ Respawn

\* event.wait ends by itself; nothing makes the shell answer.
Spec == Init /\ [][Next]_vars /\ WF_vars(WorkerReturns) /\ WF_vars(PickReturns)

-----------------------------------------------------------------------------
(* Every call to the shell is carried out at most once and comes back with its own      *)
(* answer or with none: late answers, answers out of order and the answers of a core    *)
(* that died reach nobody (shell_bridge.py _call, resolve_response; agent_process.rs    *)
(* spawn_request).                                                                      *)
Calls == INSTANCE ShellCalls
  WITH Threads <- Threads, Answers <- Answers, NoAnswer <- NoAnswer,
       asked <- asked, waiting <- waiting, answered <- answered, told <- told
CallsComeBack == Calls!Spec

(* When the person is told an automation is off, nothing of it is found at the next     *)
(* login, and launchd does not hold it until then either (disarm_automation.py "Your    *)
(* computer won't run it any more"), but for a job that launchctl answered it could not *)
(* unload: the file is gone, and bootout "is best effort" (automation.rs disarm_inner). *)
(* An earlier arming that Addison stopped waiting for may still come true.              *)
Finished(what) ==
  job.is = what /\ job' = Idle /\ waiting["worker"] # 0 /\ told'["worker"][1] = waiting["worker"]
Off(l) == file[l] = None /\ (loaded[l] = None \/ l \in refused)
SwitchedOffIsOff ==
  [][Finished("disarm") /\ told'["worker"][2].ok => Off(job.label) \/ job.label \in lost]_vars

(* automation.remove takes a row away only when nothing of it is left for the next      *)
(* login (rpc/automations.py "The OS first, the record second"), or when the shell left *)
(* it out of a list it had not read to its end.  Undo and restore take rows away too,   *)
(* and say nothing of launchd.                                                          *)
RemovedIsNotInstalled ==
  [][\A l \in Range(Labels) : job.is \in {"list", "remove"} /\ l \in Saved /\ l \notin Saved' =>
       file[l] = None \/ l \in lost \/ (job.is = "list" /\ waiting["worker"] \in blind)]_vars
=============================================================================
