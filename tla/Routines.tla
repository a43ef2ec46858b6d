------------------------------- MODULE Routines -------------------------------
(***************************************************************************)
(* Routines (agent_core/routines/*.py, rpc/routines.py), beside the tool   *)
(* servers whose tools their steps may name.                               *)
(*                                                                         *)
(* A routine is drafted from the last turn or read from a file somebody    *)
(* sent, saved after a yes, and replayed step by step: placeholders filled *)
(* in, the registry asked, the refusals, the gate, the tool, and then what *)
(* the step says to do when it failed.  One worker carries everything out; *)
(* only the answer to a card and Stop reach it while it runs.  The gate's  *)
(* own rules are PermissionGate's: here it may grant, deny or ask, and it  *)
(* has to ask when a step carries text of a file to the web.               *)
(***************************************************************************)
EXTENDS McpServers

CONSTANTS
  FileTools,    \* taint.FILE_READING_TOOL_IDS
  WebTools,     \* taint.NETWORK_BOUND_TOOL_IDS
  Turns,        \* tool ids a chat turn may have called, in order
  Files,        \* shared routine files: sequences of raw steps
  MaxSteps,     \* portable._MAX_STEPS
  MaxRuns,      \* bound: runs ever started
  MaxActs,      \* bound: what the person does
  MaxFaults     \* bound: captures and registrations that fail

ASSUME RoutinesAssumption ==
  /\ FileTools \cup WebTools \subseteq Native
  /\ {MaxSteps, MaxRuns, MaxActs, MaxFaults} \subseteq Nat
  /\ \A calls \in Turns : calls \in Seq(Range(calls))
  /\ \A file \in Files :
       /\ file \in Seq(Range(file))
       /\ \A i \in DOMAIN file : file[i].needs \in Seq(Range(file[i].needs))

VARIABLES
  routines,     \* the routines table: the plans
  points,       \* what restore points hold
  lastTurn,     \* the tool calls of the conversation's last turn
  draft,        \* _draft_routine: the plan proposed, or None
  draftFile,    \* _draft_import: the file previewed, or None
  runs,         \* the routine_runs table: each run's routine and status
  job,          \* the run the worker is in
  card,         \* the card the worker waits on
  answer,       \* what the card was answered
  stopped,      \* _turn_stopped
  acts, faults

library == <<routines, lastTurn, draft, draftFile>>
running == <<job, card, answer>>
vars == <<serverVars, library, points, runs, running, stopped, acts, faults>>

NoJob == [run |-> 0]
Idle == job = NoJob

-----------------------------------------------------------------------------
(* Plans.  A step is [id, tool, needs, uses, else]: needs is depends_on,   *)
(* uses the steps whose results its arguments quote, else is on_failure.   *)

StepIds(plan) == {plan[i].id : i \in DOMAIN plan}
StepOf(plan, id) == plan[CHOOSE i \in DOMAIN plan : plan[i].id = id]
Needs(plan, id) == StepOf(plan, id).needs

\* A walk over a plan: the steps put in order so far, those whose visit has
\* begun, and whether it raised.  A call visits some steps one after the other.
Walks(plan) == [ordered : Seq(StepIds(plan)), visiting : SUBSET StepIds(plan), failed : BOOLEAN]
Calls(plan) ==
  LET named == StepIds(plan) \cup UNION {Range(plan[i].needs) : i \in DOMAIN plan}
  IN  [walk : Walks(plan), steps : Seq(named)]
Call(walk, steps) == [walk |-> walk, steps |-> steps]

\* visit, of one step: what it waits for, then the step; a step that is being
\* visited already, or that no step of the plan is, raises.
Visit(plan, visitEach, walk, step) ==
  IF walk.failed \/ step \in Range(walk.ordered) THEN walk
  ELSE IF step \in walk.visiting \/ step \notin StepIds(plan)
  THEN [walk EXCEPT !.failed = TRUE]
  ELSE LET inside == [walk EXCEPT !.visiting = @ \cup {step}]
           before == visitEach[Call(inside, Needs(plan, step))]
       IN  [before EXCEPT !.ordered = Append(@, step)]

VisitEach(plan) ==
  LET visitEach[call \in Calls(plan)] ==
        IF call.steps = <<>> THEN call.walk
        ELSE visitEach[Call(Visit(plan, visitEach, call.walk, Head(call.steps)),
                            Tail(call.steps))]
  IN  visitEach

\* Slip: the steps run as they are listed.
AsWritten(plan) ==
  [ordered |-> [i \in DOMAIN plan |-> plan[i].id], visiting |-> {}, failed |-> FALSE]

\* topologically_sorted: the steps in the order they run in, or failed.
TopologicallySorted(plan) ==
  VisitEach(plan)[Call([ordered |-> <<>>, visiting |-> {}, failed |-> FALSE],
                       [i \in DOMAIN plan |-> plan[i].id])]

Ordered(plan) ==
  LET order == TopologicallySorted(plan).ordered
  IN  [i \in DOMAIN order |-> StepOf(plan, order[i])]

\* _check_dependencies: every step waited for is in the file, none waits for
\* itself, and taking out steps that wait for nothing that is left takes out all.
\* What is taken out is the least set that has each step whose needs it has.
TakenOut(plan, steps) ==
  \A i \in DOMAIN plan : Range(plan[i].needs) \subseteq steps => plan[i].id \in steps
Done(plan) ==
  {id \in StepIds(plan) :
     \A steps \in SUBSET StepIds(plan) : TakenOut(plan, steps) => id \in steps}

\* Slip: only that the steps waited for exist.
DependenciesAreKnown(plan) ==
  \A i \in DOMAIN plan : Range(plan[i].needs) \subseteq StepIds(plan) \ {plan[i].id}

CheckDependencies(plan) ==
  /\ \A i \in DOMAIN plan :
       Range(plan[i].needs) \subseteq StepIds(plan) \ {plan[i].id}
  /\ Done(plan) = StepIds(plan)

\* parse_portable: what Addison reads a file as being a routine.  No commands,
\* no tools of other people's servers, no two steps of one name, and nothing
\* unknown to be done about a failure.
OnFailure == {"abort", "skip", "ask_user"}
Parses(file) ==
  /\ Len(file) \in 1..MaxSteps
  /\ \A i \in DOMAIN file : /\ file[i].tool # <<"command">> /\ file[i].tool[1] # "mcp"
                            /\ file[i].else \in OnFailure
  /\ \A i, j \in DOMAIN file : file[i].id = file[j].id => i = j
  /\ CheckDependencies(file)

NamesKnownTools(plan) == \A i \in DOMAIN plan : Has(plan[i].tool)

\* propose_from_recent_actions: the last turn's calls, each after the one before.
ProposedStep(i, tool) ==
  [id |-> i, tool |-> tool, needs |-> IF i = 1 THEN <<>> ELSE <<i - 1>>,
   uses |-> {}, else |-> "abort"]
Proposed(calls) == [i \in DOMAIN calls |-> ProposedStep(i, calls[i])]

UsesDevAbilities(plan) == \E i \in DOMAIN plan : plan[i].tool = <<"command">>
NeedsDev(plan) == \E i \in DOMAIN plan : ~Visible(plan[i].tool, "safe")

-----------------------------------------------------------------------------
(* The restore points.  Each holds the servers, the routines and the mode. *)

Now == [servers |-> servers, routines |-> routines, mode |-> mode]
Mint == points' = points \cup {Now}

Quiet == Idle /\ acts < MaxActs
Act == Quiet /\ acts' = acts + 1 /\ stopped' = FALSE /\ UNCHANGED <<runs, running>>
NoFault == UNCHANGED faults
Fault == faults < MaxFaults /\ faults' = faults + 1

-----------------------------------------------------------------------------
(* Servers, on the worker.                                                 *)

AddServer ==
  /\ Act /\ NoFault
  /\ \E name \in ServerNames : McpAdd(name)
  /\ Mint /\ UNCHANGED library

RemoveServer ==
  /\ Act /\ NoFault
  /\ \E row \in servers : McpRemove(row)
  /\ Mint /\ UNCHANGED library

RefreshServer ==
  /\ Act /\ NoFault
  /\ \E row \in servers, reply \in Answers : McpRefresh(row, reply)
  /\ UNCHANGED <<library, points>>

RefreshBreaks ==
  /\ Act /\ Fault
  /\ \E row \in servers, reply \in Answers, n \in 0..MaxTools :
       McpRefreshBreaks(row, reply, n)
  /\ UNCHANGED <<library, points>>

-----------------------------------------------------------------------------
(* The chat, the profile and the restore points, as far as they matter.    *)

\* A turn calls tools its mode shows it.
ChatTurn ==
  /\ Act /\ NoFault
  /\ \E calls \in Turns :
       /\ \A i \in DOMAIN calls : Visible(calls[i], mode)
       /\ lastTurn' = calls
  /\ UNCHANGED <<serverVars, points, routines, draft, draftFile>>

ProfileSet ==
  /\ Act /\ NoFault
  /\ mode' \in Modes \ {mode}
  /\ Mint /\ UNCHANGED <<servers, minted, catalog, library>>

\* Rows and mode of a point come back, its routines too; run rows of a routine
\* that does not come back go, and so do the tools of servers that are gone.
\* The drafts stay.
Restore ==
  /\ Quiet /\ NoFault /\ acts' = acts + 1 /\ stopped' = FALSE
  /\ \E point \in points :
       /\ ServersRestored(point.servers)
       /\ routines' = point.routines
       /\ mode' = point.mode
       /\ runs' = [n \in DOMAIN runs |->
                     IF runs[n].plan \in point.routines THEN runs[n]
                     ELSE [runs[n] EXCEPT !.status = "removed"]]
  /\ points' = points \cup {Now}
  /\ UNCHANGED <<minted, lastTurn, draft, draftFile, running>>

-----------------------------------------------------------------------------
(* The library.                                                            *)

Propose ==
  /\ Act /\ NoFault
  /\ lastTurn # <<>>
  /\ draft' = Proposed(lastTurn)
  /\ UNCHANGED <<serverVars, points, routines, lastTurn, draftFile>>

\* A command step is only saved in Developer; the draft of a refused save stays.
ConfirmSave ==
  /\ Act /\ NoFault
  /\ draft # <<>> /\ (mode = "open" \/ ~UsesDevAbilities(draft))
  /\ routines' = routines \cup {draft} /\ draft' = <<>>
  /\ UNCHANGED <<serverVars, points, lastTurn, draftFile>>

ImportPreview ==
  /\ Act /\ NoFault
  /\ \E file \in Files : Parses(file) /\ NamesKnownTools(file) /\ draftFile' = file
  /\ UNCHANGED <<serverVars, points, routines, lastTurn, draft>>

\* The file is read again; the restore point comes first, and without one
\* nothing is added and the file is kept for another try.
ImportConfirm ==
  /\ Act
  /\ draftFile # <<>>
  /\ IF Parses(draftFile) /\ NamesKnownTools(draftFile)
     THEN \/ NoFault /\ Mint
             /\ routines' = routines \cup {draftFile} /\ draftFile' = <<>>
          \/ Fault /\ UNCHANGED <<points, routines, draftFile>>
     ELSE NoFault /\ draftFile' = <<>> /\ UNCHANGED <<points, routines>>
  /\ UNCHANGED <<serverVars, lastTurn, draft>>

\* The run log of the routine goes with it.
RoutineDelete ==
  /\ Quiet /\ NoFault /\ acts' = acts + 1 /\ stopped' = FALSE
  /\ \E plan \in routines :
       /\ routines' = routines \ {plan}
       /\ runs' = [n \in DOMAIN runs |->
                     IF runs[n].plan # plan THEN runs[n]
                     ELSE [runs[n] EXCEPT !.status = "removed"]]
  /\ Mint /\ UNCHANGED <<serverVars, lastTurn, draft, draftFile, running>>

-----------------------------------------------------------------------------
(* A run: RoutineEngine.run.                                               *)

Step == job.plan[job.at]

\* The texts of files this run read that the step's arguments hold.
Args == UNION {job.results[id].carries : id \in Step.uses \cap DOMAIN job.results}

\* Slip: told only when the step quotes the file's own step.
TaintOfTheStepQuoted == Step.tool \in WebTools /\ job.sources \cap Step.uses # {}

\* RunTaint.line_for: the extra line on the card, when text of a file that is
\* still recognisable is about to leave.
TaintLine == Step.tool \in WebTools /\ job.sources \cap Args # {}

\* RunTaint.record: what a file tool read, unless it is too short to tell.
Tainted(id, tool, long) ==
  job.sources \cup (IF tool \in FileTools /\ long THEN {id} ELSE {})

Resolves == Step.uses \subseteq DOMAIN job.results

\* _pre_gate_refusal, the part the plan decides.
PreGateRefusal == (mode # "open" /\ DevOnly(Step.tool)) \/ Step.tool \in LiveOnly

MayReachGate == Resolves /\ Has(Step.tool) /\ ~PreGateRefusal

NoCard == card' = None /\ answer' = None
Finish(status) ==
  /\ runs' = [runs EXCEPT ![job.run].status = status]
  /\ job' = NoJob /\ NoCard

\* The next step, or the end.
Advance(done) ==
  IF done.at = Len(done.plan)
  THEN Finish("completed")
  ELSE job' = [done EXCEPT !.at = @ + 1, !.told = FALSE] /\ NoCard /\ UNCHANGED runs

\* _record_step: the one place on_failure is read.
RecordStep(result, sources) ==
  LET done == [job EXCEPT !.results = With(@, Step.id, result), !.sources = sources]
  IN  CASE ~result.ok /\ Step.else = "abort" -> Finish("failed")
        [] ~result.ok /\ Step.else = "ask_user" ->
             IF stopped THEN Finish("cancelled")
             ELSE job' = done /\ card' = "keepGoing" /\ answer' = None /\ UNCHANGED runs
        [] OTHER -> Advance(done)

Failed == [ok |-> FALSE, carries |-> {}, long |-> FALSE]

Working == ~Idle /\ card = None
StillSaved == UNCHANGED <<serverVars, library, points, stopped, acts>>

\* routine.run: refused in Simple when the plan needs Developer; the run's row
\* is written before the steps are put in order.
StartRun ==
  /\ Quiet /\ acts' = acts + 1 /\ NoFault /\ stopped' = FALSE
  /\ Len(runs) < MaxRuns
  /\ \E plan \in routines :
       /\ mode = "open" \/ ~NeedsDev(plan)
       /\ LET n == Len(runs) + 1
              circle == TopologicallySorted(plan).failed
          IN  /\ runs' = Append(runs, [plan |-> plan, status |-> IF circle THEN "failed" ELSE "running"])
              /\ job' = IF circle THEN NoJob
                        ELSE [run |-> n, plan |-> Ordered(plan), at |-> 1, results |-> <<>>,
                              sources |-> {}, told |-> FALSE, yes |-> {}]
  /\ UNCHANGED <<serverVars, library, points, card, answer>>

\* A placeholder nothing fills ends the run: a result of a step that has not
\* run, or a value nobody gave.
Unresolved ==
  /\ Working
  /\ Finish("failed")
  /\ StillSaved /\ NoFault

\* An id nothing is registered under, a refusal of the plan, or one of the path
\* and forbidden checks, which depend on the arguments.
StepRefused ==
  /\ Working /\ Resolves
  /\ RecordStep(Failed, job.sources)
  /\ StillSaved /\ NoFault

\* The gate puts the card up, with the extra line when there is one.
GateAsks ==
  /\ Working /\ MayReachGate /\ ~stopped
  /\ card' = "permission" /\ answer' = None
  /\ job' = [job EXCEPT !.told = TaintLine]
  /\ UNCHANGED runs /\ StillSaved /\ NoFault

\* A refusal it remembers, the person's no, or a card that may not be raised any
\* more after Stop: the run is over, whatever the step says about failing.
GateDenies ==
  /\ \/ Working /\ MayReachGate
     \/ card = "permission" /\ answer = "deny"
  /\ Finish("failed")
  /\ StillSaved /\ NoFault

\* Granted: without a card only when nothing forces one.
Cleared ==
  \/ Working /\ MayReachGate /\ ~TaintLine
  \/ card = "permission" /\ answer = "allow"

\* What a tool may come back with; a server's tool has to find its server.
Outcomes ==
  LET own == IF Step.tool \in FileTools THEN {Step.id} ELSE {}
      reached == Step.tool \in Native
                   \/ \E entry \in registry : entry.id = Step.tool /\ Endpoint(entry) # 0
  IN  {Failed} \cup
      {o \in [ok : {TRUE}, carries : {own, own \cup Args}, long : BOOLEAN] :
         reached /\ (o.long => Step.tool \in FileTools)}

ToolRuns ==
  /\ Cleared
  /\ \E result \in Outcomes :
       RecordStep(result, IF result.ok THEN Tainted(Step.id, Step.tool, result.long)
                          ELSE job.sources)
  /\ StillSaved /\ NoFault

\* The tool ran and its snapshot cannot be recorded: the exception ends the job
\* and leaves the run's row as it was.
Unrecorded ==
  /\ Cleared /\ Fault
  /\ job' = NoJob /\ NoCard
  /\ UNCHANGED runs /\ StillSaved

\* _ask_user_continue, answered.
KeepGoing ==
  /\ card = "keepGoing" /\ answer # None
  /\ IF answer = "allow"
     THEN Advance([job EXCEPT !.yes = @ \cup {Step.id}])
     ELSE Finish("cancelled")
  /\ StillSaved /\ NoFault

WorkerStep ==
  \/ Unresolved \/ StepRefused \/ GateAsks \/ GateDenies \/ ToolRuns \/ Unrecorded \/ KeepGoing

\* permission.respond and conversation.stop, on the read loop.  Until the worker
\* has taken the card down, a later answer replaces the one before, Stop's too.
Respond ==
  /\ card # None
  /\ answer' \in {"allow", "deny"}
  /\ UNCHANGED <<serverVars, library, points, runs, job, card, stopped, acts, faults>>

\* Slip: Stop knows permission cards only.
StopLeavesThePause == IF card = "permission" THEN "deny" ELSE answer

StopAnswers == IF card # None THEN "deny" ELSE answer

Stop ==
  /\ ~Idle
  /\ stopped' = TRUE
  /\ answer' = StopAnswers
  /\ UNCHANGED <<serverVars, library, points, runs, job, card, acts, faults>>

\* The app dies and is started again: what is in memory is gone, rows stay.
Relaunch ==
  /\ acts < MaxActs /\ acts' = acts + 1 /\ NoFault
  /\ found' = <<>> /\ idsOf' = <<>> /\ registry' = {}
  /\ draft' = <<>> /\ draftFile' = <<>> /\ lastTurn' = <<>>
  /\ job' = NoJob /\ NoCard /\ stopped' = FALSE
  /\ UNCHANGED <<servers, minted, mode, routines, points, runs>>

-----------------------------------------------------------------------------

Init ==
  /\ ServersInit
  /\ routines = {} /\ lastTurn = <<>> /\ draft = <<>> /\ draftFile = <<>>
  /\ points = {} /\ runs = <<>>
  /\ job = NoJob /\ card = None /\ answer = None /\ stopped = FALSE
  /\ acts = 0 /\ faults = 0

Next ==
  \/ AddServer \/ RemoveServer \/ RefreshServer \/ RefreshBreaks
  \/ ChatTurn \/ ProfileSet \/ Restore
  \/ Propose \/ ConfirmSave \/ ImportPreview \/ ImportConfirm \/ RoutineDelete
  \/ StartRun \/ WorkerStep \/ Respond \/ Stop \/ Relaunch

\* The worker goes on with its job; people answer cards when they like.
Spec == Init /\ [][Next]_vars /\ WF_vars(WorkerStep)

-----------------------------------------------------------------------------
(* Properties.                                                             *)

\* portable._check_dependencies against engine.topologically_sorted: two readings
\* of "waits for", written twice.  Whatever file was accepted, the routine saved
\* from it has an order to run in, each step once, so a run never ends at once
\* because of a circle.
EveryRoutineCanStart ==
  \A plan \in routines :
    /\ ~TopologicallySorted(plan).failed
    /\ Len(Ordered(plan)) = Len(plan) /\ StepIds(Ordered(plan)) = StepIds(plan)

\* A step's tool runs once in a run, after every step it waits for has been
\* through, and after a step that failed only if that step said skip or the
\* person said to keep going: a run that a person ended or a step aborted does
\* nothing more.
ReplayFollowsThePlan ==
  [][ToolRuns =>
       /\ Step.id \notin DOMAIN job.results
       /\ Range(Step.needs) \subseteq DOMAIN job.results
       /\ \A i \in 1..(job.at - 1) :
            LET before == job.plan[i]
            IN  ~job.results[before.id].ok => before.else = "skip" \/ before.id \in job.yes
    ]_vars

\* taint.py: text long enough to be recognised that a file tool read in this run
\* is in the arguments of a step that goes to the web, by whatever steps it got
\* there, only when a card that said so was answered yes.
FileTextIsTold ==
  [][ToolRuns /\ Step.tool \in WebTools
       /\ (\E id \in Args : job.results[id].ok /\ job.results[id].long) =>
         card = "permission" /\ answer = "allow" /\ job.told]_vars

\* conversation.stop: a run somebody stopped comes to its end without anybody
\* answering a card, at whichever card or between whichever steps Stop found it.
StopEndsTheRun ==
  \A n \in 1..MaxRuns : (job.run = n /\ stopped) ~> job.run # n
===============================================================================
