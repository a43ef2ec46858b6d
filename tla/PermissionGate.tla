---------------------------- MODULE PermissionGate ----------------------------
(***************************************************************************)
(* The permission gate (agent_core/permissions/gate.py), with the jobs     *)
(* that call it and the settings that move it.                             *)
(*                                                                         *)
(* Jobs run one at a time on the worker, so a call of the gate, with the   *)
(* card it may put up, is one action.  The callers are a chat turn, at the *)
(* desk or from a paired phone (orchestrator._run_tool_calls), a routine   *)
(* run (routines/engine.py) and a command widget (rpc/widgets.py).         *)
(* Between jobs the person may switch profile, set the two guards of the   *)
(* Custom profile, save a restore point and go back to it.                 *)
(***************************************************************************)
EXTENDS Naturals

CONSTANTS
  Tools,        \* tool ids
  Destructive,  \* those whose calls are destructive (tools.base.call_is_destructive)
  ArmingTools,  \* those with an arming card; live_only in the registry
  PathTools,    \* those with an affected path, confined to trusted folders
  DevOnly,      \* those the registry refuses outside OPEN
  RemoteTools,  \* REMOTE_TOOL_IDS, those a turn from a phone may use
  WidgetTool    \* run_command, the one tool a command widget runs

ASSUME ToolAssumption ==
  /\ Destructive \subseteq Tools
  /\ ArmingTools \subseteq Destructive \cap DevOnly
  /\ PathTools \subseteq Tools \ ArmingTools
  /\ RemoteTools \subseteq Tools \ (Destructive \cup PathTools)
  /\ DevOnly \subseteq Tools
  /\ WidgetTool \in Destructive \cap DevOnly
  /\ WidgetTool \notin ArmingTools \cup PathTools

VARIABLES
  profile,        \* the active profile; the policy mode derives from it
  guards,         \* the stored GuardConfig, in force under Custom only
  saved,          \* the posture held by the restore point
  anchored,       \* a permanent anchor was minted for a weakened guard
  grants,         \* _grants
  denied,         \* _denied
  sessionGrants,  \* _destructive_session_grants
  job,            \* what the worker runs, or "ending" when it will call no more
  last,           \* history: the last call decided in this job
  saidNo,         \* history: tools refused on a card in this job
  approved        \* history: tools approved on a card under this posture

gateVars    == <<grants, denied, sessionGrants>>
postureVars == <<profile, guards, saved, anchored>>
allVars == <<postureVars, gateVars, job, last, saidNo, approved>>

Jobs     == {"turn", "remote", "routine", "widget"}
Profiles == {"simple", "developer", "custom"}
Cards    == {"session", "per_invocation"}
Scopes   == {"everything", "non_destructive", "none"}
Guards   == [card : Cards, scope : Scopes]
Defaults == [card |-> "per_invocation", scope |-> "non_destructive"]

\* mode_for_profile, and _effective_guards: the stored pair counts under Custom.
Mode == IF profile = "simple" THEN "SAFE" ELSE "OPEN"
Effective == IF profile = "custom" THEN guards ELSE Defaults

\* weakenings_between: a guard moved to a lower strictness rank.
Rank == [session |-> 0, per_invocation |-> 1,
         everything |-> 0, non_destructive |-> 1, none |-> 2]
Weaker(new, old) == Rank[new.card] < Rank[old.card] \/ Rank[new.scope] < Rank[old.scope]

NoCall == [tool |-> WidgetTool, via |-> "nothing", granted |-> FALSE]

GateInit ==
  /\ profile = "simple"
  /\ guards = Defaults
  /\ saved = [profile |-> "simple", guards |-> Defaults]
  /\ anchored = FALSE
  /\ grants = {} /\ denied = {} /\ sessionGrants = {}
  /\ job = "idle"
  /\ last = NoCall
  /\ saidNo = {} /\ approved = {}

-----------------------------------------------------------------------------
(* authorize: which way a call goes.  Some operators come with a slip a    *)
(* change to them could make; none of those is part of the specification.  *)

\* What a caller passes besides the tool: whether the resolved path is inside a
\* trusted root, whether an arming preview came back and whether the tool insists
\* on one, and whether a card is forced.
Requests ==
  [tool : Tools, trusted : BOOLEAN, requires : BOOLEAN, preview : BOOLEAN, force : BOOLEAN]

\* The branches of authorize below the arming ceremony, in their order.
OrdinaryRoute(r) ==
  IF r.force THEN "once"
  ELSE IF Mode = "SAFE" THEN IF r.tool \in Destructive THEN "once" ELSE "coarse"
  ELSE IF Effective.scope = "everything" THEN "auto"
  ELSE IF r.tool \notin Destructive
       THEN IF Effective.scope = "none" THEN "coarse" ELSE "auto"
  ELSE IF r.trusted /\ Effective.scope # "none" /\ r.tool \notin denied THEN "auto"
  ELSE IF Effective.card = "session" THEN "session"
  ELSE "once"

\* authorize: a tool that insists on the ceremony gets it or is refused.
Route(r) ==
  IF r.requires /\ ~r.preview THEN "refuse"
  ELSE IF r.preview THEN "arming"
  ELSE OrdinaryRoute(r)

\* An earlier approval that answers the call without a card.
Remembered(r) ==
  \/ Route(r) = "coarse" /\ r.tool \in grants
  \/ Route(r) = "session" /\ r.tool \in sessionGrants

\* A call that goes to the person unless a "Not now" is still in force.
NeedsPerson(r) == Route(r) \in {"arming", "once", "coarse", "session"} /\ ~Remembered(r)

Decide(t, via, granted) ==
  /\ last' = [tool |-> t, via |-> via, granted |-> granted]
  \* A routine stops at a refusal, whatever its steps' on_failure says, and a
  \* widget makes the one call; a turn goes on.
  /\ job' = IF job = "widget" \/ (job = "routine" /\ ~granted) THEN "ending" ELSE job

AutoGrant(r) ==
  /\ Route(r) = "auto"
  /\ Decide(r.tool, "auto", TRUE)
  /\ UNCHANGED <<postureVars, gateVars, saidNo, approved>>

RefuseWithoutPreview(r) ==
  /\ Route(r) = "refuse"
  /\ Decide(r.tool, "refuse", FALSE)
  /\ UNCHANGED <<postureVars, gateVars, saidNo, approved>>

RideOnApproval(r) ==
  /\ Remembered(r)
  /\ Decide(r.tool, "remembered", TRUE)
  /\ UNCHANGED <<postureVars, gateVars, saidNo, approved>>

RideOnDenial(r) ==
  /\ NeedsPerson(r)
  /\ r.tool \in denied
  /\ Decide(r.tool, "denied before", FALSE)
  /\ UNCHANGED <<postureVars, gateVars, saidNo, approved>>

\* Asked again in spite of the earlier answer.
CardAfterNotNow(r) ==
  /\ NeedsPerson(r)
  /\ Decide(r.tool, "card", TRUE)
  /\ grants' = IF Route(r) = "coarse" THEN grants \cup {r.tool} ELSE grants
  /\ sessionGrants' = IF Route(r) = "session" THEN sessionGrants \cup {r.tool}
                      ELSE sessionGrants
  /\ approved' = approved \cup {r.tool}
  /\ UNCHANGED <<postureVars, denied, saidNo>>

\* The card comes up and the person allows it.  Only the coarse and the Ask-once
\* card leave anything behind, each in its own set.
CardAllowed(r) ==
  /\ NeedsPerson(r)
  /\ r.tool \notin denied
  /\ Decide(r.tool, "card", TRUE)
  /\ grants' = IF Route(r) = "coarse" THEN grants \cup {r.tool} ELSE grants
  /\ denied' = IF Route(r) = "coarse" THEN denied \ {r.tool} ELSE denied
  /\ sessionGrants' = IF Route(r) = "session" THEN sessionGrants \cup {r.tool}
                      ELSE sessionGrants
  /\ approved' = approved \cup {r.tool}
  /\ UNCHANGED <<postureVars, saidNo>>

\* The card comes up and the answer is no: "Not now", a wrong code, or Stop.
CardRefused(r) ==
  /\ NeedsPerson(r)
  /\ r.tool \notin denied
  /\ Decide(r.tool, "card", FALSE)
  /\ denied' = denied \cup {r.tool}
  /\ saidNo' = saidNo \cup {r.tool}
  /\ UNCHANGED <<postureVars, grants, sessionGrants, approved>>

Authorize(r) ==
  \/ AutoGrant(r) \/ RefuseWithoutPreview(r) \/ RideOnApproval(r)
  \/ RideOnDenial(r) \/ CardAllowed(r) \/ CardRefused(r)

-----------------------------------------------------------------------------
(* The callers.                                                            *)

Begin(kind) ==
  /\ job = "idle"
  /\ job' = kind
  /\ UNCHANGED <<postureVars, grants, sessionGrants, last, saidNo, approved>>

\* run_turn: a new message may ask again about what an earlier one was refused.
StartTurn == Begin("turn") /\ denied' = {}

\* _run_channel_turn: OPEN only, and never under a scope that asks about everything,
\* since there is nobody at the desk to answer a card.
StartRemote ==
  /\ Begin("remote")
  /\ Mode = "OPEN"
  /\ Effective.scope # "none"
  /\ denied' = {}

\* RoutineEngine.run and _handle_widget_run begin; a widget runs in OPEN only.
StartSaved(kind) ==
  /\ Begin(kind)
  /\ kind = "widget" => Mode = "OPEN"
  /\ UNCHANGED denied

\* _run_tool_calls, past the refusals above the gate: only floor tools from a phone,
\* no dev-only tool outside OPEN, no path outside a trusted folder, so that a path
\* tool reaches the gate trusted or not at all.  A preview that cannot be built
\* arrives as none.
TurnCall ==
  /\ job \in {"turn", "remote"}
  /\ \E r \in Requests :
       /\ job = "remote" => r.tool \in RemoteTools
       /\ r.tool \in DevOnly => Mode = "OPEN"
       /\ r.trusted = (r.tool \in PathTools)
       /\ r.requires = (r.tool \in ArmingTools)
       /\ r.preview => r.tool \in ArmingTools
       /\ ~r.force
       /\ Authorize(r)

\* A routine step is passed to the gate the way a live edit is.
RoutineCallTrusted ==
  /\ job = "routine"
  /\ \E r \in Requests :
       /\ r.tool \in DevOnly => Mode = "OPEN"
       /\ r.tool \notin ArmingTools
       /\ r.trusted => r.tool \in PathTools
       /\ ~r.requires /\ ~r.preview
       /\ Authorize(r)

\* RoutineEngine.run past _pre_gate_refusal: a live_only tool never reaches the
\* gate, trust is never passed, and a step carrying file text to the web is forced.
RoutineCall ==
  /\ job = "routine"
  /\ \E r \in Requests :
       /\ r.tool \in DevOnly => Mode = "OPEN"
       /\ r.tool \notin ArmingTools
       /\ ~r.trusted /\ ~r.requires /\ ~r.preview
       /\ Authorize(r)

\* _handle_widget_run.
WidgetCall ==
  /\ job = "widget"
  /\ \E r \in Requests :
       /\ r.tool = WidgetTool
       /\ ~r.trusted /\ ~r.requires /\ ~r.preview /\ ~r.force
       /\ Authorize(r)

\* The job answers its frame.
EndJob ==
  /\ job \in {"turn", "remote", "routine", "ending"}
  /\ job' = "idle"
  /\ last' = NoCall
  /\ saidNo' = {}
  /\ UNCHANGED <<postureVars, gateVars, approved>>

-----------------------------------------------------------------------------
(* The settings.                                                           *)

\* The Ask-once approvals survive.
RevokeGrantsOnly == grants' = {} /\ UNCHANGED sessionGrants

\* revoke_all.
RevokeAll == grants' = {} /\ sessionGrants' = {}

\* _handle_profile_set: a restore point of the setup being left, which may fail, the
\* new profile, and every approval and refusal forgotten.
ProfileSet(p) ==
  /\ job = "idle"
  /\ saved' \in {saved, [profile |-> profile, guards |-> guards]}
  /\ profile' = p
  /\ RevokeAll
  /\ denied' = {}
  /\ approved' = {}
  /\ UNCHANGED <<guards, anchored, job, last, saidNo>>

\* _guards_set: lowering a guard needs its permanent anchor first; when that
\* cannot be minted the whole set is refused and nothing changes.
GuardsSet(g) ==
  /\ job = "idle"
  /\ guards' = g
  /\ anchored' = (anchored \/ Weaker(g, guards))
  /\ UNCHANGED <<profile, saved, gateVars, job, last, saidNo, approved>>

\* A restore point of the setup in force.
SnapshotTake ==
  /\ job = "idle"
  /\ saved' = [profile |-> profile, guards |-> guards]
  /\ UNCHANGED <<profile, guards, anchored, gateVars, job, last, saidNo, approved>>

\* restore and _finish_restore: a restore point of the setup being left, which may
\* fail, the saved setup, and every approval forgotten.  The refusals are not.
Restore ==
  /\ job = "idle"
  /\ saved' \in {saved, [profile |-> profile, guards |-> guards]}
  /\ profile' = saved.profile
  /\ guards' = saved.guards
  /\ RevokeAll
  /\ approved' = {}
  /\ UNCHANGED <<anchored, denied, job, last, saidNo>>

-----------------------------------------------------------------------------
GateNext ==
  \/ StartTurn \/ StartRemote
  \/ \E kind \in {"routine", "widget"} : StartSaved(kind)
  \/ TurnCall \/ RoutineCall \/ WidgetCall \/ EndJob
  \/ \E p \in Profiles : ProfileSet(p)
  \/ \E g \in Guards : GuardsSet(g)
  \/ SnapshotTake \/ Restore

GateSpec == GateInit /\ [][GateNext]_allVars

-----------------------------------------------------------------------------
(* Properties.                                                             *)

\* The variables have their types.
TypeOK ==
  /\ profile \in Profiles /\ guards \in Guards
  /\ saved \in [profile : Profiles, guards : Guards]
  /\ anchored \in BOOLEAN
  /\ grants \in SUBSET Tools /\ denied \in SUBSET Tools
  /\ sessionGrants \in SUBSET Tools
  /\ job \in Jobs \cup {"idle", "ending"}
  /\ last \in [tool : Tools, granted : BOOLEAN,
               via : {"nothing", "auto", "refuse", "remembered", "denied before", "card"}]
  /\ saidNo \in SUBSET Tools /\ approved \in SUBSET Tools

\* A coarse grant, kept per tool id with no text of any call, never covers a
\* destructive tool, and an Ask-once approval never covers anything else: the two
\* memories cannot leak into each other in any order of profile and guard changes.
MemoriesStayApart ==
  /\ grants \cap Destructive = {}
  /\ sessionGrants \subseteq Destructive \ ArmingTools

\* No approval outlives the posture it was given under: after a profile switch or a
\* restore, nothing runs on the strength of an earlier card (revoke_all).
ApprovalsDieWithThePosture == grants \cup sessionGrants \subseteq approved

\* Arming is always put in front of the person, whatever the scope, the Ask-once
\* guard, a folder's trust or an earlier approval would have decided (floor G2).
ArmingAlwaysAsks ==
  last.granted /\ last.tool \in ArmingTools => last.via = "card"

\* A saved spec never skips a card on account of a trusted folder: outside the
\* "everything" scope a destructive step of a routine or a widget runs on a card or
\* on an Ask-once approval, never silently (floor D5).
SavedSpecsNeverRideOnTrust ==
  [][( /\ job \in {"routine", "widget"}
       /\ last' # last
       /\ last'.granted
       /\ last'.tool \in Destructive
       /\ Effective.scope # "everything" )
     => (last'.via \in {"card", "remembered"})]_allVars

\* "Not now" holds for the rest of the job it was said in: no later call of that tool
\* runs in it, by a card, by trust, by scope or by memory.
NotNowHoldsForTheTurn ==
  [][last' # last /\ last'.tool \in saidNo => ~last'.granted]_allVars

\* A turn nobody is at the desk for never puts up a card: the worker would wait on it
\* with no time limit, and every later job with it.
RemoteTurnNeverAsks == job = "remote" => last.via # "card"

\* A guard is never lowered below the shipped defaults, by hand or by a restore,
\* without a permanent anchor to come back to (floor G4).
WeakGuardsAreAnchored == Weaker(guards, Defaults) => anchored
=============================================================================
