----------------------------- MODULE PostureProofs -----------------------------
(***************************************************************************)
(* What the person is asked about, and how their settings come back: the   *)
(* properties of PermissionGate, for every set of tools that satisfies     *)
(* ToolAssumption, and of RestorePoints, for every set of setups and every *)
(* bound on points, moves and faults.  The two meet in the restore, which  *)
(* brings a posture back.                                                  *)
(*                                                                         *)
(* In the gate every call goes through authorize, so the proofs rest on    *)
(* two lemmas about it: what its branches say of the tool they route       *)
(* (RouteFacts) and what a decided call leaves behind (AuthorizeEffect).   *)
(*                                                                         *)
(* Of the restore points three invariants carry the theorems: the copies   *)
(* of a point are of points that were saved (PointsInv), nothing is hurt   *)
(* before the first fault (Unhurt), and a place that is not in the note    *)
(* stands on the newest escape (PlaceInv).                                 *)
(***************************************************************************)
EXTENDS PermissionGate, RestorePoints, FiniteSetTheorems, SequenceTheorems,
        WellFoundedInduction, TLAPS

(* PermissionGate. *)

Vias == {"nothing", "auto", "refuse", "remembered", "denied before", "card"}

-----------------------------------------------------------------------------
\* The coarse card is for harmless tools only, the Ask-once card for destructive
\* calls outside the ceremony only, and nothing waves through a call that has one.
LEMMA RouteFacts ==
  ASSUME NEW r \in Requests
  PROVE  /\ Route(r) = "coarse" => r.tool \notin Destructive
         /\ Route(r) = "session" => r.tool \in Destructive
         /\ r.requires => Route(r) \in {"refuse", "arming"}
         /\ r.preview => Route(r) = "arming"
         /\ ~r.preview => Route(r) # "arming"
BY DEF Route, OrdinaryRoute, Requests

\* What a decided call leaves behind: an entry for its own tool in at most one of the
\* memories, the one its route belongs to, and none without the person's card.
LEMMA AuthorizeEffect ==
  ASSUME NEW r \in Requests, Authorize(r)
  PROVE  /\ UNCHANGED postureVars
         /\ last' \in [tool : {r.tool}, via : Vias, granted : BOOLEAN]
         /\ job' \in {job, "ending"}
         /\ grants' \in {grants, grants \cup {r.tool}}
         /\ grants' # grants => Route(r) = "coarse"
         /\ sessionGrants' \in {sessionGrants, sessionGrants \cup {r.tool}}
         /\ sessionGrants' # sessionGrants => Route(r) = "session"
         /\ denied' \in {denied, denied \cup {r.tool}, denied \ {r.tool}}
         /\ saidNo' \in {saidNo, saidNo \cup {r.tool}}
         /\ approved \subseteq approved' /\ approved' \subseteq approved \cup {r.tool}
         /\ grants' # grants \/ sessionGrants' # sessionGrants => r.tool \in approved'
<1>1. CASE AutoGrant(r)
  BY <1>1 DEF AutoGrant, Decide, gateVars, Vias
<1>2. CASE RefuseWithoutPreview(r)
  BY <1>2 DEF RefuseWithoutPreview, Decide, gateVars, Vias
<1>3. CASE RideOnApproval(r)
  BY <1>3 DEF RideOnApproval, Decide, gateVars, Vias
<1>4. CASE RideOnDenial(r)
  BY <1>4 DEF RideOnDenial, Decide, gateVars, Vias
<1>5. CASE CardAllowed(r)
  BY <1>5 DEF CardAllowed, Decide, Vias
<1>6. CASE CardRefused(r)
  BY <1>6 DEF CardRefused, Decide, Vias
<1> QED
  BY <1>1, <1>2, <1>3, <1>4, <1>5, <1>6 DEF Authorize

\* How the verdict came about: no is the only answer without a route that gives yes.
LEMMA AuthorizeVerdict ==
  ASSUME NEW r \in Requests, Authorize(r)
  PROVE  \/ Route(r) = "auto" /\ last'.via = "auto"
         \/ Route(r) = "refuse" /\ last'.via = "refuse" /\ last'.granted = FALSE
         \/ Remembered(r) /\ last'.via = "remembered"
         \/ NeedsPerson(r) /\ last'.via = "denied before" /\ last'.granted = FALSE
         \/ NeedsPerson(r) /\ r.tool \notin denied /\ last'.via = "card"
<1>1. CASE AutoGrant(r)
  BY <1>1 DEF AutoGrant, Decide
<1>2. CASE RefuseWithoutPreview(r)
  BY <1>2 DEF RefuseWithoutPreview, Decide
<1>3. CASE RideOnApproval(r)
  BY <1>3 DEF RideOnApproval, Decide
<1>4. CASE RideOnDenial(r)
  BY <1>4 DEF RideOnDenial, Decide
<1>5. CASE CardAllowed(r)
  BY <1>5 DEF CardAllowed, Decide
<1>6. CASE CardRefused(r)
  BY <1>6 DEF CardRefused, Decide
<1> QED
  BY <1>1, <1>2, <1>3, <1>4, <1>5, <1>6 DEF Authorize

\* Every call a job makes is a request decided by authorize.
Calls == TurnCall \/ RoutineCall \/ WidgetCall

LEMMA CallsAuthorize ==
  ASSUME Calls
  PROVE  \E r \in Requests :
           /\ Authorize(r)
           /\ r.tool \in ArmingTools => r.requires
           /\ job = "remote" => r.tool \in RemoteTools
           /\ job # "idle"
BY ToolAssumption DEF Calls, TurnCall, RoutineCall, WidgetCall, Requests

-----------------------------------------------------------------------------
\* The variables keep their types in every behaviour.
THEOREM TypeCorrect == GateSpec => []TypeOK
<1>1. GateInit => TypeOK
  <2> SUFFICES ASSUME GateInit PROVE TypeOK
    OBVIOUS
  <2>1. Defaults \in Guards
    BY DEF Defaults, Guards, Cards, Scopes
  <2>2. saved \in [profile : Profiles, guards : Guards]
    BY <2>1 DEF GateInit, Profiles
  <2>3. last \in [tool : Tools, granted : BOOLEAN, via : Vias]
    BY ToolAssumption DEF GateInit, NoCall, Vias
  <2> QED
    BY <2>1, <2>2, <2>3 DEF GateInit, TypeOK, Profiles, Vias
<1>2. TypeOK /\ [GateNext]_allVars => TypeOK'
  <2> SUFFICES ASSUME TypeOK, [GateNext]_allVars PROVE TypeOK'
    OBVIOUS
  <2> USE DEF TypeOK
  <2>1. CASE StartTurn
    BY <2>1 DEF StartTurn, Begin, postureVars, Jobs
  <2>2. CASE StartRemote
    BY <2>2 DEF StartRemote, Begin, postureVars, Jobs
  <2>3. ASSUME NEW kind \in {"routine", "widget"}, StartSaved(kind) PROVE TypeOK'
    BY <2>3 DEF StartSaved, Begin, postureVars, Jobs
  <2>4. CASE Calls
    <3>1. PICK r \in Requests : Authorize(r)
      BY <2>4, CallsAuthorize
    <3>2. r.tool \in Tools
      BY DEF Requests
    <3>3. last' \in [tool : Tools, granted : BOOLEAN, via : Vias]
      BY <3>1, <3>2, AuthorizeEffect
    <3>4. /\ grants' \in SUBSET Tools /\ denied' \in SUBSET Tools
          /\ sessionGrants' \in SUBSET Tools /\ saidNo' \in SUBSET Tools
          /\ approved' \in SUBSET Tools
      BY <3>1, <3>2, AuthorizeEffect
    <3>5. UNCHANGED postureVars /\ job' \in {job, "ending"}
      BY <3>1, AuthorizeEffect
    <3> QED
      BY <3>3, <3>4, <3>5 DEF postureVars, Vias
  <2>5. CASE EndJob
    BY <2>5, ToolAssumption DEF EndJob, NoCall, postureVars, gateVars
  <2>6. ASSUME NEW p \in Profiles, ProfileSet(p) PROVE TypeOK'
    <3>0. [profile |-> profile, guards |-> guards] \in [profile : Profiles, guards : Guards]
      BY Zenon
    <3>1. saved' \in [profile : Profiles, guards : Guards]
      BY <2>6, <3>0, Zenon DEF ProfileSet
    <3>2. grants' = {} /\ sessionGrants' = {} /\ denied' = {} /\ approved' = {}
      BY <2>6 DEF ProfileSet, RevokeAll
    <3> QED
      BY <2>6, <3>1, <3>2 DEF ProfileSet
  <2>7. ASSUME NEW g \in Guards, GuardsSet(g) PROVE TypeOK'
    BY <2>7 DEF GuardsSet, gateVars, Weaker
  <2>8. CASE SnapshotTake
    BY <2>8 DEF SnapshotTake, gateVars
  <2>9. CASE Restore
    <3>0. [profile |-> profile, guards |-> guards] \in [profile : Profiles, guards : Guards]
      BY Zenon
    <3>1. saved' \in [profile : Profiles, guards : Guards]
      BY <2>9, <3>0, Zenon DEF Restore
    <3>2. profile' \in Profiles /\ guards' \in Guards
      BY <2>9 DEF Restore
    <3>3. grants' = {} /\ sessionGrants' = {} /\ approved' = {}
      BY <2>9 DEF Restore, RevokeAll
    <3> QED
      BY <2>9, <3>1, <3>2, <3>3 DEF Restore
  <2>10. CASE UNCHANGED allVars
    BY <2>10 DEF allVars, postureVars, gateVars
  <2> QED
    BY <2>1, <2>2, <2>3, <2>4, <2>5, <2>6, <2>7, <2>8, <2>9, <2>10 DEF GateNext, Calls
<1> QED
  BY <1>1, <1>2, PTL DEF GateSpec

-----------------------------------------------------------------------------
\* The coarse grants cover no destructive tool and the Ask-once approvals nothing
\* else, in any order of calls, profile switches and guard changes.
THEOREM MemoriesCorrect == GateSpec => []MemoriesStayApart
<1> USE DEF MemoriesStayApart
<1>1. GateInit => MemoriesStayApart
  BY DEF GateInit
<1>2. TypeOK /\ MemoriesStayApart /\ [GateNext]_allVars => MemoriesStayApart'
  <2> SUFFICES ASSUME TypeOK, MemoriesStayApart, [GateNext]_allVars PROVE MemoriesStayApart'
    OBVIOUS
  <2>1. CASE StartTurn
    BY <2>1 DEF StartTurn, Begin
  <2>2. CASE StartRemote
    BY <2>2 DEF StartRemote, Begin
  <2>3. ASSUME NEW kind \in {"routine", "widget"}, StartSaved(kind)
        PROVE  MemoriesStayApart'
    BY <2>3 DEF StartSaved, Begin
  <2>4. CASE Calls
    <3>1. PICK r \in Requests : Authorize(r) /\ (r.tool \in ArmingTools => r.requires)
      BY <2>4, CallsAuthorize
    <3>2. grants' = grants \/ (grants' = grants \cup {r.tool} /\ r.tool \notin Destructive)
      BY <3>1, AuthorizeEffect, RouteFacts
    <3>3. \/ sessionGrants' = sessionGrants
          \/ /\ sessionGrants' = sessionGrants \cup {r.tool}
             /\ r.tool \in Destructive \ ArmingTools
      BY <3>1, AuthorizeEffect, RouteFacts
    <3> QED
      BY <3>2, <3>3
  <2>5. CASE EndJob
    BY <2>5 DEF EndJob, gateVars
  <2>6. ASSUME NEW p \in Profiles, ProfileSet(p) PROVE MemoriesStayApart'
    BY <2>6 DEF ProfileSet, RevokeAll
  <2>7. ASSUME NEW g \in Guards, GuardsSet(g) PROVE MemoriesStayApart'
    BY <2>7 DEF GuardsSet, gateVars
  <2>8. CASE SnapshotTake
    BY <2>8 DEF SnapshotTake, gateVars
  <2>9. CASE Restore
    BY <2>9 DEF Restore, RevokeAll
  <2>10. CASE UNCHANGED allVars
    BY <2>10 DEF allVars, gateVars
  <2> QED
    BY <2>1, <2>2, <2>3, <2>4, <2>5, <2>6, <2>7, <2>8, <2>9, <2>10 DEF GateNext, Calls
<1> QED
  BY <1>1, <1>2, TypeCorrect, PTL DEF GateSpec

\* No approval outlives the posture it was given under.
THEOREM ApprovalsCorrect == GateSpec => []ApprovalsDieWithThePosture
<1> USE DEF ApprovalsDieWithThePosture
<1>1. GateInit => ApprovalsDieWithThePosture
  BY DEF GateInit
<1>2. ApprovalsDieWithThePosture /\ [GateNext]_allVars => ApprovalsDieWithThePosture'
  <2> SUFFICES ASSUME ApprovalsDieWithThePosture, [GateNext]_allVars
               PROVE  ApprovalsDieWithThePosture'
    OBVIOUS
  <2>1. CASE StartTurn
    BY <2>1 DEF StartTurn, Begin
  <2>2. CASE StartRemote
    BY <2>2 DEF StartRemote, Begin
  <2>3. ASSUME NEW kind \in {"routine", "widget"}, StartSaved(kind)
        PROVE  ApprovalsDieWithThePosture'
    BY <2>3 DEF StartSaved, Begin
  <2>4. CASE Calls
    <3>1. PICK r \in Requests : Authorize(r)
      BY <2>4, CallsAuthorize
    <3> QED
      BY <3>1, AuthorizeEffect
  <2>5. CASE EndJob
    BY <2>5 DEF EndJob, gateVars
  <2>6. ASSUME NEW p \in Profiles, ProfileSet(p) PROVE ApprovalsDieWithThePosture'
    BY <2>6 DEF ProfileSet, RevokeAll
  <2>7. ASSUME NEW g \in Guards, GuardsSet(g) PROVE ApprovalsDieWithThePosture'
    BY <2>7 DEF GuardsSet, gateVars
  <2>8. CASE SnapshotTake
    BY <2>8 DEF SnapshotTake, gateVars
  <2>9. CASE Restore
    BY <2>9 DEF Restore, RevokeAll
  <2>10. CASE UNCHANGED allVars
    BY <2>10 DEF allVars, gateVars
  <2> QED
    BY <2>1, <2>2, <2>3, <2>4, <2>5, <2>6, <2>7, <2>8, <2>9, <2>10 DEF GateNext, Calls
<1> QED
  BY <1>1, <1>2, PTL DEF GateSpec

-----------------------------------------------------------------------------
\* The saved posture obeys the same rule as the one in force, or a restore would
\* bring a weakened guard back with no anchor behind it.
SavedIsAnchored == Weaker(saved.guards, Defaults) => anchored

\* Lowering is transitive: guards at or above g's level that are not below the
\* defaults keep g from being below them.
LEMMA WeakerThanDefaults ==
  ASSUME NEW g \in Guards, NEW h \in Guards, Weaker(g, Defaults), ~Weaker(g, h)
  PROVE  Weaker(h, Defaults)
BY DEF Weaker, Rank, Defaults, Guards, Cards, Scopes

\* No guard is below the shipped defaults without its permanent anchor (_guards_set,
\* and _finish_restore, which brings only postures that were once in force).
THEOREM AnchorsCorrect == GateSpec => []WeakGuardsAreAnchored
<1>1. GateInit => WeakGuardsAreAnchored /\ SavedIsAnchored
  BY DEF GateInit, WeakGuardsAreAnchored, SavedIsAnchored, Weaker, Rank, Defaults
<1>2. TypeOK /\ WeakGuardsAreAnchored /\ SavedIsAnchored /\ [GateNext]_allVars
        => (WeakGuardsAreAnchored /\ SavedIsAnchored)'
  <2> SUFFICES ASSUME TypeOK, WeakGuardsAreAnchored, SavedIsAnchored, [GateNext]_allVars
               PROVE  WeakGuardsAreAnchored' /\ SavedIsAnchored'
    OBVIOUS
  <2> USE DEF WeakGuardsAreAnchored, SavedIsAnchored
  <2>1. CASE UNCHANGED postureVars
    BY <2>1 DEF postureVars, Weaker, Defaults
  <2>2. ASSUME NEW p \in Profiles, ProfileSet(p)
        PROVE  WeakGuardsAreAnchored' /\ SavedIsAnchored'
    <3>1. guards' = guards /\ anchored' = anchored
      BY <2>2 DEF ProfileSet
    <3>2. saved'.guards \in {saved.guards, guards}
      BY <2>2 DEF ProfileSet
    <3> QED
      BY <3>1, <3>2 DEF Weaker, Defaults
  <2>3. ASSUME NEW g \in Guards, GuardsSet(g)
        PROVE  WeakGuardsAreAnchored' /\ SavedIsAnchored'
    <3>1. guards' = g /\ anchored' = (anchored \/ Weaker(g, guards)) /\ saved' = saved
      BY <2>3 DEF GuardsSet
    <3>2. Weaker(g, Defaults) => anchored'
      <4>1. CASE Weaker(g, guards)
        BY <4>1, <3>1
      <4>2. CASE ~Weaker(g, guards)
        BY <4>2, <3>1, WeakerThanDefaults DEF TypeOK
      <4> QED
        BY <4>1, <4>2
    <3>3. Weaker(saved.guards, Defaults) => anchored'
      BY <3>1
    <3> QED
      BY <3>1, <3>2, <3>3 DEF Weaker, Defaults
  <2>4. CASE SnapshotTake
    BY <2>4 DEF SnapshotTake, Weaker, Defaults
  <2>5. CASE Restore
    BY <2>5 DEF Restore, Weaker, Defaults
  <2>6. Calls => UNCHANGED postureVars
    BY CallsAuthorize, AuthorizeEffect
  <2> QED
    BY <2>1, <2>2, <2>3, <2>4, <2>5, <2>6 DEF GateNext, Calls, StartTurn, StartRemote,
       StartSaved, Begin, EndJob, allVars
<1> QED
  BY <1>1, <1>2, TypeCorrect, PTL DEF GateSpec

-----------------------------------------------------------------------------
\* The verdict on an arming tool, whoever calls: a card, or no.
LEMMA ArmingVerdict ==
  ASSUME NEW r \in Requests, Authorize(r), r.requires, last'.granted
  PROVE  last'.via = "card"
<1>1. Route(r) \in {"refuse", "arming"}
  BY RouteFacts
<1>2. ~Remembered(r) /\ Route(r) # "auto"
  BY <1>1 DEF Remembered
<1> QED
  BY <1>2, AuthorizeVerdict

\* Arming is put in front of the person every time: no scope, no Ask-once approval and
\* no trusted folder decides it (floor G2).
THEOREM ArmingCorrect == GateSpec => []ArmingAlwaysAsks
<1> USE DEF ArmingAlwaysAsks
<1>1. GateInit => ArmingAlwaysAsks
  BY DEF GateInit, NoCall
<1>2. ArmingAlwaysAsks /\ [GateNext]_allVars => ArmingAlwaysAsks'
  <2> SUFFICES ASSUME ArmingAlwaysAsks, [GateNext]_allVars PROVE ArmingAlwaysAsks'
    OBVIOUS
  <2>1. CASE Calls
    <3>1. PICK r \in Requests : Authorize(r) /\ (r.tool \in ArmingTools => r.requires)
      BY <2>1, CallsAuthorize
    <3>2. last'.tool = r.tool
      BY <3>1, AuthorizeEffect
    <3> QED
      BY <3>1, <3>2, ArmingVerdict
  <2>2. CASE EndJob
    BY <2>2 DEF EndJob, NoCall
  <2>3. CASE last' = last
    BY <2>3
  <2> QED
    BY <2>1, <2>2, <2>3 DEF GateNext, Calls, StartTurn, StartRemote, StartSaved, Begin,
       ProfileSet, GuardsSet, SnapshotTake, Restore, allVars
<1> QED
  BY <1>1, <1>2, PTL DEF GateSpec

-----------------------------------------------------------------------------
\* What a turn from a phone was let in on still holds while it runs, and no verdict of
\* an earlier job is left over.
RemoteInterlock ==
  /\ job = "remote" => Mode = "OPEN" /\ Effective.scope # "none"
  /\ job = "idle" => last = NoCall

\* With nobody at the desk the gate decides alone: a remote turn's tools are not
\* destructive, and its scope asks about no such tool.
LEMMA RemoteVerdict ==
  ASSUME NEW r \in Requests, Authorize(r), r.tool \in RemoteTools, ~r.force, ~r.preview,
         Mode = "OPEN", Effective.scope # "none"
  PROVE  last'.via # "card"
<1>1. r.tool \notin Destructive
  BY ToolAssumption
<1>2. Route(r) \in {"refuse", "auto"}
  BY <1>1 DEF Route, OrdinaryRoute
<1>3. ~NeedsPerson(r)
  BY <1>2 DEF NeedsPerson
<1> QED
  BY <1>3, AuthorizeVerdict

\* A turn from a paired phone never puts up a card, on which it would block for ever
\* (_run_channel_turn's interlock, REMOTE_TOOL_IDS).
THEOREM RemoteCorrect == GateSpec => []RemoteTurnNeverAsks
<1> USE DEF RemoteTurnNeverAsks, RemoteInterlock
<1>1. GateInit => RemoteTurnNeverAsks /\ RemoteInterlock
  BY DEF GateInit
<1>2. RemoteTurnNeverAsks /\ RemoteInterlock /\ [GateNext]_allVars
        => (RemoteTurnNeverAsks /\ RemoteInterlock)'
  <2> SUFFICES ASSUME RemoteTurnNeverAsks, RemoteInterlock, [GateNext]_allVars
               PROVE  RemoteTurnNeverAsks' /\ RemoteInterlock'
    OBVIOUS
  <2> USE DEF Mode, Effective
  <2>1. CASE StartTurn
    BY <2>1 DEF StartTurn, Begin
  <2>2. CASE StartRemote
    BY <2>2 DEF StartRemote, Begin, postureVars, NoCall
  <2>3. ASSUME NEW kind \in {"routine", "widget"}, StartSaved(kind)
        PROVE  RemoteTurnNeverAsks' /\ RemoteInterlock'
    BY <2>3 DEF StartSaved, Begin
  <2>4. CASE Calls
    <3>1. CASE job = "remote"
      <4>1. TurnCall
        BY <2>4, <3>1 DEF Calls, RoutineCall, WidgetCall
      <4>2. PICK r \in Requests : /\ r.tool \in RemoteTools /\ ~r.force
                                  /\ r.preview => r.tool \in ArmingTools
                                  /\ Authorize(r)
        BY <3>1, <4>1 DEF TurnCall
      <4>3. ~r.preview
        BY <4>2, ToolAssumption DEF Requests
      <4>4. last'.via # "card"
        BY <3>1, <4>2, <4>3, RemoteVerdict
      <4>5. UNCHANGED postureVars /\ job' \in {job, "ending"}
        BY <4>2, AuthorizeEffect
      <4> QED
        BY <3>1, <4>4, <4>5 DEF postureVars
    <3>2. CASE job # "remote"
      <4>1. PICK r \in Requests : Authorize(r) /\ job # "idle"
        BY <2>4, CallsAuthorize
      <4>2. job' \in {job, "ending"}
        BY <4>1, AuthorizeEffect
      <4> QED
        BY <3>2, <4>1, <4>2
    <3> QED
      BY <3>1, <3>2
  <2>5. CASE EndJob
    BY <2>5 DEF EndJob
  <2>6. ASSUME NEW p \in Profiles, ProfileSet(p)
        PROVE  RemoteTurnNeverAsks' /\ RemoteInterlock'
    BY <2>6 DEF ProfileSet
  <2>7. ASSUME NEW g \in Guards, GuardsSet(g)
        PROVE  RemoteTurnNeverAsks' /\ RemoteInterlock'
    BY <2>7 DEF GuardsSet
  <2>8. CASE SnapshotTake
    BY <2>8 DEF SnapshotTake
  <2>9. CASE Restore
    BY <2>9 DEF Restore
  <2>10. CASE UNCHANGED allVars
    BY <2>10 DEF allVars, postureVars
  <2> QED
    BY <2>1, <2>2, <2>3, <2>4, <2>5, <2>6, <2>7, <2>8, <2>9, <2>10 DEF GateNext, Calls
<1> QED
  BY <1>1, <1>2, PTL DEF GateSpec

-----------------------------------------------------------------------------
\* A saved spec's destructive step runs on a card or an Ask-once approval, never on a
\* folder's trust, outside the "everything" scope (floor D5).
THEOREM SavedSpecsCorrect == GateSpec => SavedSpecsNeverRideOnTrust
<1> DEFINE OnConsent ==
      ( /\ job \in {"routine", "widget"}
        /\ last' # last
        /\ last'.granted
        /\ last'.tool \in Destructive
        /\ Effective.scope # "everything" )
      => (last'.via \in {"card", "remembered"})
<1>1. [GateNext]_allVars => [OnConsent]_allVars
  <2> SUFFICES ASSUME GateNext, job \in {"routine", "widget"}, last' # last, last'.granted,
                      last'.tool \in Destructive, Effective.scope # "everything"
               PROVE  last'.via \in {"card", "remembered"}
    OBVIOUS
  <2>1. Calls
    BY DEF GateNext, Calls, StartTurn, StartRemote, StartSaved, Begin, EndJob, NoCall,
       ProfileSet, GuardsSet, SnapshotTake, Restore
  <2>2. PICK r \in Requests : Authorize(r) /\ ~r.trusted /\ ~r.preview /\ ~r.requires
    BY <2>1 DEF Calls, TurnCall, RoutineCall, WidgetCall
  <2>3. r.tool \in Destructive
    BY <2>2, AuthorizeEffect
  <2>4. Route(r) # "auto"
    BY <2>2, <2>3 DEF Route, OrdinaryRoute, Mode
  <2> QED
    BY <2>2, <2>4, AuthorizeVerdict
<1> QED
  BY <1>1, PTL DEF GateSpec, SavedSpecsNeverRideOnTrust

-----------------------------------------------------------------------------
\* A call of a turn, as far as its request goes.
TurnRequest(r) ==
  /\ r.trusted = (r.tool \in PathTools)
  /\ r.requires = (r.tool \in ArmingTools)
  /\ r.preview => r.tool \in ArmingTools
  /\ ~r.force

\* While a turn runs, every tool refused on a card in it stays refused and has no route
\* around the person left; a routine or a widget is over at its first refusal.
NoIsRemembered ==
  /\ job \in {"idle", "routine", "widget"} => saidNo = {}
  /\ job \in {"turn", "remote"} =>
       \A t \in saidNo :
         /\ t \in denied
         /\ \A r \in Requests :
              r.tool = t /\ TurnRequest(r) => Route(r) # "auto" /\ ~Remembered(r)

\* A route depends on the posture and on whether the tool was refused, nothing else.
LEMMA RouteStays ==
  ASSUME NEW q \in Requests, UNCHANGED <<profile, guards>>,
         q.tool \in denied' <=> q.tool \in denied
  PROVE  Route(q)' = Route(q)
BY DEF Route, OrdinaryRoute, Mode, Effective

\* A card refused in a turn leaves the tool no route around the person.
LEMMA NoRouteAround ==
  ASSUME NEW r \in Requests, NEW q \in Requests, r.tool = q.tool,
         TurnRequest(r), TurnRequest(q), CardRefused(r), UNCHANGED <<profile, guards>>
  PROVE  Route(q)' # "auto" /\ ~Remembered(q)'
<1> USE DEF Route, OrdinaryRoute, Mode, Effective
<1>1. /\ Route(r) \in {"arming", "once", "coarse", "session"} /\ ~Remembered(r)
      /\ denied' = denied \cup {q.tool} /\ grants' = grants /\ sessionGrants' = sessionGrants
  BY DEF CardRefused, NeedsPerson
<1>2. CASE q.tool \in ArmingTools
  <2>1. Route(q)' \in {"refuse", "arming"}
    BY <1>2 DEF TurnRequest
  <2> QED
    BY <2>1 DEF Remembered
<1>3. CASE q.tool \notin ArmingTools
  <2>1. q.preview = FALSE /\ r.preview = FALSE /\ q.requires = FALSE /\ r.requires = FALSE
    BY <1>3 DEF TurnRequest, Requests
  <2>2. q.trusted = r.trusted /\ q.force = FALSE /\ r.force = FALSE
    BY DEF TurnRequest, Requests
  <2>3. Route(q)' = Route(r)
    BY <1>1, <2>1, <2>2
  <2> QED
    BY <1>1, <2>3 DEF Remembered
<1> QED
  BY <1>2, <1>3

\* "Not now" holds for the rest of the job it was said in: the posture cannot move, the
\* refusal keeps trust from applying, and no other call can put the tool in a memory.
THEOREM NotNowCorrect == GateSpec => NotNowHoldsForTheTurn
<1>1. GateInit => NoIsRemembered
  BY DEF GateInit, NoIsRemembered
<1>2. NoIsRemembered /\ [GateNext]_allVars => NoIsRemembered'
  <2> SUFFICES ASSUME NoIsRemembered, [GateNext]_allVars PROVE NoIsRemembered'
    OBVIOUS
  <2> USE DEF NoIsRemembered
  <2>1. CASE job = "idle" /\ UNCHANGED saidNo
    BY <2>1
  <2>2. CASE TurnCall
    <3>1. PICK r \in Requests : Authorize(r) /\ TurnRequest(r)
      BY <2>2 DEF TurnCall, TurnRequest
    <3>2. UNCHANGED <<profile, guards>> /\ job' \in {job, "ending"}
      BY <3>1, AuthorizeEffect DEF postureVars
    <3>3. SUFFICES ASSUME NEW t \in saidNo'
                   PROVE  /\ t \in denied'
                          /\ \A q \in Requests : q.tool = t /\ TurnRequest(q) =>
                               Route(q)' # "auto" /\ ~Remembered(q)'
      BY <2>2, <3>2 DEF TurnCall
    <3>4. CASE t # r.tool
      <4>1. t \in saidNo /\ t \in denied /\ t \in denied'
        BY <2>2, <3>1, <3>4, AuthorizeEffect DEF TurnCall
      <4>2. SUFFICES ASSUME NEW q \in Requests, q.tool = t, TurnRequest(q)
                     PROVE  Route(q)' # "auto" /\ ~Remembered(q)'
        BY <4>1
      <4>3. Route(q) # "auto" /\ ~Remembered(q)
        BY <2>2, <4>1, <4>2 DEF TurnCall
      <4>4. Route(q)' = Route(q)
        BY <3>2, <4>1, <4>2, RouteStays
      <4>5. (t \in grants' <=> t \in grants) /\ (t \in sessionGrants' <=> t \in sessionGrants)
        BY <3>1, <3>4, AuthorizeEffect
      <4> QED
        BY <4>2, <4>3, <4>4, <4>5 DEF Remembered
    <3>5. CASE t = r.tool /\ t \in saidNo
      <4>1. t \in denied /\ Route(r) # "auto" /\ ~Remembered(r)
        BY <2>2, <3>1, <3>5 DEF TurnCall
      <4>2. RefuseWithoutPreview(r) \/ RideOnDenial(r)
        BY <3>1, <3>5, <4>1 DEF Authorize, AutoGrant, RideOnApproval, CardAllowed, CardRefused
      <4>3. UNCHANGED gateVars
        BY <4>2 DEF RefuseWithoutPreview, RideOnDenial
      <4>4. \A q \in Requests : q.tool = t => Route(q)' = Route(q)
        BY <3>2, <4>3, RouteStays DEF gateVars
      <4> QED
        BY <2>2, <3>5, <4>1, <4>3, <4>4 DEF TurnCall, Remembered, gateVars
    <3>6. CASE t = r.tool /\ t \notin saidNo
      <4>1. CardRefused(r)
        BY <3>1, <3>3, <3>6 DEF Authorize, AutoGrant, RefuseWithoutPreview, RideOnApproval,
           RideOnDenial, CardAllowed
      <4>2. t \in denied'
        BY <3>6, <4>1 DEF CardRefused
      <4> QED
        BY <3>1, <3>2, <3>6, <4>1, <4>2, NoRouteAround
    <3> QED
      BY <3>4, <3>5, <3>6
  <2>3. CASE RoutineCall \/ WidgetCall
    <3>1. PICK r \in Requests : Authorize(r)
      BY <2>3, CallsAuthorize DEF Calls
    <3>2. job \in {"routine", "widget"} /\ saidNo = {}
      BY <2>3 DEF RoutineCall, WidgetCall
    <3>3. CASE CardRefused(r)
      BY <3>2, <3>3 DEF CardRefused, Decide
    <3>4. CASE ~CardRefused(r)
      BY <3>1, <3>2, <3>4 DEF Authorize, AutoGrant, RefuseWithoutPreview, RideOnApproval,
         RideOnDenial, CardAllowed, Decide
    <3> QED
      BY <3>3, <3>4
  <2>4. CASE EndJob
    BY <2>4 DEF EndJob
  <2>5. CASE UNCHANGED allVars
    BY <2>5 DEF allVars, postureVars, gateVars, Route, OrdinaryRoute, Remembered, Mode, Effective
  <2> QED
    BY <2>1, <2>2, <2>3, <2>4, <2>5 DEF GateNext, StartTurn, StartRemote, StartSaved, Begin,
       ProfileSet, GuardsSet, SnapshotTake, Restore
<1>3. NoIsRemembered /\ [GateNext]_allVars
        => [last' # last /\ last'.tool \in saidNo => ~last'.granted]_allVars
  <2> SUFFICES ASSUME NoIsRemembered, GateNext, last' # last, last'.tool \in saidNo
               PROVE  ~last'.granted
    OBVIOUS
  <2> USE DEF NoIsRemembered
  <2>1. job # "idle"
    OBVIOUS
  <2>2. CASE TurnCall
    <3>1. PICK r \in Requests : Authorize(r) /\ TurnRequest(r)
      BY <2>2 DEF TurnCall, TurnRequest
    <3>2. last'.tool = r.tool
      BY <3>1, AuthorizeEffect
    <3>3. r.tool \in denied /\ Route(r) # "auto" /\ ~Remembered(r)
      BY <2>2, <3>1, <3>2 DEF TurnCall
    <3> QED
      BY <3>1, <3>3, AuthorizeVerdict
  <2>3. CASE EndJob
    BY <2>3 DEF EndJob, NoCall
  <2> QED
    BY <2>1, <2>2, <2>3 DEF GateNext, StartTurn, StartRemote, StartSaved, Begin, RoutineCall,
       WidgetCall, ProfileSet, GuardsSet, SnapshotTake, Restore
<1> QED
  BY <1>1, <1>2, <1>3, PTL DEF GateSpec, NotNowHoldsForTheTurn

-----------------------------------------------------------------------------
(* RestorePoints. *)

-----------------------------------------------------------------------------
\* The newest of some points is one of them.
LEMMA SomeAreLeast ==
  ASSUME NEW S, S \subseteq Nat, S # {}
  PROVE  \E m \in S : \A n \in S : m <= n
<1> DEFINE R == OpToRel(<, Nat)
<1>1. IsWellFoundedOn(R, Nat)
  BY NatLessThanWellFounded
<1>2. \A x, y \in Nat : x < y => <<x, y>> \in R
  BY DEF OpToRel
<1> HIDE DEF R
<1>3. PICK m \in S : \A n \in S : <<n, m>> \notin R
  BY <1>1, WFMin
<1>4. \A n \in S : ~(n < m)
  BY <1>2, <1>3
<1> QED
  BY <1>4

LEMMA NewestIsOne ==
  ASSUME NEW b \in Nat, NEW S, S \subseteq 1..b, S # {}
  PROVE  Newest(S) \in S /\ \A n \in S : n <= Newest(S)
<1> DEFINE T == {b - n : n \in S}
<1>1. T # {}
  OBVIOUS
<1>2. T \subseteq Nat
  <2>1. \A n \in S : b - n \in Nat
    OBVIOUS
  <2> QED
    BY <2>1
<1>3. \A n \in S : b - n \in T
  OBVIOUS
<1>4. \A d \in T : \E n \in S : d = b - n
  OBVIOUS
<1> HIDE DEF T
<1>5. PICK d \in T : \A e \in T : d <= e
  BY <1>1, <1>2, SomeAreLeast
<1>6. PICK m \in S : d = b - m
  BY <1>4
<1>7. m \in S /\ \A n \in S : m >= n
  BY <1>3, <1>5, <1>6
<1>8. Max(S) \in S /\ \A n \in S : Max(S) >= n
  BY <1>7 DEF Max
<1> QED
  BY <1>8 DEF Newest

-----------------------------------------------------------------------------
\* The rows and the files are of points that were saved, and what they say of them
\* they say of a row or a file that is there.
PointsInv ==
  /\ \E S : points \in Seq(S)
  /\ rows \subseteq Ids /\ files \subseteq Ids
  /\ verified \subseteq rows /\ stamped \subseteq files /\ rotten \subseteq rows

\* Damage is counted.
Unhurt ==
  /\ faults \in Nat
  /\ faults = 0 => rotten = {} /\ db = "ok"

\* The escape saved last, whether its row is still there or not.
NewestEscape(p) ==
  /\ p \in Ids /\ points[p].kind = "pre_restore"
  /\ \A i \in Ids : points[i].kind = "pre_restore" => i <= p

\* Where the note was not written, and nothing else went wrong, the newest escape names
\* the place, and its row is not there without its file.
PlaceInv ==
  standing # NoPoint /\ note = NoPoint /\ faults <= 1 =>
    /\ faults = 1
    /\ \E p \in Ids : NewestEscape(p) /\ points[p].target = standing /\ (p \in rows => p \in files)

LEMMA IdsAreNumbers ==
  ASSUME PointsInv
  PROVE  Len(points) \in Nat /\ Ids = 1..Len(points) /\ NextId \notin Ids /\ NextId \in Nat \ {0}
BY DEF PointsInv, Ids, NextId

LEMMA PointIsAdded ==
  ASSUME PointsInv, NEW p, points' = Append(points, p)
  PROVE  /\ \E S : points' \in Seq(S)
         /\ Ids' = Ids \cup {NextId} /\ points'[NextId] = p
         /\ \A i \in Ids : points'[i] = points[i]
<1>1. PICK S : points \in Seq(S)
  BY DEF PointsInv
<1>2. points \in Seq(S \cup {p})
  BY <1>1, SeqMonotonic, S \subseteq S \cup {p}
<1>3. /\ points' \in Seq(S \cup {p}) /\ Len(points') = Len(points) + 1 /\ Len(points) \in Nat
      /\ points'[Len(points) + 1] = p /\ \A i \in 1..Len(points) : points'[i] = points[i]
  BY <1>2
<1>4. Ids = 1..Len(points) /\ Ids' = 1..(Len(points) + 1)
  BY <1>2, <1>3 DEF Ids
<1> QED
  BY <1>3, <1>4 DEF NextId

\* Nothing was saved, and no copy gained a flag.
LEMMA FewerFlags ==
  ASSUME PointsInv, ProvenMeansRan, points' = points, proven \subseteq proven',
         rows' \subseteq Ids, files' \subseteq Ids, verified' \subseteq rows', stamped' \subseteq files',
         rotten' \subseteq rows', verified' \cup stamped' \subseteq verified \cup stamped
  PROVE  PointsInv' /\ ProvenMeansRan'
<1>1. Ids' = Ids
  BY DEF Ids
<1>2. PointsInv'
  BY <1>1 DEF PointsInv
<1>3. ProvenMeansRan'
  BY DEF ProvenMeansRan
<1> QED
  BY <1>2, <1>3

LEMMA CopiesStay ==
  ASSUME PointsInv, ProvenMeansRan, UNCHANGED <<table, files, stamped>>, proven \subseteq proven'
  PROVE  PointsInv' /\ ProvenMeansRan'
BY FewerFlags DEF PointsInv, table

\* A point was saved; only a configuration that ran is flagged.
LEMMA OneMoreFlag ==
  ASSUME PointsInv, ProvenMeansRan, NEW p, points' = Append(points, p), proven \subseteq proven',
         rows' \subseteq rows \cup {NextId}, files' \subseteq files \cup {NextId},
         verified' \subseteq rows', stamped' \subseteq files', rotten' \subseteq rows',
         \/ verified' \cup stamped' \subseteq verified \cup stamped
         \/ /\ verified' \cup stamped' \subseteq verified \cup stamped \cup {NextId}
            /\ p.config \in proven'
  PROVE  PointsInv' /\ ProvenMeansRan'
<1>1. /\ \E S : points' \in Seq(S)
      /\ Ids' = Ids \cup {NextId} /\ points'[NextId] = p
      /\ \A i \in Ids : points'[i] = points[i]
  BY PointIsAdded
<1>2. PointsInv'
  BY <1>1 DEF PointsInv
<1>3. ASSUME NEW i \in verified' \cup stamped' PROVE points'[i].config \in proven'
  <2>1. CASE i \in verified \cup stamped
    <3>1. i \in Ids
      BY <2>1 DEF PointsInv
    <3> QED
      BY <1>1, <2>1, <3>1 DEF ProvenMeansRan
  <2>2. CASE i \notin verified \cup stamped
    BY <1>1, <1>3, <2>2
  <2> QED
    BY <2>1, <2>2
<1> QED
  BY <1>2, <1>3 DEF ProvenMeansRan

LEMMA WriteRowKeeps ==
  ASSUME PointsInv, ProvenMeansRan, NEW s, NEW p, NEW v \in BOOLEAN, WriteRow(s, p, v),
         v => p.config \in proven', proven \subseteq proven'
  PROVE  PointsInv' /\ ProvenMeansRan'
<1>1. CASE s = "none"
  <2>1. UNCHANGED <<table, files, stamped>>
    BY <1>1 DEF WriteRow, Added, AddedFile, table
  <2> QED
    BY <2>1, CopiesStay
<1>2. CASE s # "none"
  <2>1. /\ points' = Append(points, p) /\ rows' = rows \cup {NextId} /\ rotten' = rotten
        /\ files' = files \cup AddedFile(s) /\ AddedFile(s) \subseteq {NextId}
        /\ verified' = verified \cup (IF v THEN {NextId} ELSE {})
        /\ stamped' = stamped \cup (IF v THEN AddedFile(s) ELSE {})
    BY <1>2 DEF WriteRow, Added, AddedFile
  <2>2. verified' \subseteq rows' /\ stamped' \subseteq files' /\ rotten' \subseteq rows'
    BY <2>1 DEF PointsInv
  <2>3. \/ verified' \cup stamped' \subseteq verified \cup stamped
        \/ /\ verified' \cup stamped' \subseteq verified \cup stamped \cup {NextId}
           /\ p.config \in proven'
    BY <2>1
  <2> QED
    BY <2>1, <2>2, <2>3, OneMoreFlag
<1> QED
  BY <1>1, <1>2

LEMMA CaptureKeeps ==
  ASSUME PointsInv, ProvenMeansRan, NEW s, NEW old, Capture(s, old), proven' = proven
  PROVE  PointsInv' /\ ProvenMeansRan'
<1>1. PICK kept : kept = IF s = "none" THEN rows
                          ELSE (rows \cup Added(s)) \ Pruned(rows \cup Added(s), verified, old)
  OBVIOUS
<1>2. /\ rows' = kept /\ verified' = verified \cap kept /\ rotten' = rotten \cap kept
      /\ points' = IF s = "none" THEN points ELSE Append(points, Point(live, "capture", NoPoint))
      /\ files' = IF s = "none" THEN files ELSE (files \cup AddedFile(s)) \cap kept
      /\ stamped' = IF s = "none" THEN stamped ELSE stamped \cap kept
  BY <1>1 DEF Capture
<1>3. CASE s = "none"
  BY <1>1, <1>2, <1>3, FewerFlags DEF PointsInv
<1>4. CASE s # "none"
  <2>1. rows' \subseteq rows \cup {NextId} /\ files' \subseteq files \cup {NextId}
    BY <1>1, <1>2, <1>4 DEF Added, AddedFile
  <2>2. verified' \subseteq rows' /\ stamped' \subseteq files' /\ rotten' \subseteq rows'
    BY <1>2, <1>4 DEF PointsInv
  <2>3. verified' \cup stamped' \subseteq verified \cup stamped
    BY <1>2, <1>4
  <2> QED
    BY <1>2, <1>4, <2>1, <2>2, <2>3, OneMoreFlag
<1> QED
  BY <1>3, <1>4

-----------------------------------------------------------------------------
(* Proof that it works.                                                     *)

LEMMA MarkKeeps ==
  ASSUME PointsInv, ProvenMeansRan, NEW config, NEW s, NEW w \in {"written", "kept", "emptied"},
         MarkVerifiedWorking(config, s, w),
         db = "ok" => config \in proven', proven \subseteq proven'
  PROVE  PointsInv' /\ ProvenMeansRan'
<1>1. PICK permanent : permanent = PermanentRowMatching(config)
  OBVIOUS
<1>2. PICK already \in BOOLEAN : already = (\E i \in NewestFew(verified, 1) : points[i].config = config)
  OBVIOUS
<1>3. CASE db # "ok" \/ already
  <2>1. UNCHANGED <<table, files, stamped>>
    BY <1>1, <1>2, <1>3 DEF MarkVerifiedWorking
  <2> QED
    BY <2>1, CopiesStay
<1>4. CASE db = "ok" /\ ~already /\ permanent \in rows \ verified
  <2>1. FlagPermanent(permanent, w)
    BY <1>1, <1>2, <1>4 DEF MarkVerifiedWorking
  <2>2. permanent \in rows /\ points[permanent].config = config
    <3> DEFINE S == {i \in rows : Undeletable(i) /\ points[i].config = config}
    <3>1. permanent = Newest(S)
      BY <1>1 DEF PermanentRowMatching
    <3>2. permanent \in Ids /\ NoPoint \notin Ids
      BY <1>4, IdsAreNumbers DEF PointsInv, NoPoint
    <3>3. S # {}
      BY <3>1, <3>2 DEF Newest
    <3>4. S \subseteq 1..Len(points) /\ Len(points) \in Nat
      BY IdsAreNumbers DEF PointsInv
    <3>5. permanent \in S
      BY <3>1, <3>3, <3>4, NewestIsOne
    <3> QED
      BY <3>5
  <2>3. /\ points' = points /\ rows' = rows /\ rotten' = rotten
        /\ verified' = verified \cup {permanent}
        /\ stamped' = IF w = "written" THEN stamped \cup {permanent} ELSE stamped \ {permanent}
    BY <2>1 DEF FlagPermanent
  <2>4. files' = IF w = "written" THEN files \cup {permanent}
                 ELSE IF w = "kept" THEN files ELSE files \ {permanent}
    BY <2>1 DEF FlagPermanent
  <2>5. Ids' = Ids
    BY <2>3 DEF Ids
  <2>6. PointsInv'
    BY <2>2, <2>3, <2>4, <2>5 DEF PointsInv
  <2>7. ProvenMeansRan'
    BY <1>4, <2>2, <2>3 DEF ProvenMeansRan
  <2> QED
    BY <2>6, <2>7
<1>5. CASE db = "ok" /\ ~already /\ ~(permanent \in rows \ verified)
  <2>1. WriteRow(s, Point(config, "turn_verified", NoPoint), TRUE)
    BY <1>1, <1>2, <1>5 DEF MarkVerifiedWorking
  <2>2. Point(config, "turn_verified", NoPoint).config = config
    BY DEF Point
  <2> QED
    BY <1>5, <2>1, <2>2, WriteRowKeeps
<1> QED
  BY <1>3, <1>4, <1>5

LEMMA ChatTurnKeeps ==
  ASSUME PointsInv, ProvenMeansRan, NEW probed, NEW s, NEW w \in Writes, ChatTurn(probed, s, w)
  PROVE  PointsInv' /\ ProvenMeansRan'
<1>1. MarkVerifiedWorking(live', s, w)
  BY DEF ChatTurn
<1>2. proven \subseteq proven' /\ (db = "ok" => live' \in proven')
  BY DEF ChatTurn
<1>3. w \in {"written", "kept", "emptied"}
  BY DEF Writes
<1> QED
  BY <1>1, <1>2, <1>3, MarkKeeps

\* The anchor copies a point that is proven.
LEMMA WeakenKeeps ==
  ASSUME PointsInv, ProvenMeansRan, NEW setup, NEW s, WeakenGuard(setup, s)
  PROVE  PointsInv' /\ ProvenMeansRan'
<1>1. PICK source : source = Newest({i \in verified : Loadable(i)})
  OBVIOUS
<1>2. PICK config : config = points[source].config
  OBVIOUS
<1>3. source # NoPoint /\ proven' = proven
  BY <1>1 DEF WeakenGuard
<1>4. CASE UNCHANGED <<table, files, stamped>>
  BY <1>3, <1>4, CopiesStay
<1>5. CASE WriteRow(s, Point(config, "guard_weakened", NoPoint), TRUE)
  <2>1. {i \in verified : Loadable(i)} \subseteq 1..Len(points) /\ Len(points) \in Nat
    BY IdsAreNumbers DEF PointsInv
  <2>2. {i \in verified : Loadable(i)} # {}
    BY <1>1, <1>3 DEF Newest
  <2>3. source \in verified
    BY <1>1, <2>1, <2>2, NewestIsOne
  <2>4. config \in proven'
    BY <1>2, <1>3, <2>3 DEF ProvenMeansRan
  <2>5. Point(config, "guard_weakened", NoPoint).config = config
    BY DEF Point
  <2> QED
    BY <1>3, <1>5, <2>4, <2>5, WriteRowKeeps
<1> QED
  BY <1>1, <1>2, <1>4, <1>5 DEF WeakenGuard

\* A restore flags nothing.
LEMMA EscapeKeeps ==
  ASSUME PointsInv, ProvenMeansRan, NEW i, NEW s, Escape(i, s), proven' = proven
  PROVE  PointsInv' /\ ProvenMeansRan'
<1>1. WriteRow(s, Point(live, "pre_restore", i), FALSE)
  BY DEF Escape
<1> QED
  BY <1>1, WriteRowKeeps

LEMMA PressKeeps ==
  ASSUME PointsInv, ProvenMeansRan, NEW s, NEW w, RestoreLastWorking(s, w)
  PROVE  PointsInv' /\ ProvenMeansRan'
<1>1. proven' = proven
  BY DEF RestoreLastWorking
<1>2. CASE PressWalks(s, w)
  <2>1. \E i : Escape(i, s)
    BY <1>2 DEF PressWalks, RestoreApplied, RestoreRefused
  <2> QED
    BY <1>1, <2>1, EscapeKeeps
<1>3. ASSUME NEW bad \in Tries, PressReadsFiles(s, w, bad) PROVE PointsInv' /\ ProvenMeansRan'
  <2>1. (\E i : Escape(i, s)) \/ UNCHANGED <<table, files, stamped>>
    BY <1>3 DEF PressReadsFiles
  <2> QED
    BY <1>1, <2>1, EscapeKeeps, CopiesStay
<1>4. CASE PressAtTheBottom
  BY <1>1, <1>4, CopiesStay DEF PressAtTheBottom, disk
<1> QED
  BY <1>2, <1>3, <1>4 DEF RestoreLastWorking

LEMMA RebuildKeeps ==
  ASSUME PointsInv, ProvenMeansRan, RebuildFromFiles
  PROVE  PointsInv' /\ ProvenMeansRan'
<1>1. /\ rows' = files /\ verified' = stamped /\ rotten' = {}
      /\ UNCHANGED <<points, disk, proven>>
  BY DEF RebuildFromFiles
<1> QED
  BY <1>1, FewerFlags DEF PointsInv, disk

LEMMA QuietKeeps ==
  ASSUME PointsInv, ProvenMeansRan, Quiet
  PROVE  PointsInv' /\ ProvenMeansRan'
<1>1. ASSUME NEW s, NEW old, Save(s, old) PROVE PointsInv' /\ ProvenMeansRan'
  BY <1>1, CaptureKeeps DEF Save
<1>2. ASSUME NEW setup, NEW s, NEW old, Change(setup, s, old) PROVE PointsInv' /\ ProvenMeansRan'
  BY <1>2, CaptureKeeps DEF Change
<1>3. ASSUME RoutineRuns \/ ChatTurnFails \/ ListPoints \/ Relaunch \/ TableIsDamaged \/ DatabaseIsLost
      PROVE  PointsInv' /\ ProvenMeansRan'
  BY <1>3, CopiesStay
     DEF RoutineRuns, ChatTurnFails, ListPoints, Relaunch, TableIsDamaged, DatabaseIsLost, disk
<1>4. ASSUME NEW i, NEW s, NEW w, RestoreOne(i, s, w) PROVE PointsInv' /\ ProvenMeansRan'
  BY <1>4, EscapeKeeps DEF RestoreOne, RestoreApplied, RestoreRefused
<1>5. ASSUME NEW i, NEW unlinked, Delete(i, unlinked) PROVE PointsInv' /\ ProvenMeansRan'
  BY <1>5, FewerFlags DEF Delete, PointsInv
<1>6. ASSUME NEW i, BlobRots(i) PROVE PointsInv' /\ ProvenMeansRan'
  BY <1>6, FewerFlags DEF BlobRots, PointsInv, disk
<1>7. ASSUME NEW i, FileIsLost(i) PROVE PointsInv' /\ ProvenMeansRan'
  BY <1>7, FewerFlags DEF FileIsLost, PointsInv, table
<1> QED
  BY <1>1, <1>2, <1>3, <1>4, <1>5, <1>6, <1>7, ChatTurnKeeps, WeakenKeeps, RebuildKeeps DEF Quiet

LEMMA StepKeepsPoints ==
  PointsInv /\ ProvenMeansRan /\ [Next]_vars => PointsInv' /\ ProvenMeansRan'
<1> SUFFICES ASSUME PointsInv, ProvenMeansRan, [Next]_vars
             PROVE  PointsInv' /\ ProvenMeansRan'
  OBVIOUS
<1>1. CASE UNCHANGED vars
  BY <1>1, CopiesStay DEF vars, disk
<1> QED
  BY <1>1, QuietKeeps, PressKeeps DEF Next, Press

LEMMA InitPoints == Init => PointsInv /\ ProvenMeansRan
<1> SUFFICES ASSUME Init PROVE PointsInv /\ ProvenMeansRan
  OBVIOUS
<1>1. PICK setup \in Setups, fresh \in BOOLEAN :
        LET config == [setup |-> setup, at |-> 0]
            first == Point(config, IF fresh THEN "genesis" ELSE "pre_upgrade", NoPoint)
        IN /\ points = <<first>> /\ rows = {1} /\ rotten = {}
           /\ verified = (IF fresh THEN {1} ELSE {})
           /\ files = {1} /\ stamped = verified
           /\ proven = (IF fresh THEN {config} ELSE {})
  BY DEF Init
<1>2. PICK config : config = [setup |-> setup, at |-> 0]
  OBVIOUS
<1>3. PICK first : first = Point(config, IF fresh THEN "genesis" ELSE "pre_upgrade", NoPoint)
  OBVIOUS
<1>4. points = <<first>>
  BY <1>1, <1>2, <1>3
<1>5. points \in Seq({first}) /\ Len(points) = 1 /\ points[1] = first
  BY <1>4
<1>6. Ids = {1}
  BY <1>4 DEF Ids
<1>7. first.config = config
  BY <1>3 DEF Point
<1> QED
  BY <1>1, <1>2, <1>5, <1>6, <1>7 DEF PointsInv, ProvenMeansRan

(* Whatever calls itself proven did answer a message: through captures, the late flag  *)
(* of a permanent row, anchors, restores, prunings and a table rebuilt from the files   *)
(* (snapshot_manager.py mark_verified_working, mint_anchor, _recover_from_sidecars).    *)
THEOREM ProvenPointsRan == Spec => []ProvenMeansRan
BY InitPoints, StepKeepsPoints, PTL DEF Spec

-----------------------------------------------------------------------------
(* The way back.                                                            *)

\* Files below the position are all that is looked at.
LEMMA FilesBelow ==
  ASSUME PointsInv, NEW marker, NEW why, NEW bad, marker \in files, ~Differs(marker),
         FromSidecars(marker, why, bad) # NoPoint
  PROVE  FromSidecars(marker, why, bad) \in files /\ FromSidecars(marker, why, bad) < marker
<1> DEFINE P == PayloadsBelow(marker) \ bad
           good == {i \in P : i \in stamped /\ Differs(i)}
           guess == {i \in P : Differs(i) /\ points[i].kind # "pre_restore"}
<1>1. P \subseteq {i \in files : i < marker}
  BY DEF PayloadsBelow
<1>2. FromSidecars(marker, why, bad) = SelectPayload(P)
  BY DEF FromSidecars
<1>3. files \subseteq 1..Len(points) /\ Len(points) \in Nat
  BY IdsAreNumbers DEF PointsInv
<1>4. good \subseteq P /\ guess \subseteq P
  OBVIOUS
<1>5. SelectPayload(P) = IF good # {} THEN Newest(good) ELSE Newest(guess)
  BY DEF SelectPayload
<1> HIDE DEF P, good, guess
<1>6. CASE good # {}
  <2>1. Newest(good) \in good
    BY <1>1, <1>3, <1>4, <1>6, NewestIsOne
  <2> QED
    BY <1>1, <1>2, <1>4, <1>5, <1>6, <2>1
<1>7. CASE good = {}
  <2>1. guess # {}
    BY <1>2, <1>5, <1>7 DEF Newest
  <2>2. Newest(guess) \in guess
    BY <1>1, <1>3, <1>4, <2>1, NewestIsOne
  <2> QED
    BY <1>1, <1>2, <1>4, <1>5, <1>7, <2>2
<1> QED
  BY <1>6, <1>7

\* So are the proven rows below it, when the walk finds one.
LEMMA WalkBelow ==
  ASSUME PointsInv, NEW marker, WalkLastWorking(marker).why = "ok",
         marker \in rows, points[marker].config = live
  PROVE  WalkLastWorking(marker).target < marker
<1> DEFINE looked == WalkFrom(marker)
           usable == {i \in looked : Differs(i) /\ Loadable(i)}
<1>1. looked = {i \in verified : i < marker}
  BY DEF WalkFrom
<1>2. db = "ok"
  BY DEF WalkLastWorking
<1>3. WalkLastWorking(marker).target = Newest(usable)
  BY <1>2 DEF WalkLastWorking
<1>4. usable # {}
  BY <1>2 DEF WalkLastWorking
<1>5. verified \subseteq 1..Len(points) /\ Len(points) \in Nat
  BY IdsAreNumbers DEF PointsInv
<1>6. Newest(usable) \in usable
  BY <1>1, <1>4, <1>5, NewestIsOne
<1> QED
  BY <1>1, <1>3, <1>6

LEMMA WalkSays ==
  ASSUME NEW marker
  PROVE  /\ WalkLastWorking(marker).why \in {"ok", "unreadable", "identical", "bottom", "none"}
         /\ WalkLastWorking(marker).why = "ok" => db = "ok"
         /\ WalkLastWorking(marker).why = "bottom" => db = "ok"
BY DEF WalkLastWorking

LEMMA PressIsBack ==
  ASSUME PointsInv, Press, points[standing].config = live, WalkMarker = standing,
         standing \in files, db = "ok" => standing \in rows
  PROVE  standing' < standing \/ (said' \notin {"restored", "unproven"} /\ live' = live)
<1>1. PICK s, w : RestoreLastWorking(s, w)
  BY DEF Press
<1>2. ~Differs(standing)
  BY DEF Differs
<1>3. CASE PressWalks(s, w)
  <2>1. WalkLastWorking(standing).why = "ok"
    BY <1>3 DEF PressWalks
  <2>2. WalkLastWorking(standing).target < standing
    BY <2>1, WalkSays, WalkBelow
  <2>3. CASE RestoreApplied(WalkLastWorking(standing).target, s, w)
    BY <2>2, <2>3 DEF RestoreApplied, NoteRestored
  <2>4. CASE RestoreRefused(WalkLastWorking(standing).target, s, standing) /\ said' = "failed"
    BY <2>4 DEF RestoreRefused
  <2> QED
    BY <1>3, <2>3, <2>4 DEF PressWalks
<1>4. ASSUME NEW bad \in Tries, PressReadsFiles(s, w, bad)
      PROVE  standing' < standing \/ (said' \notin {"restored", "unproven"} /\ live' = live)
  <2>1. PICK why : why = WalkLastWorking(standing).why
    OBVIOUS
  <2>2. PICK choice : choice = FromSidecars(standing, why, bad)
    OBVIOUS
  <2>3. CASE choice # NoPoint
    <3>1. NoteRestored(choice, w)
      BY <1>4, <2>1, <2>2, <2>3 DEF PressReadsFiles
    <3>2. choice < standing
      BY <1>2, <2>2, <2>3, FilesBelow
    <3> QED
      BY <3>1, <3>2 DEF NoteRestored
  <2>4. CASE choice = NoPoint
    <3>1. said' = why /\ live' = live
      BY <1>4, <2>1, <2>2, <2>4 DEF PressReadsFiles
    <3> QED
      BY <2>1, <3>1, WalkSays
  <2> QED
    BY <2>3, <2>4
<1>5. CASE PressAtTheBottom
  BY <1>5 DEF PressAtTheBottom
<1> QED
  BY <1>1, <1>3, <1>4, <1>5 DEF RestoreLastWorking

(* Each press of the button goes back: with the position at hand, it lands below where *)
(* the person stands, or says why it did not and changes nothing (_walk_start,          *)
(* _payloads_below).                                                                    *)
THEOREM ThePressGoesBack == Spec => PressGoesBack
<1>1. PointsInv /\ ProvenMeansRan /\ [Next]_vars =>
        [(/\ said' # "nothing" /\ standing # NoPoint
          /\ points[standing].config = live
          /\ WalkMarker = standing /\ standing \in files
          /\ db = "ok" => standing \in rows)
         => standing' < standing \/ (said' \notin {"restored", "unproven"} /\ live' = live)]_vars
  BY PressIsBack DEF Next
<1> QED
  BY <1>1, InitPoints, StepKeepsPoints, PTL DEF Spec, PressGoesBack

-----------------------------------------------------------------------------
(* The place.  A fault that left it out of the note is the only one.        *)

LEMMA UnhurtStays ==
  ASSUME Unhurt, faults' \in Nat, faults <= faults',
         faults' = 0 => rotten' \subseteq rotten /\ db' = db
  PROVE  Unhurt'
BY DEF Unhurt

\* A step that restores nothing: a second fault ends the promise, and without one the
\* newest escape is the same and its file stays as long as its row.
LEMMA PlaceStays ==
  ASSUME PointsInv, Unhurt, PlaceInv, faults' \in Nat, faults <= faults',
         standing' \in {standing, NoPoint}, note' = note,
         faults' = faults =>
           /\ \/ points' = points
              \/ \E p : points' = Append(points, p) /\ p.kind # "pre_restore"
           /\ \A i \in Ids : (i \in rows => i \in files) => (i \in rows' => i \in files')
  PROVE  PlaceInv'
<1>1. SUFFICES ASSUME standing' # NoPoint, note' = NoPoint, faults' <= 1
               PROVE  /\ faults' = 1
                      /\ \E p \in Ids' : /\ NewestEscape(p)' /\ points'[p].target = standing'
                                         /\ (p \in rows' => p \in files')
  BY DEF PlaceInv
<1>2. standing' = standing /\ standing # NoPoint /\ note = NoPoint /\ faults <= 1
  BY <1>1 DEF Unhurt
<1>3. faults = 1 /\ faults' = faults
  BY <1>1, <1>2 DEF PlaceInv
<1>4. PICK p \in Ids : NewestEscape(p) /\ points[p].target = standing /\ (p \in rows => p \in files)
  BY <1>2 DEF PlaceInv
<1>5. p \in rows' => p \in files'
  BY <1>3, <1>4
<1>6. p \in Ids' /\ NewestEscape(p)' /\ points'[p].target = standing
  <2>1. CASE points' = points
    BY <1>4, <2>1 DEF NewestEscape, Ids
  <2>2. ASSUME NEW q, points' = Append(points, q), q.kind # "pre_restore"
        PROVE  p \in Ids' /\ NewestEscape(p)' /\ points'[p].target = standing
    <3>1. /\ Ids' = Ids \cup {NextId} /\ points'[NextId] = q
          /\ \A i \in Ids : points'[i] = points[i]
      BY <2>2, PointIsAdded
    <3> QED
      BY <1>4, <2>2, <3>1 DEF NewestEscape
  <2> QED
    BY <1>3, <2>1, <2>2
<1> QED
  BY <1>2, <1>3, <1>5, <1>6

\* Without a fault, an escape is the newest, names what was restored, and has its file.
LEMMA EscapeHolds ==
  ASSUME PointsInv, db = "ok", NEW i, Escape(i, "both"), standing' = i
  PROVE  \E p \in Ids' : /\ NewestEscape(p)' /\ points'[p].target = standing'
                         /\ (p \in rows' => p \in files')
<1>1. PICK q : q = Point(live, "pre_restore", i)
  OBVIOUS
<1>2. q.kind = "pre_restore" /\ q.target = i
  BY <1>1 DEF Point
<1>3. PICK n : n = NextId
  OBVIOUS
<1>4. points' = Append(points, q) /\ n \in files'
  BY <1>1, <1>3 DEF Escape, WriteRow, AddedFile
<1>5. Ids' = Ids \cup {n} /\ points'[n] = q
  BY <1>3, <1>4, PointIsAdded
<1>6. \A k \in Ids' : k <= n
  BY <1>3, <1>5, IdsAreNumbers DEF NextId
<1>7. NewestEscape(n)'
  BY <1>2, <1>5, <1>6 DEF NewestEscape
<1> QED
  BY <1>2, <1>4, <1>5, <1>7

LEMMA CostsAreNumbers ==
  ASSUME NEW s, NEW w
  PROVE  SaveCost(s) \in {0, 1} /\ WriteCost(w) \in {0, 1}
BY DEF SaveCost, WriteCost

\* The note keeps the place, or one fault is spent.
LEMMA WrittenOrNot ==
  ASSUME NEW i, NEW w \in {"written", "kept", "emptied"}, NoteRestored(i, w)
  PROVE  standing' = i /\ (note' = i \/ WriteCost(w) = 1)
BY DEF NoteRestored, WriteCost

LEMMA RestoreKeepsPlace ==
  ASSUME PointsInv, Unhurt, NEW i, NEW s, NEW w \in Writes, RestoreApplied(i, s, w)
  PROVE  PlaceInv'
<1>1. /\ Escape(i, s) /\ NoteRestored(i, w)
      /\ faults' = faults + SaveCost(s) + WriteCost(w)
  BY CostsAreNumbers DEF RestoreApplied, Spend, Unhurt
<1>2. standing' = i /\ (note' = i \/ WriteCost(w) = 1)
  BY <1>1, WrittenOrNot DEF Writes
<1>3. CASE note' = i
  BY <1>2, <1>3 DEF PlaceInv
<1>4. CASE WriteCost(w) = 1
  <2>1. SUFFICES ASSUME faults' <= 1
                 PROVE  /\ faults' = 1
                        /\ \E p \in Ids' : /\ NewestEscape(p)' /\ points'[p].target = standing'
                                           /\ (p \in rows' => p \in files')
    BY DEF PlaceInv
  <2>2. faults = 0 /\ SaveCost(s) = 0 /\ faults' = 1
    BY <1>1, <1>4, <2>1, CostsAreNumbers DEF Unhurt
  <2>3. db = "ok"
    BY <2>2 DEF Unhurt
  <2>4. s = "both"
    BY <2>2, <2>3 DEF SaveCost
  <2> QED
    BY <1>1, <1>2, <2>2, <2>3, <2>4, EscapeHolds
<1> QED
  BY <1>2, <1>3, <1>4

\* A press that reads the files took the escape first, where the table answered.
LEMMA FilesKeepPlace ==
  ASSUME PointsInv, Unhurt, PlaceInv, NEW s, NEW w \in Writes, NEW bad \in Tries,
         PressReadsFiles(s, w, bad)
  PROVE  PlaceInv'
<1>1. PICK why : why = WalkLastWorking(WalkMarker).why
  OBVIOUS
<1>2. PICK first : first = FromSidecars(WalkMarker, why, {})
  OBVIOUS
<1>3. PICK choice : choice = FromSidecars(WalkMarker, why, bad)
  OBVIOUS
<1>4. PICK escapes \in BOOLEAN : escapes = (first # NoPoint /\ why \in {"none", "identical"})
  OBVIOUS
<1>5. PICK c : c = Cardinality(bad)
  OBVIOUS
<1>6. c \in Nat /\ (c = 0 => bad = {})
  <2>1. bad = {} \/ bad = {first} \ {NoPoint}
    BY <1>1, <1>2 DEF Tries
  <2>2. IsFiniteSet(bad)
    <3>1. IsFiniteSet({first}) /\ bad \subseteq {first}
      BY <2>1, FS_Singleton
    <3> QED
      BY <3>1, FS_Subset
  <2> QED
    BY <1>5, <2>2, FS_CardinalityType, FS_EmptySet
<1>7. /\ why \notin {"ok", "bottom"}
      /\ IF escapes THEN Escape(first, s) ELSE UNCHANGED <<table, files, stamped>>
      /\ IF choice # NoPoint THEN NoteRestored(choice, w)
         ELSE UNCHANGED <<note, standing>>
      /\ faults' = faults + ((IF escapes THEN SaveCost(s) ELSE 0) + c
                             + (IF choice # NoPoint THEN WriteCost(w) ELSE 0))
  BY <1>1, <1>2, <1>3, <1>4, <1>5 DEF PressReadsFiles, Spend
<1>8. CASE choice = NoPoint
  <2>1. faults \in Nat /\ faults' \in Nat /\ faults <= faults'
    BY <1>6, <1>7, <1>8, CostsAreNumbers DEF Unhurt
  <2>2. faults' = faults => ~escapes
    <3>1. SUFFICES ASSUME faults' = faults, escapes PROVE FALSE
      OBVIOUS
    <3>2. c = 0
      BY <1>6, <1>7, <1>8, <3>1, CostsAreNumbers DEF Unhurt
    <3>3. first = choice
      BY <1>2, <1>3, <1>6, <3>2
    <3> QED
      BY <1>4, <1>8, <3>1, <3>3
  <2>3. faults' = faults => points' = points /\ rows' = rows /\ files' = files
    BY <1>7, <2>2 DEF table
  <2> QED
    BY <1>7, <1>8, <2>1, <2>3, PlaceStays
<1>9. CASE choice # NoPoint
  <2>1. standing' = choice /\ (note' = choice \/ WriteCost(w) = 1)
    BY <1>7, <1>9, WrittenOrNot DEF Writes
  <2>2. CASE note' = choice
    BY <2>1, <2>2 DEF PlaceInv
  <2>3. CASE WriteCost(w) = 1
    <3>1. SUFFICES ASSUME faults' <= 1
                   PROVE  /\ faults' = 1
                          /\ \E p \in Ids' : /\ NewestEscape(p)' /\ points'[p].target = standing'
                                             /\ (p \in rows' => p \in files')
      BY DEF PlaceInv
    <3>2. /\ faults = 0 /\ faults' = 1 /\ c = 0
          /\ (IF escapes THEN SaveCost(s) ELSE 0) = 0
      BY <1>6, <1>7, <1>9, <2>3, <3>1, CostsAreNumbers DEF Unhurt
    <3>3. db = "ok" /\ rotten = {}
      BY <3>2 DEF Unhurt
    <3>4. first = choice
      BY <1>2, <1>3, <1>6, <3>2
    \* Every proven row still decodes, so the walk did not stop at one it cannot read.
    <3>5. why # "unreadable"
      <4>1. \A i \in verified : Loadable(i)
        BY <3>3 DEF Loadable, PointsInv
      <4>2. WalkFrom(WalkMarker) \subseteq verified
        BY DEF WalkFrom
      <4> QED
        BY <1>1, <3>3, <4>1, <4>2 DEF WalkLastWorking
    <3>6. why \in {"none", "identical"}
      BY <1>1, <1>7, <3>5, WalkSays
    <3>7. escapes
      BY <1>4, <1>9, <3>4, <3>6
    <3>8. SaveCost(s) = 0
      BY <3>2, <3>7
    <3>9. s = "both"
      BY <3>3, <3>8 DEF SaveCost
    <3> QED
      BY <1>7, <2>1, <3>2, <3>3, <3>4, <3>7, <3>9, EscapeHolds
  <2> QED
    BY <2>1, <2>2, <2>3
<1> QED
  BY <1>8, <1>9

LEMMA NothingMoves ==
  ASSUME PointsInv, Unhurt, PlaceInv, standing' \in {standing, NoPoint},
         UNCHANGED <<points, rows, rotten, files, note, db, faults>>
  PROVE  Unhurt' /\ PlaceInv'
<1>1. faults \in Nat /\ faults' = faults /\ faults <= faults'
  BY DEF Unhurt
<1> QED
  BY <1>1, UnhurtStays, PlaceStays

\* A restore that is refused is a fault.
LEMMA RefusalKeepsPlace ==
  ASSUME PointsInv, Unhurt, PlaceInv, NEW i, NEW s, NEW marker, RestoreRefused(i, s, marker)
  PROVE  PlaceInv'
<1>1. faults' = faults + (SaveCost(s) + 1) /\ UNCHANGED <<note, standing>>
  BY DEF RestoreRefused, Spend
<1>2. faults' \in Nat /\ faults <= faults' /\ faults' # faults
  BY <1>1, CostsAreNumbers DEF Unhurt
<1>3. faults' = faults => points' = points /\ files' = files /\ rows' = rows
  BY <1>2
<1> QED
  BY <1>1, <1>2, <1>3, PlaceStays

LEMMA PressKeepsPlace ==
  ASSUME PointsInv, Unhurt, PlaceInv, NEW s, NEW w \in Writes, RestoreLastWorking(s, w)
  PROVE  PlaceInv'
<1>1. CASE PressWalks(s, w)
  <2>1. PICK i : RestoreApplied(i, s, w) \/ RestoreRefused(i, s, WalkMarker)
    BY <1>1 DEF PressWalks
  <2> QED
    BY <2>1, RestoreKeepsPlace, RefusalKeepsPlace
<1>2. ASSUME NEW bad \in Tries, PressReadsFiles(s, w, bad) PROVE PlaceInv'
  BY <1>2, FilesKeepPlace
<1>3. CASE PressAtTheBottom
  <2>1. UNCHANGED <<points, rows, rotten, files, note, db, faults, standing>>
    BY <1>3 DEF PressAtTheBottom, RestoreLastWorking, disk, table
  <2> QED
    BY <2>1, NothingMoves
<1> QED
  BY <1>1, <1>2, <1>3 DEF RestoreLastWorking

LEMMA CaptureKeepsFiles ==
  ASSUME PointsInv, NEW s, NEW old, Capture(s, old)
  PROVE  /\ \/ points' = points
            \/ \E p : points' = Append(points, p) /\ p.kind # "pre_restore"
         /\ \A i \in Ids : (i \in rows => i \in files) => (i \in rows' => i \in files')
<1>1. PICK kept : kept = IF s = "none" THEN rows
                          ELSE (rows \cup Added(s)) \ Pruned(rows \cup Added(s), verified, old)
  OBVIOUS
<1>2. PICK p : p = Point(live, "capture", NoPoint)
  OBVIOUS
<1>3. p.kind = "capture"
  BY <1>2 DEF Point
<1>4. /\ rows' = kept
      /\ points' = IF s = "none" THEN points ELSE Append(points, p)
      /\ files' = IF s = "none" THEN files ELSE (files \cup AddedFile(s)) \cap kept
  BY <1>1, <1>2 DEF Capture
<1>5. ASSUME NEW i \in Ids, i \in rows => i \in files, i \in rows' PROVE i \in files'
  <2>1. CASE s = "none"
    BY <1>1, <1>4, <1>5, <2>1
  <2>2. CASE s # "none"
    <3>1. i # NextId
      BY IdsAreNumbers
    <3>2. i \in rows
      BY <1>1, <1>4, <1>5, <2>2, <3>1 DEF Added
    <3> QED
      BY <1>4, <1>5, <2>2, <3>2
  <2> QED
    BY <2>1, <2>2
<1> QED
  BY <1>3, <1>4, <1>5

LEMMA WriteRowKeepsFiles ==
  ASSUME PointsInv, NEW s, NEW p, NEW v, WriteRow(s, p, v), p.kind # "pre_restore"
  PROVE  /\ \/ points' = points
            \/ \E q : points' = Append(points, q) /\ q.kind # "pre_restore"
         /\ \A i \in Ids : (i \in rows => i \in files) => (i \in rows' => i \in files')
<1>1. points' = points \/ points' = Append(points, p)
  BY DEF WriteRow
<1>2. rows' \subseteq rows \cup {NextId} /\ files \subseteq files'
  BY DEF WriteRow, Added
<1>3. \A i \in Ids : i # NextId
  BY IdsAreNumbers
<1> QED
  BY <1>1, <1>2, <1>3

LEMMA ChatTurnKeepsPlace ==
  ASSUME PointsInv, Unhurt, PlaceInv, NEW probed, NEW s, NEW w \in Writes, ChatTurn(probed, s, w)
  PROVE  Unhurt' /\ PlaceInv'
<1>1. MarkVerifiedWorking(live', s, w) /\ UNCHANGED <<note, db, standing>>
  BY DEF ChatTurn
<1>2. PICK config : config = live'
  OBVIOUS
<1>3. PICK permanent : permanent = PermanentRowMatching(config)
  OBVIOUS
<1>4. PICK already \in BOOLEAN : already = (\E i \in NewestFew(verified, 1) : points[i].config = config)
  OBVIOUS
<1>5. MarkVerifiedWorking(config, s, w)
  BY <1>1, <1>2
<1>6. CASE db # "ok" \/ already
  <2>1. UNCHANGED <<table, files, stamped, faults>>
    BY <1>3, <1>4, <1>5, <1>6 DEF MarkVerifiedWorking
  <2> QED
    BY <1>1, <2>1, NothingMoves DEF table
<1>7. CASE db = "ok" /\ ~already /\ permanent \in rows \ verified
  <2>1. FlagPermanent(permanent, w)
    BY <1>3, <1>4, <1>5, <1>7 DEF MarkVerifiedWorking
  <2>2. faults' = faults + WriteCost(w) /\ UNCHANGED <<points, rows, rotten>>
    BY <2>1, CostsAreNumbers DEF FlagPermanent, Spend
  <2>3. faults' \in Nat /\ faults <= faults' /\ (faults' = faults => w = "written")
    BY <2>2, CostsAreNumbers DEF Unhurt, WriteCost
  <2>4. w = "written" => files' = files \cup {permanent}
    BY <2>1 DEF FlagPermanent
  <2>5. Unhurt'
    BY <1>1, <2>2, <2>3, UnhurtStays
  <2> QED
    BY <1>1, <2>2, <2>3, <2>4, <2>5, PlaceStays
<1>8. CASE db = "ok" /\ ~already /\ ~(permanent \in rows \ verified)
  <2>1. PICK p : p = Point(config, "turn_verified", NoPoint)
    OBVIOUS
  <2>2. WriteRow(s, p, TRUE) /\ Spend(SaveCost(s)) /\ p.kind # "pre_restore"
    BY <1>3, <1>4, <1>5, <1>8, <2>1 DEF MarkVerifiedWorking, Point
  <2>3. faults' \in Nat /\ faults <= faults'
    BY <2>2, CostsAreNumbers DEF Spend, Unhurt
  <2>4. rotten' = rotten
    BY <2>2 DEF WriteRow
  <2>5. Unhurt'
    BY <1>1, <2>3, <2>4, UnhurtStays
  <2> QED
    BY <1>1, <2>2, <2>3, <2>5, WriteRowKeepsFiles, PlaceStays
<1> QED
  BY <1>6, <1>7, <1>8

LEMMA QuietKeepsPlace ==
  ASSUME PointsInv, Unhurt, PlaceInv, Quiet
  PROVE  Unhurt' /\ PlaceInv'
<1>0. faults \in Nat
  BY DEF Unhurt
\* Damage and whatever else is a fault.
<1>a. ASSUME NEW n \in Nat \ {0}, Spend(n), UNCHANGED <<note>>, standing' \in {standing, NoPoint}
      PROVE  Unhurt' /\ PlaceInv'
  <2>1. faults' = faults + n
    BY <1>a DEF Spend
  <2>2. faults' \in Nat /\ faults <= faults' /\ faults' # faults /\ faults' # 0
    BY <1>0, <2>1
  <2>3. faults' = faults => points' = points /\ files' = files /\ rows' = rows
    BY <2>2
  <2>4. Unhurt'
    BY <2>2 DEF Unhurt
  <2> QED
    BY <1>a, <2>2, <2>3, <2>4, PlaceStays
<1>1. ASSUME NEW s, NEW old, NEW n \in Nat, Capture(s, old), Spend(n), UNCHANGED <<note, db>>,
             standing' \in {standing, NoPoint}
      PROVE  Unhurt' /\ PlaceInv'
  <2>1. faults' \in Nat /\ faults <= faults'
    BY <1>0, <1>1 DEF Spend
  <2>2. rotten' \subseteq rotten
    BY <1>1 DEF Capture
  <2>3. Unhurt'
    BY <1>1, <2>1, <2>2, UnhurtStays
  <2> QED
    BY <1>1, <2>1, <2>3, CaptureKeepsFiles, PlaceStays
<1>2. ASSUME NEW s, NEW old, Save(s, old) PROVE Unhurt' /\ PlaceInv'
  <2>1. SaveCost(s) \in Nat
    BY CostsAreNumbers
  <2> QED
    BY <1>1, <1>2, <2>1 DEF Save
<1>3. ASSUME NEW setup, NEW s, NEW old, Change(setup, s, old) PROVE Unhurt' /\ PlaceInv'
  <2>1. PICK n : n = IF s = "row" THEN 1 ELSE 0
    OBVIOUS
  <2>2. n \in Nat /\ Spend(n)
    BY <1>3, <2>1 DEF Change
  <2>3. Capture(s, old) /\ UNCHANGED <<note, db>> /\ standing' = NoPoint
    BY <1>3 DEF Change
  <2> QED
    BY <1>1, <2>2, <2>3
<1>4. ASSUME RoutineRuns \/ ChatTurnFails \/ ListPoints \/ Relaunch PROVE Unhurt' /\ PlaceInv'
  <2>1. UNCHANGED <<points, rows, rotten, files, note, db, faults, standing>>
    BY <1>4 DEF RoutineRuns, ChatTurnFails, ListPoints, Relaunch, disk, table
  <2> QED
    BY <2>1, NothingMoves
<1>5. ASSUME NEW setup, NEW s, WeakenGuard(setup, s) PROVE Unhurt' /\ PlaceInv'
  <2>1. standing' \in {standing, NoPoint} /\ UNCHANGED <<note, db>>
    BY <1>5 DEF WeakenGuard
  <2>2. \/ UNCHANGED <<table, files, stamped, faults>>
        \/ \E config : /\ WriteRow(s, Point(config, "guard_weakened", NoPoint), TRUE)
                       /\ Spend(SaveCost(s))
    BY <1>5 DEF WeakenGuard
  <2>3. CASE UNCHANGED <<table, files, stamped, faults>>
    BY <2>1, <2>3, NothingMoves DEF table
  <2>4. ASSUME NEW config, WriteRow(s, Point(config, "guard_weakened", NoPoint), TRUE),
               Spend(SaveCost(s))
        PROVE  Unhurt' /\ PlaceInv'
    <3>1. Point(config, "guard_weakened", NoPoint).kind # "pre_restore"
      BY DEF Point
    <3>2. faults' \in Nat /\ faults <= faults'
      BY <1>0, <2>4, CostsAreNumbers DEF Spend
    <3>3. rotten' = rotten
      BY <2>4 DEF WriteRow
    <3>4. Unhurt'
      BY <2>1, <3>2, <3>3, UnhurtStays
    <3> QED
      BY <2>1, <2>4, <3>1, <3>2, <3>4, WriteRowKeepsFiles, PlaceStays
  <2> QED
    BY <2>2, <2>3, <2>4
<1>6. ASSUME NEW i, NEW s, NEW w \in Writes, RestoreOne(i, s, w) PROVE Unhurt' /\ PlaceInv'
  <2>1. RestoreApplied(i, s, w) \/ RestoreRefused(i, s, memory)
    BY <1>6 DEF RestoreOne
  <2>2. PlaceInv'
    BY <2>1, RestoreKeepsPlace, RefusalKeepsPlace
  <2>3. Escape(i, s) /\ db' = db /\ \E n \in Nat : Spend(n)
    <3>1. SaveCost(s) + WriteCost(w) \in Nat /\ SaveCost(s) + 1 \in Nat
      BY CostsAreNumbers
    <3> QED
      BY <1>6, <3>1 DEF RestoreOne, RestoreApplied, RestoreRefused
  <2>4. rotten' = rotten /\ faults' \in Nat /\ faults <= faults'
    BY <1>0, <2>3 DEF Escape, WriteRow, Spend
  <2> QED
    BY <2>2, <2>3, <2>4, UnhurtStays
<1>7. ASSUME NEW i, NEW unlinked, Delete(i, unlinked) PROVE Unhurt' /\ PlaceInv'
  <2>1. PICK n : n = IF unlinked \/ i \notin files THEN 0 ELSE 1
    OBVIOUS
  <2>2. n \in Nat /\ Spend(n)
    BY <1>7, <2>1 DEF Delete
  <2>3. faults' \in Nat /\ faults <= faults'
    BY <1>0, <2>2 DEF Spend
  <2>4. /\ rotten' \subseteq rotten /\ points' = points /\ UNCHANGED <<note, db, standing>>
        /\ \A k \in Ids : (k \in rows => k \in files) => (k \in rows' => k \in files')
    BY <1>7 DEF Delete
  <2>5. Unhurt'
    BY <2>3, <2>4, UnhurtStays
  <2> QED
    BY <2>3, <2>4, <2>5, PlaceStays
<1>8. ASSUME NEW i, BlobRots(i) \/ FileIsLost(i) PROVE Unhurt' /\ PlaceInv'
  <2>1. Spend(1) /\ UNCHANGED <<note, standing>>
    BY <1>8 DEF BlobRots, FileIsLost, disk
  <2> QED
    BY <1>a, <2>1
<1>9. ASSUME TableIsDamaged \/ DatabaseIsLost PROVE Unhurt' /\ PlaceInv'
  <2>1. Spend(1) /\ note' = note /\ standing' \in {standing, NoPoint}
    BY <1>9 DEF TableIsDamaged, DatabaseIsLost, disk
  <2> QED
    BY <1>a, <2>1
<1>10. ASSUME RebuildFromFiles PROVE Unhurt' /\ PlaceInv'
  <2>1. /\ rows' = files /\ rotten' = {} /\ db' = "ok"
        /\ UNCHANGED <<points, files, note, standing, faults>>
    BY <1>10 DEF RebuildFromFiles, disk
  <2>2. Unhurt'
    BY <2>1 DEF Unhurt
  <2>3. \A k \in Ids : (k \in rows => k \in files) => (k \in rows' => k \in files')
    BY <2>1
  <2>4. faults' \in Nat /\ faults <= faults'
    BY <1>0, <2>1
  <2> QED
    BY <2>1, <2>2, <2>3, <2>4, PlaceStays
<1> QED
  BY <1>2, <1>3, <1>4, <1>5, <1>6, <1>7, <1>8, <1>9, <1>10, ChatTurnKeepsPlace DEF Quiet

LEMMA PressIsCounted ==
  ASSUME Unhurt, NEW s, NEW w, RestoreLastWorking(s, w)
  PROVE  Unhurt'
<1>1. db' = db /\ faults \in Nat
  BY DEF RestoreLastWorking, Unhurt
<1>2. CASE PressWalks(s, w)
  <2>1. PICK i : RestoreApplied(i, s, w) \/ RestoreRefused(i, s, WalkMarker)
    BY <1>2 DEF PressWalks
  <2>2. Escape(i, s) /\ \E n \in Nat : Spend(n)
    <3>1. SaveCost(s) + WriteCost(w) \in Nat /\ SaveCost(s) + 1 \in Nat
      BY CostsAreNumbers
    <3> QED
      BY <2>1, <3>1 DEF RestoreApplied, RestoreRefused
  <2>3. rotten' = rotten /\ faults' \in Nat /\ faults <= faults'
    BY <1>1, <2>2 DEF Escape, WriteRow, Spend
  <2> QED
    BY <1>1, <2>3, UnhurtStays
<1>3. ASSUME NEW bad \in Tries, PressReadsFiles(s, w, bad) PROVE Unhurt'
  <2>1. PICK c : c = Cardinality(bad)
    OBVIOUS
  <2>2. c \in Nat
    <3>1. PICK first : bad = {} \/ bad = {first} \ {NoPoint}
      BY DEF Tries
    <3>2. IsFiniteSet({first}) /\ bad \subseteq {first}
      BY <3>1, FS_Singleton
    <3> QED
      BY <2>1, <3>2, FS_Subset, FS_CardinalityType
  <2>3. (\E i : Escape(i, s)) \/ rotten' = rotten
    BY <1>3 DEF PressReadsFiles, table
  <2>4. \E a \in {SaveCost(s), 0}, b \in {WriteCost(w), 0} : Spend(a + c + b)
    BY <1>3, <2>1 DEF PressReadsFiles
  <2>5. PICK a \in {0, 1}, b \in {0, 1} : Spend(a + c + b)
    BY <2>4, CostsAreNumbers
  <2>6. faults' \in Nat /\ faults <= faults'
    BY <1>1, <2>2, <2>5 DEF Spend
  <2>7. rotten' = rotten
    BY <2>3 DEF Escape, WriteRow
  <2> QED
    BY <1>1, <2>6, <2>7, UnhurtStays
<1>4. CASE PressAtTheBottom
  BY <1>1, <1>4 DEF PressAtTheBottom, Unhurt, table
<1> QED
  BY <1>2, <1>3, <1>4 DEF RestoreLastWorking

LEMMA StepKeepsPlace ==
  PointsInv /\ Unhurt /\ PlaceInv /\ [Next]_vars => Unhurt' /\ PlaceInv'
<1> SUFFICES ASSUME PointsInv, Unhurt, PlaceInv, [Next]_vars
             PROVE  Unhurt' /\ PlaceInv'
  OBVIOUS
<1>1. CASE UNCHANGED vars
  BY <1>1, NothingMoves DEF vars, table, disk
<1>2. ASSUME NEW s, NEW w \in Writes, RestoreLastWorking(s, w) PROVE Unhurt' /\ PlaceInv'
  BY <1>2, PressKeepsPlace, PressIsCounted
<1> QED
  BY <1>1, <1>2, QuietKeepsPlace DEF Next, Press

\* The newest escape has its row, so it is the one a new process finds.
LEMMA PlaceIsRead ==
  ASSUME PointsInv, PlaceInv
  PROVE  PlaceSurvivesRelaunch
<1>1. SUFFICES ASSUME standing # NoPoint, db = "ok", faults <= 1, note = NoPoint,
                      Newest({i \in Ids : points[i].kind = "pre_restore"}) \in rows
               PROVE  RecordedRestoreTarget = standing
  BY DEF PlaceSurvivesRelaunch, RecordedRestoreTarget
<1>2. PICK p \in Ids : NewestEscape(p) /\ points[p].target = standing /\ (p \in rows => p \in files)
  BY <1>1 DEF PlaceInv
<1>3. PICK all : all = {i \in Ids : points[i].kind = "pre_restore"}
  OBVIOUS
<1>4. PICK here : here = {i \in rows : points[i].kind = "pre_restore"}
  OBVIOUS
<1>5. p \in all /\ \A i \in all : i <= p
  BY <1>2, <1>3 DEF NewestEscape
<1>6. all \subseteq 1..Len(points) /\ here \subseteq all /\ Len(points) \in Nat
  BY <1>3, <1>4, IdsAreNumbers DEF PointsInv
<1>7. Newest(all) \in all /\ \A i \in all : i <= Newest(all)
  BY <1>5, <1>6, NewestIsOne
<1>8. Newest(all) = p
  <2>1. PICK n : n = Newest(all)
    OBVIOUS
  <2>2. n \in all /\ p \in all /\ p <= n
    BY <1>5, <1>7, <2>1
  <2>3. n <= p
    BY <1>5, <1>6, <2>2
  <2>4. all \subseteq Nat
    BY <1>6
  <2>5. n = p
    BY <2>2, <2>3, <2>4
  <2> QED
    BY <2>1, <2>5
<1>9. p \in rows /\ p \in here
  BY <1>1, <1>3, <1>4, <1>5, <1>8
<1>10. Newest(here) \in here /\ \A i \in here : i <= Newest(here)
  BY <1>6, <1>9, NewestIsOne
<1>11. Newest(here) = p
  <2>1. PICK n : n = Newest(here)
    OBVIOUS
  <2>2. n \in here /\ p \in here /\ p <= n
    BY <1>9, <1>10, <2>1
  <2>3. n <= p
    BY <1>5, <1>6, <2>2
  <2>4. here \subseteq Nat
    BY <1>6
  <2>5. n = p
    BY <2>2, <2>3, <2>4
  <2> QED
    BY <2>1, <2>5
<1>12. Loadable(p) /\ p # NoPoint
  BY <1>2, <1>5, <1>6, <1>9 DEF Loadable, NoPoint
<1> QED
  BY <1>1, <1>2, <1>4, <1>11, <1>12 DEF RecordedRestoreTarget

LEMMA InitPlace == Init => Unhurt /\ PlaceInv
<1> SUFFICES ASSUME Init PROVE Unhurt /\ PlaceInv
  OBVIOUS
<1>1. standing = NoPoint /\ faults = 0 /\ db = "ok" /\ rotten = {}
  BY DEF Init
<1> QED
  BY <1>1 DEF Unhurt, PlaceInv

(* After one failure at most, a relaunched process walks on from where the person       *)
(* stands: the note is right, or the newest escape, saved before the note could fail,   *)
(* names the place (_note_restored, _recorded_restore_target).                          *)
THEOREM PlaceIsRemembered == Spec => []PlaceSurvivesRelaunch
<1>1. Init => PointsInv /\ ProvenMeansRan /\ Unhurt /\ PlaceInv
  BY InitPoints, InitPlace
<1>2. PointsInv /\ ProvenMeansRan /\ Unhurt /\ PlaceInv /\ [Next]_vars
        => PointsInv' /\ ProvenMeansRan' /\ Unhurt' /\ PlaceInv'
  BY StepKeepsPoints, StepKeepsPlace
<1>3. PointsInv /\ PlaceInv => PlaceSurvivesRelaunch
  BY PlaceIsRead
<1> QED
  BY <1>1, <1>2, <1>3, PTL DEF Spec
===============================================================================
