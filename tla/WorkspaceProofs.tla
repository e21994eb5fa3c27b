-------------------------- MODULE WorkspaceProofs ---------------------------
(***************************************************************************)
(* The workspace: what is selected, and the lists loaded for it, follow     *)
(* each other, for any projects, systems and users and however the loads    *)
(* of quick switches and the requests of the systems page overlap.          *)
(***************************************************************************)
EXTENDS Workspace, FiniteSetTheorems, NaturalsInduction, WellFoundedInduction, TLAPS

LEMMA LeastNatural ==
    ASSUME NEW T \in SUBSET Nat, T # {}
    PROVE  \E x \in T : \A y \in T : x <= y
<1>1. IsWellFoundedOn(OpToRel(<, Nat), Nat)
  BY NatLessThanWellFounded
<1>2. PICK x \in T : \A y \in T : ~(<<y, x>> \in OpToRel(<, Nat))
  BY <1>1, WFMin
<1>3. \A y \in T : y < x => <<y, x>> \in OpToRel(<, Nat)
  BY DEF OpToRel
<1>4. \A y \in T : ~(y < x)
  BY <1>2, <1>3, Zenon
<1>5. x \in Nat /\ \A y \in T : y \in Nat
  OBVIOUS
<1>6. \A y \in T : x <= y
  BY <1>4, <1>5
<1>7. QED
  BY <1>6

OwnedBy(p) == {s \in SystemIds : OwnerOf[s] = p}

Selections == [project : {NoId} \cup ProjectIds, system : {NoId} \cup SystemIds]

Loads ==
    [kind : {"projects", "details"}, project : {NoId} \cup ProjectIds, generation : Nat,
     answer : {Nothing} \cup [kind : {"list"}, ids : SUBSET (ProjectIds \cup SystemIds)]]

Requests ==
    [kind : ProjectKinds \cup SystemKinds, project : {NoId} \cup ProjectIds, stage : {"ask", "list", "show"},
     about : {NoId} \cup ProjectIds \cup SystemIds, ids : SUBSET (ProjectIds \cup SystemIds)]

WorkspaceTyped ==
    /\ DOMAIN rowState = {"project"} \X ProjectIds \cup {"system"} \X SystemIds
    /\ chosen \in Selections /\ refs \in Selections
    /\ projects \subseteq ProjectIds /\ systems \subseteq SystemIds
    /\ generation \in Nat /\ loads \subseteq Loads
    /\ request # Nothing => request \in Requests

\* The projects are listed before anything is selected.
GoodProjectsLoad(load) ==
    /\ load.generation = 0
    /\ load.answer # Nothing => load.answer.ids \subseteq ProjectIds
    /\ loads = {load} /\ chosen = NoneChosen /\ refs = NoneChosen /\ generation = 0
    /\ projects = {} /\ systems = {} /\ request = Nothing

\* A load of details brings the systems of its project, the one selected if it is the latest.
GoodDetailsLoad(load) ==
    /\ load.generation <= generation
    /\ load.answer # Nothing => load.answer.ids \subseteq OwnedBy(load.project)
    /\ load.generation = generation => load.project = refs.project

GoodLoads ==
    \A load \in loads :
        /\ load.kind = "projects" => GoodProjectsLoad(load)
        /\ load.kind = "details" => GoodDetailsLoad(load)

\* A request of the systems page lists what belongs to its project; with the selection as it
\* was, a system just created or changed is listed.
GoodRequest ==
    /\ request.kind = "createProject" /\ request.stage # "ask" => request.about \in ProjectIds
    /\ request.kind # "createProject" => request.project # NoId
    /\ request.stage = "show" /\ request.kind \in ProjectKinds => request.ids \subseteq ProjectIds
    /\ request.stage = "show" /\ request.kind \in SystemKinds => request.ids \subseteq OwnedBy(request.project)
    /\ request.stage # "ask" /\ request.kind = "createSystem" => request.about \in SystemIds
    /\ ~crossed =>
         /\ loads = {} /\ chosen = refs /\ request.project = chosen.project
         /\ request.kind = "updateSystem" => request.about = chosen.system
    /\ ~crossed /\ ~failed =>
         /\ request.kind = "updateSystem" => request.about \in OwnedBy(request.project)
         /\ request.kind \in {"createSystem", "updateSystem"} =>
              /\ request.stage = "list" => request.about \in LiveSystems(request.project)
              /\ request.stage = "show" => request.about \in request.ids

Loading == \E load \in loads : load.kind = "details" /\ load.generation = generation

SelectionSound ==
    /\ ~crossed /\ chosen.project = NoId => chosen.system = NoId /\ \A load \in loads : load.kind = "projects"
    /\ refs.project = NoId => systems = {}
    /\ ~failed /\ ~Loading => systems \subseteq OwnedBy(refs.project)
    /\ ~failed /\ ~crossed /\ ~Loading /\ chosen.project = refs.project => chosen.system \in {NoId} \cup systems

WorkspaceInv ==
    /\ WorkspaceTyped
    /\ GoodLoads
    /\ request # Nothing => GoodRequest
    /\ SelectionSound

LEMMA WorkspaceInitHolds == WorkspaceInit => WorkspaceInv
<1> SUFFICES ASSUME WorkspaceInit PROVE WorkspaceInv
  OBVIOUS
<1>1. WorkspaceTyped
  BY DEF WorkspaceInit, WorkspaceTyped, NoneChosen, Selections, Loads, ListProjects, Nothing
<1>2. GoodLoads
  BY DEF WorkspaceInit, GoodLoads, GoodProjectsLoad, ListProjects
<1>3. SelectionSound
  BY DEF WorkspaceInit, SelectionSound, ListProjects, NoneChosen
<1>4. QED
  BY <1>1, <1>2, <1>3 DEF WorkspaceInv, WorkspaceInit

LEMMA FirstIdIn ==
    ASSUME NEW ids \in SUBSET (ProjectIds \cup SystemIds)
    PROVE  FirstId(ids) \in {NoId} \cup ids
<1>1. CASE ids = {}
  BY <1>1 DEF FirstId
<1>2. CASE ids # {}
  <2>1. ids \in SUBSET Nat
    BY WorkspaceAssumption
  <2>2. \E x \in ids : \A y \in ids : x <= y
    BY <1>2, <2>1, LeastNatural
  <2>3. Min(ids) \in ids
    BY <2>2 DEF Min
  <2>4. QED
    BY <2>3 DEF FirstId
<1>3. QED
  BY <1>1, <1>2

LEMMA KeptIn ==
    ASSUME NEW ids \in SUBSET (ProjectIds \cup SystemIds), NEW current, NEW remembered
    PROVE  Kept(current, remembered, ids) \in {NoId} \cup ids
BY FirstIdIn DEF Kept

-----------------------------------------------------------------------------
(* Loads.                                                                   *)

LEMMA RunEffectsHolds ==
    ASSUME WorkspaceInv, RunEffects
    PROVE  WorkspaceInv'
<1>1. /\ UNCHANGED <<rowState, projects, chosen, request, crossed>> /\ chosen # refs /\ refs' = chosen
      /\ chosen \in Selections /\ refs \in Selections /\ generation \in Nat /\ WorkspaceTyped
  BY DEF RunEffects, WorkspaceInv, WorkspaceTyped
<1>2. CASE chosen.project = refs.project
  <2>1. UNCHANGED <<generation, loads, systems, failed>>
    BY <1>2 DEF RunEffects
  <2>2. WorkspaceTyped'
    BY <1>1, <2>1 DEF WorkspaceTyped
  <2>3. GoodLoads'
    BY <1>1, <1>2, <2>1 DEF WorkspaceInv, GoodLoads, GoodProjectsLoad, GoodDetailsLoad
  <2>4. request' # Nothing => GoodRequest'
    BY <1>1, <2>1 DEF WorkspaceInv, GoodRequest, LiveSystems, Live
  <2>5. SelectionSound'
    BY <1>1, <1>2, <2>1 DEF WorkspaceInv, SelectionSound, Loading
  <2>6. QED
    BY <2>2, <2>3, <2>4, <2>5 DEF WorkspaceInv
<1>3. CASE chosen.project # refs.project
  <2>1. Details(chosen.project, generation + 1) \in Loads
    BY <1>1 DEF Details, Loads, Selections
  <2>2. PICK new \in Loads : new = Details(chosen.project, generation + 1)
    BY <2>1
  <2>3. /\ generation' = generation + 1 /\ failed' = FALSE
        /\ loads' = loads \cup (IF chosen.project = NoId THEN {} ELSE {new})
        /\ systems' = IF chosen.project = NoId THEN {} ELSE systems
    BY <1>3, <2>2 DEF RunEffects
  <2>4. /\ new \in Loads /\ new.kind = "details" /\ new.generation = generation + 1
        /\ new.answer = Nothing /\ new.project = chosen.project
    BY <2>2 DEF Details
  <2>5. WorkspaceTyped'
    BY <1>1, <2>3, <2>4 DEF WorkspaceTyped
  <2>6. \A load \in loads : load.kind = "details" /\ load.generation <= generation /\ load.generation \in Nat
    BY <1>1, <1>3 DEF WorkspaceInv, WorkspaceTyped, GoodLoads, GoodProjectsLoad, GoodDetailsLoad, Loads
  <2>7. GoodLoads'
    <3>1. ASSUME NEW load \in loads
          PROVE  load.kind = "details" /\ GoodDetailsLoad(load)'
      BY <1>1, <2>3, <2>6, <3>1 DEF WorkspaceInv, GoodLoads, GoodDetailsLoad, OwnedBy
    <3>2. GoodDetailsLoad(new)'
      BY <1>1, <2>3, <2>4 DEF GoodDetailsLoad
    <3>3. QED
      BY <2>3, <2>4, <3>1, <3>2 DEF GoodLoads
  <2>8. request' # Nothing => crossed /\ GoodRequest'
    BY <1>1 DEF WorkspaceInv, GoodRequest
  <2>9. SelectionSound'
    <3>1. CASE chosen.project = NoId
      BY <1>1, <2>3, <2>6, <3>1 DEF WorkspaceInv, SelectionSound, OwnedBy
    <3>2. CASE chosen.project # NoId
      BY <1>1, <2>3, <2>4, <3>2 DEF SelectionSound, Loading
    <3>3. QED
      BY <3>1, <3>2
  <2>10. QED
    BY <2>5, <2>7, <2>8, <2>9 DEF WorkspaceInv
<1>4. QED
  BY <1>2, <1>3

LEMMA ServeLoadHolds ==
    ASSUME WorkspaceInv, NEW load \in loads, ServeLoad(load)
    PROVE  WorkspaceInv'
<1> DEFINE ids == IF load.kind = "projects" THEN LiveProjects ELSE LiveSystems(load.project)
<1>1. /\ UNCHANGED <<rowState, projects, systems, chosen, refs, generation, request, failed, crossed>>
      /\ load.answer = Nothing /\ load \in Loads /\ WorkspaceTyped
  BY DEF ServeLoad, WorkspaceInv, WorkspaceTyped
<1>2. /\ ids \in SUBSET (ProjectIds \cup SystemIds)
      /\ load.kind = "projects" => ids \subseteq ProjectIds
      /\ load.kind = "details" => ids \subseteq OwnedBy(load.project)
  BY DEF LiveProjects, LiveSystems, OwnedBy
<1> HIDE DEF ids
<1>3. [load EXCEPT !.answer = [kind |-> "list", ids |-> ids]] \in Loads
  BY <1>1, <1>2 DEF Loads
<1>4. PICK new \in Loads : new = [load EXCEPT !.answer = [kind |-> "list", ids |-> ids]]
  BY <1>3
<1>5. /\ new.kind = load.kind /\ new.project = load.project /\ new.generation = load.generation
      /\ new.answer.ids = ids
  BY <1>1, <1>4 DEF Loads
<1>6. loads' = (loads \ {load}) \cup {new}
  BY <1>4 DEF ServeLoad, ids
<1>7. WorkspaceTyped'
  BY <1>1, <1>6 DEF WorkspaceTyped
<1>8. GoodLoads'
  <2>1. ASSUME NEW other \in loads \ {load}
        PROVE  /\ other.kind = "projects" => GoodProjectsLoad(other)'
               /\ other.kind = "details" => GoodDetailsLoad(other)'
    BY <1>1 DEF WorkspaceInv, GoodLoads, GoodProjectsLoad, GoodDetailsLoad, OwnedBy
  <2>2. new.kind = "projects" => GoodProjectsLoad(new)'
    BY <1>1, <1>2, <1>5, <1>6 DEF WorkspaceInv, GoodLoads, GoodProjectsLoad
  <2>3. new.kind = "details" => GoodDetailsLoad(new)'
    BY <1>1, <1>2, <1>5 DEF WorkspaceInv, GoodLoads, GoodDetailsLoad, OwnedBy
  <2>4. QED
    BY <1>6, <2>1, <2>2, <2>3 DEF GoodLoads
<1>9. request' # Nothing => GoodRequest'
  BY <1>1 DEF WorkspaceInv, GoodRequest, LiveSystems, Live
<1>10. Loading' <=> Loading
  BY <1>1, <1>5, <1>6 DEF Loading
<1>11. SelectionSound'
  BY <1>1, <1>5, <1>6, <1>10 DEF WorkspaceInv, SelectionSound, OwnedBy
<1>12. QED
  BY <1>7, <1>8, <1>9, <1>11 DEF WorkspaceInv

\* The list of projects selects one; no system is selected yet.
LEMMA ProjectsLoadedHolds ==
    ASSUME WorkspaceInv, NEW load \in loads, ProjectsLoaded(load)
    PROVE  WorkspaceInv'
<1>1. /\ UNCHANGED <<rowState, systems, refs, generation, request, failed, crossed>>
      /\ loads' = loads \ {load} /\ projects' = load.answer.ids
      /\ load.kind = "projects" /\ GoodProjectsLoad(load) /\ load.answer # Nothing /\ WorkspaceTyped
      /\ chosen' = [chosen EXCEPT !.project = Kept(chosen.project, stored.project, load.answer.ids)]
  BY DEF ProjectsLoaded, Arrived, WorkspaceInv, GoodLoads
<1>2. /\ load.answer.ids \subseteq ProjectIds /\ chosen = NoneChosen /\ refs = NoneChosen /\ generation = 0
      /\ systems = {} /\ request = Nothing
  BY <1>1 DEF GoodProjectsLoad
<1>3. Kept(chosen.project, stored.project, load.answer.ids) \in {NoId} \cup ProjectIds
  BY <1>2, KeptIn
<1>4. chosen' \in Selections /\ chosen'.system = NoId
  BY <1>1, <1>2, <1>3 DEF NoneChosen, Selections
<1>5. loads' = {}
  BY <1>1 DEF GoodProjectsLoad
<1>6. WorkspaceTyped'
  BY <1>1, <1>2, <1>4, <1>5 DEF WorkspaceTyped
<1>7. SelectionSound'
  BY <1>1, <1>2, <1>4, <1>5 DEF SelectionSound
<1>8. QED
  BY <1>1, <1>2, <1>5, <1>6, <1>7 DEF WorkspaceInv, GoodLoads

LEMMA DetailsLoadedHolds ==
    ASSUME WorkspaceInv, NEW load \in loads, DetailsLoaded(load)
    PROVE  WorkspaceInv'
<1>1. /\ UNCHANGED <<rowState, projects, refs, generation, request, failed, crossed>>
      /\ loads' = loads \ {load} /\ load.kind = "details" /\ load.answer # Nothing /\ WorkspaceTyped
      /\ GoodDetailsLoad(load) /\ load \in Loads
  BY DEF DetailsLoaded, Arrived, WorkspaceInv, GoodLoads, WorkspaceTyped
<1>2. \A other \in loads : other.kind = "details" /\ GoodDetailsLoad(other)
  BY <1>1 DEF WorkspaceInv, WorkspaceTyped, GoodLoads, GoodProjectsLoad, Loads
<1>3. request # Nothing => crossed
  BY DEF WorkspaceInv, GoodRequest
<1>4. ~crossed => chosen.project # NoId
  BY <1>1 DEF WorkspaceInv, SelectionSound
<1>5. GoodLoads'
  BY <1>1, <1>2 DEF GoodLoads, GoodDetailsLoad, OwnedBy
<1>6. request' # Nothing => GoodRequest'
  BY <1>1, <1>3 DEF WorkspaceInv, GoodRequest
<1>7. CASE CurrentLoad(load)
  <2>1. /\ systems' = load.answer.ids /\ load.answer.ids \subseteq OwnedBy(refs.project)
        /\ chosen' = [chosen EXCEPT !.system = Kept(chosen.system, stored.system, load.answer.ids)]
    BY <1>1, <1>7 DEF DetailsLoaded, CurrentLoad, GoodDetailsLoad
  <2>2. Kept(chosen.system, stored.system, load.answer.ids) \in {NoId} \cup load.answer.ids
    BY <2>1, KeptIn DEF OwnedBy
  <2>3. chosen' \in Selections /\ chosen'.project = chosen.project /\ chosen'.system \in {NoId} \cup systems'
    BY <1>1, <2>1, <2>2 DEF WorkspaceTyped, Selections, OwnedBy
  <2>4. WorkspaceTyped'
    BY <1>1, <2>1, <2>3 DEF WorkspaceTyped, OwnedBy
  <2>5. SelectionSound'
    BY <1>1, <1>4, <2>1, <2>3, WorkspaceAssumption DEF SelectionSound, OwnedBy, NoId
  <2>6. QED
    BY <1>5, <1>6, <2>4, <2>5 DEF WorkspaceInv
<1>8. CASE ~CurrentLoad(load)
  <2>1. UNCHANGED <<systems, chosen>>
    BY <1>8 DEF DetailsLoaded
  <2>2. WorkspaceTyped'
    BY <1>1, <2>1 DEF WorkspaceTyped
  <2>3. Loading' <=> Loading
    BY <1>1, <1>8 DEF Loading, CurrentLoad
  <2>4. SelectionSound'
    BY <1>1, <2>1, <2>3 DEF WorkspaceInv, SelectionSound, OwnedBy
  <2>5. QED
    BY <1>5, <1>6, <2>2, <2>4 DEF WorkspaceInv
<1>9. QED
  BY <1>7, <1>8

LEMMA LoadFailsHolds ==
    ASSUME WorkspaceInv, NEW load \in loads, LoadFails(load)
    PROVE  WorkspaceInv'
<1>1. /\ UNCHANGED <<rowState, projects, systems, chosen, refs, generation, request, crossed>>
      /\ loads' = loads \ {load} /\ failed' = (failed \/ load.generation = generation) /\ WorkspaceTyped
  BY DEF LoadFails, WorkspaceInv
<1>2. WorkspaceTyped'
  BY <1>1 DEF WorkspaceTyped
<1>3. \A other \in loads : other.kind = "projects" => other = load
  BY DEF WorkspaceInv, GoodLoads, GoodProjectsLoad
<1>4. GoodLoads'
  BY <1>1, <1>3 DEF WorkspaceInv, GoodLoads, GoodDetailsLoad, OwnedBy
<1>5. request' # Nothing => GoodRequest'
  BY <1>1 DEF WorkspaceInv, GoodRequest, LiveSystems, Live
<1>6. ~failed' => ~failed /\ (Loading' <=> Loading)
  BY <1>1 DEF Loading
<1>7. SelectionSound'
  BY <1>1, <1>6 DEF WorkspaceInv, SelectionSound, OwnedBy
<1>8. QED
  BY <1>2, <1>4, <1>5, <1>7 DEF WorkspaceInv

-----------------------------------------------------------------------------
(* What the user selects, and the session.                                  *)

\* Only the selection and what is lost under a request have changed, and not the loads.
LEMMA SelectedHolds ==
    ASSUME WorkspaceInv, UNCHANGED <<rowState, listVars, refs, request>>, chosen = refs,
           chosen' \in Selections, crossed' = (crossed \/ request # Nothing),
           \/ chosen'.project \in projects /\ chosen'.project # chosen.project /\ chosen'.system = NoId
           \/ chosen'.project = chosen.project /\ chosen'.system \in systems
    PROVE  WorkspaceInv'
<1>1. /\ UNCHANGED <<rowState, projects, systems, generation, loads, failed, refs, request>> /\ WorkspaceTyped
      /\ projects \subseteq ProjectIds /\ NoId \notin ProjectIds
  BY WorkspaceAssumption DEF listVars, WorkspaceInv, WorkspaceTyped, NoId
<1>2. \A load \in loads : load.kind = "details"
  BY <1>1 DEF WorkspaceInv, WorkspaceTyped, GoodLoads, GoodProjectsLoad, Loads
<1>3. WorkspaceTyped'
  BY <1>1 DEF WorkspaceTyped
<1>4. GoodLoads'
  BY <1>1, <1>2 DEF WorkspaceInv, GoodLoads, GoodDetailsLoad, OwnedBy
<1>5. request' # Nothing => GoodRequest'
  BY <1>1 DEF WorkspaceInv, GoodRequest
<1>6. Loading' <=> Loading
  BY <1>1 DEF Loading
<1>7. SelectionSound'
  BY <1>1, <1>2, <1>6 DEF WorkspaceInv, SelectionSound, OwnedBy
<1>8. QED
  BY <1>3, <1>4, <1>5, <1>7 DEF WorkspaceInv

LEMMA SwitchHolds ==
    ASSUME WorkspaceInv, NEW agrees \in BOOLEAN,
           \/ \E p \in ProjectIds : SwitchProject(p, agrees)
           \/ \E s \in SystemIds : SwitchSystem(s, agrees)
    PROVE  WorkspaceInv'
<1>1. chosen \in Selections
  BY DEF WorkspaceInv, WorkspaceTyped
<1>2. ASSUME NEW p \in ProjectIds, SwitchProject(p, agrees)
      PROVE  WorkspaceInv'
  <2>1. chosen' = [project |-> p, system |-> NoId] /\ chosen = refs /\ p \in projects /\ p # refs.project
    BY <1>2 DEF SwitchProject, ChosenProject, Usable
  <2>2. chosen' \in Selections /\ chosen'.project = p /\ chosen'.system = NoId
    BY <2>1 DEF Selections
  <2>3. QED
    BY <1>2, <2>1, <2>2, SelectedHolds DEF SwitchProject
<1>3. ASSUME NEW s \in SystemIds, SwitchSystem(s, agrees)
      PROVE  WorkspaceInv'
  <2>1. chosen' = [chosen EXCEPT !.system = s] /\ chosen = refs /\ s \in systems
    BY <1>3 DEF SwitchSystem, ChosenSystem, Usable
  <2>2. chosen' \in Selections /\ chosen'.project = chosen.project /\ chosen'.system = s
    BY <1>1, <2>1 DEF Selections
  <2>3. QED
    BY <1>3, <2>1, <2>2, SelectedHolds DEF SwitchSystem
<1>4. QED
  BY <1>2, <1>3

\* What the invariant does not speak of has changed.
LEMMA SameWorkspace ==
    ASSUME WorkspaceInv, UNCHANGED <<rowState, listVars, chosen, refs, request, crossed>>
    PROVE  WorkspaceInv'
<1>1. UNCHANGED <<rowState, projects, systems, generation, loads, failed, chosen, refs, request, crossed>>
  BY DEF listVars
<1>2. WorkspaceTyped'
  BY <1>1 DEF WorkspaceInv, WorkspaceTyped
<1>3. GoodLoads'
  BY <1>1 DEF WorkspaceInv, GoodLoads, GoodProjectsLoad, GoodDetailsLoad, OwnedBy
<1>4. request' # Nothing => GoodRequest'
  BY <1>1 DEF WorkspaceInv, GoodRequest, LiveSystems, Live
<1>5. SelectionSound'
  BY <1>1 DEF WorkspaceInv, SelectionSound, Loading, OwnedBy
<1>6. QED
  BY <1>2, <1>3, <1>4, <1>5 DEF WorkspaceInv

\* A workspace just mounted, or none.
LEMMA UnmountedHolds ==
    ASSUME WorkspaceInv, Unmounted, UNCHANGED rowState, loads' = {} \/ loads' = {ListProjects}
    PROVE  WorkspaceInv'
<1>1. /\ projects' = {} /\ systems' = {} /\ chosen' = NoneChosen /\ refs' = NoneChosen /\ generation' = 0
      /\ request' = Nothing /\ \A load \in loads' : load = ListProjects
  BY DEF Unmounted
<1>2. ListProjects \in Loads /\ ListProjects.kind = "projects" /\ ListProjects.generation = 0
      /\ ListProjects.answer = Nothing
  BY DEF ListProjects, Loads
<1>3. NoneChosen \in Selections /\ NoneChosen.system = NoId
  BY DEF NoneChosen, Selections
<1>4. WorkspaceTyped'
  BY <1>1, <1>2, <1>3 DEF WorkspaceInv, WorkspaceTyped
<1>5. GoodLoads'
  BY <1>1, <1>2 DEF GoodLoads, GoodProjectsLoad
<1>6. SelectionSound'
  BY <1>1, <1>2, <1>3 DEF SelectionSound
<1>7. QED
  BY <1>1, <1>4, <1>5, <1>6 DEF WorkspaceInv

LEMMA SessionHolds ==
    ASSUME WorkspaceInv,
           \/ \E agrees \in BOOLEAN : SignOut(agrees) \/ \E to \in {"systems", "drafting"} : Navigate(to, agrees)
           \/ EditDrawing \/ SaveDrawing \/ SignedOut \/ SessionExpires
           \/ \E who \in Users : SignIn(who)
    PROVE  WorkspaceInv'
<1>1. CASE SignedOut
  BY <1>1, UnmountedHolds DEF SignedOut
<1>2. ASSUME NEW who \in Users, SignIn(who)
      PROVE  WorkspaceInv'
  BY <1>2, UnmountedHolds, SameWorkspace DEF SignIn
<1>3. QED
  BY <1>1, <1>2, SameWorkspace DEF SignOut, Navigate, EditDrawing, SaveDrawing, SessionExpires

-----------------------------------------------------------------------------
(* The systems page.                                                        *)

LEMMA SubmitHolds ==
    ASSUME WorkspaceInv, NEW kind \in ProjectKinds \cup SystemKinds, Submit(kind)
    PROVE  WorkspaceInv'
<1>1. /\ UNCHANGED <<rowState, projects, systems, generation, loads, failed, chosen, refs, crossed>>
      /\ loads = {} /\ chosen = refs /\ WorkspaceTyped
      /\ kind # "createProject" => chosen.project \in projects
      /\ kind \in {"updateSystem", "deleteSystem"} => chosen.system \in systems
      /\ request' = [kind |-> kind, project |-> chosen.project, stage |-> "ask",
                     about |-> IF kind \in ProjectKinds THEN chosen.project ELSE chosen.system, ids |-> {}]
  BY DEF Submit, Usable, Busy, listVars, WorkspaceInv
<1>2. /\ request' \in Requests /\ request'.kind = kind /\ request'.project = chosen.project
      /\ request'.stage = "ask"
      /\ kind = "updateSystem" => request'.about = chosen.system
  BY <1>1 DEF WorkspaceTyped, Selections, Requests, ProjectKinds, SystemKinds
<1>3. WorkspaceTyped'
  BY <1>1, <1>2 DEF WorkspaceTyped
<1>4. GoodRequest'
  <2>1. kind # "createProject" => chosen.project # NoId
    BY <1>1, WorkspaceAssumption DEF WorkspaceTyped, NoId
  <2>2. ASSUME kind = "updateSystem", ~failed
        PROVE  chosen.system \in OwnedBy(chosen.project)
    BY <1>1, <2>2 DEF WorkspaceInv, SelectionSound, Loading, SystemKinds
  <2>3. \A p : OwnedBy(p)' = OwnedBy(p)
    BY DEF OwnedBy
  <2>4. QED
    BY <1>1, <1>2, <2>1, <2>2, <2>3 DEF GoodRequest
<1>5. GoodLoads' /\ SelectionSound'
  BY <1>1 DEF WorkspaceInv, GoodLoads, SelectionSound, Loading, OwnedBy
<1>6. QED
  BY <1>3, <1>4, <1>5 DEF WorkspaceInv

\* While a request is under way only it, and the rows, change.
LEMMA RequestHolds ==
    ASSUME WorkspaceInv, request # Nothing, UNCHANGED <<listVars, chosen, refs, crossed>>,
           DOMAIN rowState' = DOMAIN rowState, request' \in Requests, GoodRequest'
    PROVE  WorkspaceInv'
<1>1. UNCHANGED <<projects, systems, generation, loads, failed, chosen, refs, crossed>> /\ WorkspaceTyped
  BY DEF listVars, WorkspaceInv
<1>2. WorkspaceTyped'
  BY <1>1 DEF WorkspaceTyped
<1>3. GoodLoads'
  BY <1>1 DEF WorkspaceInv, GoodLoads, GoodProjectsLoad, GoodDetailsLoad, OwnedBy
<1>4. SelectionSound'
  BY <1>1 DEF WorkspaceInv, SelectionSound, Loading, OwnedBy
<1>5. QED
  BY <1>2, <1>3, <1>4 DEF WorkspaceInv

LEMMA ServeSubmitHolds ==
    ASSUME WorkspaceInv, NEW id \in ProjectIds \cup SystemIds, ServeSubmit(id)
    PROVE  WorkspaceInv'
<1>1. /\ request # Nothing /\ request.stage = "ask" /\ request \in Requests /\ GoodRequest /\ WorkspaceTyped
      /\ request' = [request EXCEPT !.stage = "list", !.about = id]
      /\ UNCHANGED <<listVars, chosen, refs, crossed>>
  BY DEF ServeSubmit, WorkspaceInv, WorkspaceTyped
<1>2. /\ request' \in Requests /\ request'.kind = request.kind /\ request'.project = request.project
      /\ request'.stage = "list" /\ request'.about = id
  BY <1>1 DEF Requests
<1>3. DOMAIN rowState' = DOMAIN rowState
  BY <1>1 DEF ServeSubmit, NewRow, Removed, Requests, ProjectKinds, SystemKinds
<1>4. request.kind = "createProject" => id \in ProjectIds
  BY DEF ServeSubmit
<1>5. ASSUME request.kind = "createSystem"
      PROVE  id \in SystemIds /\ OwnerOf[id] = request.project /\ Live("system", id)'
  BY <1>1, <1>5 DEF ServeSubmit, NewRow, Live, WorkspaceTyped
<1>6. ASSUME request.kind = "updateSystem"
      PROVE  id = request.about /\ Live("system", id)'
  BY <1>1, <1>6 DEF ServeSubmit, Live
<1>7. UNCHANGED <<loads, failed, chosen, refs, crossed>>
  BY <1>1 DEF listVars
<1>8. \A p : OwnedBy(p)' = OwnedBy(p)
  BY DEF OwnedBy
<1>9. ~crossed /\ ~failed =>
        /\ request.kind = "updateSystem" => id \in OwnedBy(request.project)
        /\ request.kind \in {"createSystem", "updateSystem"} => id \in LiveSystems(request.project)'
  BY <1>1, <1>5, <1>6 DEF GoodRequest, OwnedBy, LiveSystems
<1>10. GoodRequest'
  BY <1>1, <1>2, <1>4, <1>5, <1>6, <1>7, <1>8, <1>9 DEF GoodRequest
<1>11. QED
  BY <1>1, <1>2, <1>3, <1>10, RequestHolds

LEMMA ServeRefreshHolds ==
    ASSUME WorkspaceInv, ServeRefresh
    PROVE  WorkspaceInv'
<1> DEFINE ids == IF request.kind \in ProjectKinds THEN LiveProjects ELSE LiveSystems(request.project)
<1>1. /\ request # Nothing /\ request.stage = "list" /\ request \in Requests /\ GoodRequest
      /\ request' = [request EXCEPT !.stage = "show", !.ids = ids]
      /\ UNCHANGED <<rowState, listVars, chosen, refs, crossed>>
  BY DEF ServeRefresh, WorkspaceInv, WorkspaceTyped
<1>2. /\ ids \in SUBSET (ProjectIds \cup SystemIds)
      /\ request.kind \in ProjectKinds => ids \subseteq ProjectIds
      /\ request.kind \in SystemKinds => ids = LiveSystems(request.project) /\ ids \subseteq OwnedBy(request.project)
  BY DEF LiveProjects, LiveSystems, OwnedBy, ProjectKinds, SystemKinds
<1> HIDE DEF ids
<1>3. /\ request' \in Requests /\ request'.kind = request.kind /\ request'.project = request.project
      /\ request'.stage = "show" /\ request'.about = request.about /\ request'.ids = ids
  BY <1>1, <1>2 DEF Requests
<1>4. UNCHANGED <<loads, failed, chosen, refs, crossed>>
  BY <1>1 DEF listVars
<1>5. \A p : OwnedBy(p)' = OwnedBy(p)
  BY DEF OwnedBy
<1>6. GoodRequest'
  BY <1>1, <1>2, <1>3, <1>4, <1>5 DEF GoodRequest, SystemKinds
<1>7. QED
  BY <1>1, <1>3, <1>6, RequestHolds

LEMMA SubmitDoneHolds ==
    ASSUME WorkspaceInv, SubmitDone
    PROVE  WorkspaceInv'
<1>1. /\ UNCHANGED <<rowState, refs, generation, loads, failed, crossed>> /\ request' = Nothing
      /\ request # Nothing /\ request.stage = "show" /\ request \in Requests /\ GoodRequest /\ WorkspaceTyped
      /\ projects' = IF request.kind \in ProjectKinds THEN request.ids ELSE projects
      /\ systems' = IF request.kind \in SystemKinds /\ refs.project = request.project THEN request.ids ELSE systems
      /\ chosen' = SelectedAfter
  BY DEF SubmitDone, WorkspaceInv, WorkspaceTyped
<1>2. \A load \in loads : load.kind = "details" /\ GoodDetailsLoad(load)
  BY <1>1 DEF WorkspaceInv, WorkspaceTyped, GoodLoads, GoodProjectsLoad, Loads
<1>3. GoodLoads'
  BY <1>1, <1>2 DEF GoodLoads, GoodDetailsLoad, OwnedBy
<1>4. request.kind \in SystemKinds => request.kind \notin ProjectKinds
  BY DEF ProjectKinds, SystemKinds
<1>5. /\ request.ids \subseteq ProjectIds \/ request.kind \notin ProjectKinds
      /\ (request.ids \subseteq OwnedBy(request.project) /\ request.project # NoId) \/ request.kind \notin SystemKinds
      /\ OwnedBy(request.project) \subseteq SystemIds
  BY <1>1 DEF GoodRequest, OwnedBy, SystemKinds
<1>6. WorkspaceTyped' \/ chosen' \notin Selections
  BY <1>1, <1>5 DEF WorkspaceTyped
<1>7. FirstId(request.ids) \in {NoId} \cup request.ids
  BY <1>1, FirstIdIn DEF Requests
<1>8. ~crossed => loads = {} /\ chosen = refs /\ request.project = chosen.project
  BY <1>1 DEF GoodRequest
<1>9. Loading' <=> Loading
  BY <1>1 DEF Loading
<1>10. /\ refs.project = NoId => systems' = {}
       /\ ~failed /\ ~Loading => systems' \subseteq OwnedBy(refs.project)
  BY <1>1, <1>5 DEF WorkspaceInv, SelectionSound
<1>11. \A p : OwnedBy(p)' = OwnedBy(p)
  BY DEF OwnedBy
<1>12. CASE request.kind \in {"createProject", "deleteProject"}
  <2>1. PICK p \in {NoId} \cup ProjectIds : chosen' = ChosenProject(p)
    BY <1>1, <1>5, <1>7, <1>12 DEF SelectedAfter, GoodRequest, ProjectKinds
  <2>2. systems' = systems
    BY <1>1, <1>4, <1>12 DEF ProjectKinds
  <2>3. CASE p = refs.project
    <3>1. chosen' = chosen
      BY <2>1, <2>3 DEF ChosenProject
    <3>2. chosen' \in Selections /\ SelectionSound'
      BY <1>1, <1>8, <1>9, <1>10, <1>11, <2>2, <3>1 DEF WorkspaceInv, SelectionSound, WorkspaceTyped
    <3>3. QED
      BY <1>1, <1>3, <1>6, <3>2 DEF WorkspaceInv
  <2>4. CASE p # refs.project
    <3>1. chosen' = [project |-> p, system |-> NoId]
      BY <2>1, <2>4 DEF ChosenProject
    <3>2. chosen' \in Selections /\ SelectionSound'
      BY <1>1, <1>8, <1>9, <1>10, <1>11, <2>4, <3>1 DEF SelectionSound, Selections
    <3>3. QED
      BY <1>1, <1>3, <1>6, <3>2 DEF WorkspaceInv
  <2>5. QED
    BY <2>3, <2>4
<1>13. CASE request.kind \in {"createSystem", "deleteSystem"}
  <2>1. PICK s \in {NoId} \cup SystemIds :
           /\ chosen' = ChosenSystem(s)
           /\ s \in {NoId} \cup request.ids \/ crossed \/ failed
    BY <1>1, <1>5, <1>7, <1>13 DEF SelectedAfter, GoodRequest, SystemKinds
  <2>2. chosen \in Selections /\ refs \in Selections
    BY <1>1 DEF WorkspaceTyped
  <2>3. chosen' \in Selections /\ chosen'.project = chosen.project /\ (chosen = refs => chosen'.system = s)
    BY <2>1, <2>2 DEF ChosenSystem, Selections
  <2>4. ~crossed => systems' = request.ids /\ chosen.project # NoId
    BY <1>1, <1>5, <1>8, <1>13 DEF SystemKinds
  <2>5. SelectionSound'
    BY <1>1, <1>8, <1>9, <1>10, <1>11, <2>1, <2>3, <2>4 DEF SelectionSound
  <2>6. QED
    BY <1>1, <1>3, <1>6, <2>3, <2>5 DEF WorkspaceInv
<1>14. CASE request.kind \in {"updateProject", "updateSystem"}
  <2>1. chosen' = chosen
    BY <1>1, <1>14 DEF SelectedAfter
  <2>2. ~crossed /\ ~failed => chosen.system \in systems' \/ systems' = systems
    BY <1>1, <1>4, <1>8, <1>14 DEF GoodRequest, ProjectKinds, SystemKinds
  <2>3. SelectionSound'
    BY <1>1, <1>8, <1>9, <1>10, <1>11, <2>1, <2>2 DEF WorkspaceInv, SelectionSound
  <2>4. QED
    BY <1>1, <1>3, <1>6, <2>1, <2>3 DEF WorkspaceInv, WorkspaceTyped
<1>15. QED
  BY <1>1, <1>12, <1>13, <1>14 DEF Requests, ProjectKinds, SystemKinds

LEMMA SubmitFailsHolds ==
    ASSUME WorkspaceInv, SubmitFails
    PROVE  WorkspaceInv'
<1>1. UNCHANGED <<rowState, projects, systems, generation, loads, failed, chosen, refs, crossed>> /\ request' = Nothing
  BY DEF SubmitFails, listVars
<1>2. WorkspaceTyped'
  BY <1>1 DEF WorkspaceInv, WorkspaceTyped
<1>3. GoodLoads' /\ SelectionSound'
  BY <1>1 DEF WorkspaceInv, GoodLoads, GoodProjectsLoad, GoodDetailsLoad, SelectionSound, Loading, OwnedBy
<1>4. QED
  BY <1>1, <1>2, <1>3 DEF WorkspaceInv

LEMMA WorkspaceNextHolds ==
    ASSUME WorkspaceInv, [WorkspaceNext]_workspaceVars
    PROVE  WorkspaceInv'
<1>1. CASE UNCHANGED workspaceVars
  BY <1>1, SameWorkspace DEF workspaceVars, listVars
<1>2. CASE \E load \in loads : ServeLoad(load) \/ ProjectsLoaded(load) \/ DetailsLoaded(load) \/ LoadFails(load)
  BY <1>2, ServeLoadHolds, ProjectsLoadedHolds, DetailsLoadedHolds, LoadFailsHolds
<1>3. QED
  BY <1>1, <1>2, RunEffectsHolds, SwitchHolds, SessionHolds, SubmitHolds, ServeSubmitHolds, ServeRefreshHolds,
     SubmitDoneHolds, SubmitFailsHolds DEF WorkspaceNext

\* Once everything has answered, the systems listed are those of the selected project and
\* the system selected is one of them, for any projects, systems and users and however many
\* loads and requests overlap.
THEOREM ListsFollow == WorkspaceSpec => []ListsFollowSelection
<1>1. WorkspaceInv => ListsFollowSelection
  BY DEF WorkspaceInv, SelectionSound, Loading, OwnedBy, ListsFollowSelection, Quiet
<1>2. QED
  BY <1>1, WorkspaceInitHolds, WorkspaceNextHolds, PTL DEF WorkspaceSpec

=============================================================================
