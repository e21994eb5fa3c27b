------------------------------ MODULE Workspace ------------------------------
(***************************************************************************)
(* The workspace all pages share (WorkspaceContext.tsx, App.tsx): who is    *)
(* signed in, which project and system are selected, the lists loaded for   *)
(* the selection, and the page that creates and deletes projects and        *)
(* systems (SystemsPage.tsx).                                               *)
(*                                                                         *)
(* Setting state and running the effects of the render that follows are     *)
(* two steps: answers may come between them, gestures do not.  The refs     *)
(* that async work compares with are set by the effects.                    *)
(*                                                                         *)
(* Ids are numbers and lists show them in order; NoId is the empty id.      *)
(* Of the details of a project its systems stand for both lists; catalog    *)
(* parts and symbols, loaded once, are left out.                            *)
(***************************************************************************)
EXTENDS Integers, FiniteSets, FiniteSetsExt

CONSTANTS
    ProjectIds, FirstProjects,  \* all there may be, those there are to begin with
    SystemIds, FirstSystems,
    OwnerOf,                    \* OwnerOf[s]: the project of a system
    Users, NoUser,
    MaxLoads, MaxRequests       \* bounds: loads of details; requests of the systems page

NoId == 0
Nothing == [kind |-> "nothing"]

ASSUME WorkspaceAssumption ==
    /\ ProjectIds \subseteq Nat \ {0} /\ FirstProjects \subseteq ProjectIds
    /\ SystemIds \subseteq Nat \ {0} /\ FirstSystems \subseteq SystemIds
    /\ OwnerOf \in [SystemIds -> ProjectIds]

VARIABLES
    rowState,    \* the server's rows: rowState[<<kind, id>>] is "unused", "live" or "deleted"
    user,        \* whose workspace is mounted, or NoUser
    expired,     \* the login form covers the workspace
    leaving,     \* sign-out waits for its answer
    projects,    \* the projects listed
    systems,     \* the systems listed
    chosen,      \* [project, system] as last set
    refs,        \* the same as of the last effects
    generation,  \* of the loads of details
    loads,       \* those under way: [kind, project, generation, answer]
    stored,      \* [project, system] of the browser's storage
    request,     \* what the systems page asked for, or Nothing
    requests,    \* how many there were
    route,       \* the page shown
    dirty,       \* the drafting page holds edits that are not saved
    failed,      \* not in the code: the last load for the selection failed
    crossed      \* not in the code: the selection was switched under a request of the systems page

sessionVars == <<user, expired, leaving>>
listVars == <<projects, systems, generation, loads, failed>>
workspaceVars == <<rowState, user, expired, leaving, projects, systems, chosen, refs, generation, loads,
                   stored, request, requests, route, dirty, failed, crossed>>

Live(kind, id) == rowState[<<kind, id>>] = "live"
LiveProjects == {p \in ProjectIds : Live("project", p)}
LiveSystems(p) == {s \in SystemIds : Live("system", s) /\ OwnerOf[s] = p}

NoneChosen == [project |-> NoId, system |-> NoId]

ListProjects == [kind |-> "projects", project |-> NoId, generation |-> 0, answer |-> Nothing]
Details(p, g) == [kind |-> "details", project |-> p, generation |-> g, answer |-> Nothing]

WorkspaceInit ==
    /\ rowState = [row \in {"project"} \X ProjectIds \cup {"system"} \X SystemIds |->
                     IF row \in {"project"} \X FirstProjects \cup {"system"} \X FirstSystems THEN "live" ELSE "unused"]
    /\ user \in Users
    /\ expired = FALSE
    /\ leaving = FALSE
    /\ projects = {}
    /\ systems = {}
    /\ chosen = NoneChosen
    /\ refs = NoneChosen
    /\ generation = 0
    /\ loads = {ListProjects}
    /\ stored \in [project : {NoId} \cup FirstProjects, system : {NoId} \cup FirstSystems]
    /\ request = Nothing
    /\ requests = 0
    /\ route \in {"systems", "drafting"}
    /\ dirty = FALSE
    /\ failed = FALSE
    /\ crossed = FALSE

-----------------------------------------------------------------------------
(* Effects and loads.                                                      *)

FirstId(ids) == IF ids = {} THEN NoId ELSE Min(ids)

\* What stays selected of a list that has arrived: the current one, the stored one, the first.
Kept(current, remembered, ids) ==
    IF current \in ids THEN current ELSE IF remembered \in ids THEN remembered ELSE FirstId(ids)

\* The effects of a render: the refs first, then the load for another project, then the storage.
RunEffects ==
    /\ user # NoUser
    /\ chosen # refs
    /\ generation < MaxLoads \/ chosen.project = refs.project
    /\ refs' = chosen
    /\ IF chosen.project = refs.project THEN UNCHANGED <<generation, loads, systems, failed>>
       ELSE /\ generation' = generation + 1
            /\ loads' = loads \cup (IF chosen.project = NoId THEN {} ELSE {Details(chosen.project, generation + 1)})
            /\ systems' = IF chosen.project = NoId THEN {} ELSE systems
            /\ failed' = FALSE
    /\ stored' = [project |-> IF chosen.project = NoId THEN stored.project ELSE chosen.project,
                  system  |-> IF chosen.system = NoId THEN stored.system ELSE chosen.system]
    /\ UNCHANGED <<rowState, sessionVars, projects, chosen, request, requests, route, dirty, crossed>>

\* The server reads the lists; those of a project that is gone are an error.
ServeLoad(load) ==
    /\ load.answer = Nothing
    /\ load.kind = "details" => load.project \in LiveProjects
    /\ loads' = (loads \ {load}) \cup {[load EXCEPT !.answer =
                   [kind |-> "list", ids |-> IF load.kind = "projects" THEN LiveProjects ELSE LiveSystems(load.project)]]}
    /\ UNCHANGED <<rowState, sessionVars, projects, systems, chosen, refs, generation, stored, request, requests,
                   route, dirty, failed, crossed>>

\* Fault: whichever load answers last sets the lists.
AnyLoad(load) == TRUE

\* Only the load of the latest selection counts.
CurrentLoad(load) == load.generation = generation

Arrived(load) == load \in loads /\ load.answer # Nothing

ProjectsLoaded(load) ==
    /\ Arrived(load) /\ load.kind = "projects"
    /\ loads' = loads \ {load}
    /\ projects' = load.answer.ids
    /\ chosen' = [chosen EXCEPT !.project = Kept(@, stored.project, load.answer.ids)]
    /\ UNCHANGED <<rowState, sessionVars, systems, refs, generation, stored, request, requests, route, dirty,
                   failed, crossed>>

DetailsLoaded(load) ==
    /\ Arrived(load) /\ load.kind = "details"
    /\ loads' = loads \ {load}
    /\ IF CurrentLoad(load)
       THEN /\ systems' = load.answer.ids
            /\ chosen' = [chosen EXCEPT !.system = Kept(@, stored.system, load.answer.ids)]
       ELSE UNCHANGED <<systems, chosen>>
    /\ UNCHANGED <<rowState, sessionVars, projects, refs, generation, stored, request, requests, route, dirty,
                   failed, crossed>>

\* The error is shown and the lists stay as they are.
LoadFails(load) ==
    /\ loads' = loads \ {load}
    /\ failed' = (failed \/ load.generation = generation)
    /\ UNCHANGED <<rowState, sessionVars, projects, systems, chosen, refs, generation, stored, request, requests,
                   route, dirty, crossed>>

-----------------------------------------------------------------------------
(* Selecting, and what is unsaved.                                         *)

\* The workspace is inert under the login form; a gesture finds the last render's effects done.
Usable == user # NoUser /\ ~expired /\ chosen = refs

\* pending("project"): the drafting page's edits belong to the project.  Those of a
\* selection of the system, of the page and of the session are asked for below.
Discards(scope) == dirty /\ scope \in {"project", "page", "session"}

Confirmed(scope, agrees) == Discards(scope) => agrees

\* selectProject after its question: choosing the current project again does nothing.
ChosenProject(p) == IF p = refs.project THEN chosen ELSE [project |-> p, system |-> NoId]
ChosenSystem(s) == IF s = refs.system THEN chosen ELSE [chosen EXCEPT !.system = s]

SwitchProject(p, agrees) ==
    /\ Usable
    /\ p \in projects /\ p # refs.project
    /\ Confirmed("project", agrees)
    /\ chosen' = ChosenProject(p)
    /\ dirty' = FALSE
    /\ crossed' = (crossed \/ request # Nothing)
    /\ UNCHANGED <<rowState, sessionVars, listVars, refs, stored, request, requests, route>>

SwitchSystem(s, agrees) ==
    /\ Usable
    /\ s \in systems /\ s # refs.system
    /\ Confirmed("system", agrees)
    /\ chosen' = ChosenSystem(s)
    /\ crossed' = (crossed \/ request # Nothing)
    /\ UNCHANGED <<rowState, sessionVars, listVars, refs, stored, request, requests, route, dirty>>

\* The navigation guard asks before a page with unsaved edits goes.
Navigate(to, agrees) ==
    /\ Usable
    /\ to # route
    /\ Confirmed("page", agrees)
    /\ route' = to
    /\ dirty' = FALSE
    /\ UNCHANGED <<rowState, sessionVars, listVars, chosen, refs, stored, request, requests, crossed>>

EditDrawing ==
    /\ Usable
    /\ route = "drafting" /\ ~dirty /\ ~leaving
    /\ dirty' = TRUE
    /\ UNCHANGED <<rowState, sessionVars, listVars, chosen, refs, stored, request, requests, route, crossed>>

SaveDrawing ==
    /\ dirty
    /\ dirty' = FALSE
    /\ UNCHANGED <<rowState, sessionVars, listVars, chosen, refs, stored, request, requests, route, crossed>>

-----------------------------------------------------------------------------
(* The session.                                                            *)

SignOut(agrees) ==
    /\ Usable /\ ~leaving
    /\ Confirmed("session", agrees)
    /\ leaving' = TRUE
    /\ UNCHANGED <<rowState, user, expired, listVars, chosen, refs, stored, request, requests, route, dirty, crossed>>

\* A workspace that is not mounted yet: what is under way answers to nobody.
Unmounted ==
    /\ projects' = {} /\ systems' = {} /\ chosen' = NoneChosen /\ refs' = NoneChosen
    /\ generation' = 0 /\ failed' = FALSE /\ crossed' = FALSE /\ request' = Nothing
    /\ dirty' = FALSE

\* Whatever logout answered; its question was asked before.
SignedOut ==
    /\ leaving
    /\ leaving' = FALSE /\ expired' = FALSE
    /\ user' = NoUser
    /\ Unmounted
    /\ loads' = {}
    /\ UNCHANGED <<rowState, stored, requests, route>>

\* A request of the workspace is refused for want of a session.
SessionExpires ==
    /\ user # NoUser /\ ~expired
    /\ expired' = TRUE
    /\ UNCHANGED <<rowState, user, leaving, listVars, chosen, refs, stored, request, requests, route, dirty, crossed>>

\* The same account finds its workspace as it was; another one gets a fresh workspace.
SignIn(who) ==
    /\ expired \/ user = NoUser
    /\ expired' = FALSE
    /\ user' = who
    /\ IF who = user
       THEN UNCHANGED <<listVars, chosen, refs, request, crossed, dirty>>
       ELSE Unmounted /\ loads' = {ListProjects}
    /\ UNCHANGED <<rowState, leaving, stored, requests, route>>

-----------------------------------------------------------------------------
(* The systems page.                                                       *)

\* runAction counts what it runs: loads and requests.
Busy == loads # {} \/ request # Nothing

ProjectKinds == {"createProject", "updateProject", "deleteProject"}
SystemKinds == {"createSystem", "updateSystem", "deleteSystem"}

\* Creating asks for what the new selection would drop, deleting only whether to delete.
Submit(kind) ==
    /\ Usable
    /\ route = "systems" /\ ~Busy /\ requests < MaxRequests
    /\ kind # "createProject" => chosen.project \in projects
    /\ kind \in {"updateSystem", "deleteSystem"} => chosen.system \in systems
    /\ request' = [kind |-> kind, project |-> chosen.project, stage |-> "ask",
                   about |-> IF kind \in ProjectKinds THEN chosen.project ELSE chosen.system, ids |-> {}]
    /\ requests' = requests + 1
    /\ UNCHANGED <<rowState, sessionVars, listVars, chosen, refs, stored, route, dirty, crossed>>

NewRow(kind, id) ==
    /\ rowState[<<kind, id>>] = "unused"
    /\ rowState' = [rowState EXCEPT ![<<kind, id>>] = "live"]

Removed(kind, id) ==
    rowState' = [row \in DOMAIN rowState |->
        IF row = <<kind, id>> \/ (kind = "project" /\ row[1] = "system" /\ OwnerOf[row[2]] = id /\ rowState[row] = "live")
        THEN "deleted" ELSE rowState[row]]

ServeSubmit(id) ==
    /\ request # Nothing /\ request.stage = "ask"
    /\ request' = [request EXCEPT !.stage = "list", !.about = id]
    /\ CASE request.kind = "createProject" -> id \in ProjectIds /\ NewRow("project", id)
         [] request.kind = "createSystem"  -> /\ id \in SystemIds /\ OwnerOf[id] = request.project
                                              /\ Live("project", request.project) /\ NewRow("system", id)
         [] request.kind = "updateProject" -> id = request.about /\ Live("project", id) /\ UNCHANGED rowState
         [] request.kind = "updateSystem"  -> id = request.about /\ Live("system", id) /\ UNCHANGED rowState
         [] request.kind = "deleteProject" -> id = request.about /\ Live("project", id) /\ Removed("project", id)
         [] request.kind = "deleteSystem"  -> id = request.about /\ Live("system", id) /\ Removed("system", id)
    /\ UNCHANGED <<sessionVars, listVars, chosen, refs, stored, requests, route, dirty, crossed>>

\* refreshProjects, refreshSystems: the list is read once the change is answered.
ServeRefresh ==
    /\ request # Nothing /\ request.stage = "list"
    /\ request.kind \in SystemKinds => Live("project", request.project)
    /\ request' = [request EXCEPT !.stage = "show",
                     !.ids = IF request.kind \in ProjectKinds THEN LiveProjects ELSE LiveSystems(request.project)]
    /\ UNCHANGED <<rowState, sessionVars, listVars, chosen, refs, stored, requests, route, dirty, crossed>>

\* What is selected in the end, asked about before or not at all.
SelectedAfter ==
    CASE request.kind = "createProject" -> ChosenProject(request.about)
      [] request.kind = "deleteProject" -> ChosenProject(FirstId(request.ids))
      [] request.kind = "createSystem"  -> ChosenSystem(request.about)
      [] request.kind = "deleteSystem"  -> ChosenSystem(FirstId(request.ids))
      [] OTHER                          -> chosen

SubmitDone ==
    /\ request # Nothing /\ request.stage = "show"
    /\ projects' = IF request.kind \in ProjectKinds THEN request.ids ELSE projects
    /\ systems' = IF request.kind \in SystemKinds /\ refs.project = request.project THEN request.ids ELSE systems
    /\ chosen' = SelectedAfter
    /\ dirty' = (dirty /\ chosen'.project = chosen.project)
    /\ request' = Nothing
    /\ UNCHANGED <<rowState, sessionVars, refs, generation, loads, failed, stored, requests, route, crossed>>

\* Refused, or its answer is lost: nothing is selected.
SubmitFails ==
    /\ request # Nothing
    /\ request' = Nothing
    /\ UNCHANGED <<rowState, sessionVars, listVars, chosen, refs, stored, requests, route, dirty, crossed>>

WorkspaceNext ==
    \/ RunEffects
    \/ \E load \in loads : ServeLoad(load) \/ ProjectsLoaded(load) \/ DetailsLoaded(load) \/ LoadFails(load)
    \/ \E agrees \in BOOLEAN :
         \/ \E p \in ProjectIds : SwitchProject(p, agrees)
         \/ \E s \in SystemIds : SwitchSystem(s, agrees)
         \/ \E to \in {"systems", "drafting"} : Navigate(to, agrees)
         \/ SignOut(agrees)
    \/ EditDrawing \/ SaveDrawing
    \/ SignedOut \/ SessionExpires
    \/ \E who \in Users : SignIn(who)
    \/ \E kind \in ProjectKinds \cup SystemKinds : Submit(kind)
    \/ \E id \in ProjectIds \cup SystemIds : ServeSubmit(id)
    \/ ServeRefresh \/ SubmitDone \/ SubmitFails

WorkspaceSpec == WorkspaceInit /\ [][WorkspaceNext]_workspaceVars

-----------------------------------------------------------------------------
(* Properties.                                                             *)

Quiet == chosen = refs /\ loads = {} /\ request = Nothing

\* Once everything asked for has answered, the systems listed are those of the selected
\* project, in whatever order the loads of quick switches and the requests of the systems
\* page answer, and the system selected is one of them; unless the last load failed, or, for
\* the system, the selection was switched under a request of the systems page, which
\* then selects a system of the project before, or leaves one selected that is deleted.
ListsFollowSelection ==
    user # NoUser /\ Quiet /\ ~failed =>
        /\ \A s \in systems : OwnerOf[s] = chosen.project
        /\ ~crossed /\ chosen.system # NoId => chosen.system \in systems

=============================================================================
