----------------------------- MODULE Baselines ------------------------------
(***************************************************************************)
(* What the release workflow promises, without sheets, parts or checks.    *)
(* A drawing of a project is open to change, or locked as a numbered       *)
(* baseline.  Locking files the drawing's content as it is at that moment. *)
(* A locked drawing does not change except that its links to what is       *)
(* deleted elsewhere go, a filed baseline never changes, and the only ways *)
(* on from a lock are to reopen the drawing under the next number and to   *)
(* delete the whole project.                                               *)
(*                                                                         *)
(* The content of a drawing is a record, whose field links is the set of   *)
(* its references to things that may be deleted.                           *)
(*                                                                         *)
(* implementation.md, "Release workflow"; DrawingRelease implements it.    *)
(***************************************************************************)
EXTENDS Integers

CONSTANTS Drawings, Nothing

VARIABLES
    projects,   \* the projects there are
    home,       \* home[d]: the project of drawing d
    phase,      \* phase[d]: "none", "open" or "locked"
    content,    \* content[d]: what a reader of drawing d sees
    number,     \* number[d]: the revision under way or locked
    baseline    \* baseline[d][n]: the content filed as revision n, or Nothing

vars == <<projects, home, phase, content, number, baseline>>

\* Content e is content c, or c without some of its links.
Loses(c, e) ==
    \/ e = c
    \/ e.links \subseteq c.links /\ e = [c EXCEPT !.links = e.links]

\* f and its next value agree everywhere but at d.
OnlyAt(d, f, g) == \A e \in Drawings \ {d} : g[e] = f[e]

Others(d) ==
    /\ OnlyAt(d, home, home')
    /\ OnlyAt(d, phase, phase')
    /\ OnlyAt(d, content, content')
    /\ OnlyAt(d, number, number')
    /\ OnlyAt(d, baseline, baseline')
    /\ projects' = projects

NothingFiled(d) == \A n \in DOMAIN baseline[d] : baseline[d][n] = Nothing

Init ==
    /\ projects = {}
    /\ phase = [d \in Drawings |-> "none"]
    /\ \A d \in Drawings : NothingFiled(d)

\* A drawing of a project comes to be, with nothing filed.
Open(d) ==
    /\ phase[d] = "none" /\ phase'[d] = "open"
    /\ home'[d] \in projects
    /\ NothingFiled(d)'
    /\ Others(d)

\* Any change of an open drawing: its content, or a further revision number.
Change(d) ==
    /\ phase[d] = "open" /\ phase'[d] = "open"
    /\ home'[d] = home[d]
    /\ number'[d] \in {number[d], number[d] + 1}
    /\ baseline'[d] = baseline[d]
    /\ Others(d)

\* The content as it stands is filed under the current number, which was free.
Lock(d) ==
    /\ phase[d] = "open" /\ phase'[d] = "locked"
    /\ home'[d] = home[d]
    /\ content'[d] = content[d]
    /\ number'[d] = number[d]
    /\ baseline[d][number[d]] = Nothing
    /\ baseline'[d] = [baseline[d] EXCEPT ![number[d]] = content[d]]
    /\ Others(d)

Reopen(d) ==
    /\ phase[d] = "locked" /\ phase'[d] = "open"
    /\ home'[d] = home[d]
    /\ number'[d] = number[d] + 1
    /\ baseline'[d] = baseline[d]
    /\ Others(d)

\* An open drawing may be discarded with everything filed for it; a locked one not.
Discard(d) ==
    /\ phase[d] = "open" /\ phase'[d] = "none"
    /\ NothingFiled(d)'
    /\ Others(d)

\* Drawing d stays as it is, up to lost links.
Lapses(d) ==
    /\ home'[d] = home[d]
    /\ phase'[d] = phase[d]
    /\ number'[d] = number[d]
    /\ baseline'[d] = baseline[d]
    /\ Loses(content[d], content'[d])

\* Something drawings refer to is deleted: open and locked ones lose their links to it.
Lapse ==
    /\ projects' = projects
    /\ \A d \in Drawings : Lapses(d)

Found ==
    /\ projects \subseteq projects'
    /\ UNCHANGED <<home, phase, content, number, baseline>>

\* A project goes, with its drawings in whatever phase, and what was filed for them.
Purge(p) ==
    /\ projects' = projects \ {p}
    /\ \A d \in Drawings :
          IF home[d] = p THEN phase'[d] = "none" /\ NothingFiled(d)' ELSE Lapses(d)

Next ==
    \/ \E d \in Drawings : Open(d) \/ Change(d) \/ Lock(d) \/ Reopen(d) \/ Discard(d)
    \/ Lapse
    \/ Found
    \/ \E p \in projects : Purge(p)

Spec == Init /\ [][Next]_vars

=============================================================================
