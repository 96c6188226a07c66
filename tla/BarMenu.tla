------------------------------- MODULE BarMenu -------------------------------
(***************************************************************************)
(* How the menu bar draws its state (internal/bar/render.go, renderLoop in *)
(* bar.go): the dirty channel with its single token, the fixed pool of     *)
(* rows that routes are bound to, and the footer's item that stops and     *)
(* starts the daemon.                                                      *)
(*                                                                         *)
(* What writes the state is Bar; here any change may come from any of its  *)
(* writers, the listener and the refreshes.  A route is there or not; its  *)
(* target, health and check marks are drawn with the row.                  *)
(***************************************************************************)
EXTENDS Integers, FiniteSets

CONSTANTS
  MenuNames,  \* route names: integers, whose order is that of sortRoutes
  Rows,       \* the rows, 1..routeSlotPool
  Writers,    \* the listener and the refreshes
  NoRoute     \* no route

ASSUME BarMenuAssumption ==
  /\ MenuNames \subseteq Int /\ IsFiniteSet(MenuNames) /\ NoRoute \notin MenuNames
  /\ Rows \subseteq Nat /\ IsFiniteSet(Rows)

VARIABLES
  mirrored,   \* State.routes
  up,         \* State.daemonUp
  marking,    \* writers that have changed the state and not yet called markDirty
  dirty,      \* the dirty channel holds its token
  loop,       \* renderLoop: "wait", "drain" or "bound" (rows bound, footer not yet drawn)
  snap,       \* the snapshot of the last Reconcile
  rows,       \* [Rows -> the route a row is bound to]
  pending,    \* Renderer.pending: a stop or start of the daemon is under way
  enabled,    \* the footer's item can be clicked
  displaced,  \* history: the last Reconcile found rows of routes that are gone
  ended       \* history: a job has ended since the last Reconcile

stateVars == <<mirrored, up, marking>>
drawVars == <<loop, snap, rows, displaced>>
footVars == <<pending, enabled, ended>>
menuVars == <<stateVars, dirty, drawVars, footVars>>

MenuTypeOK ==
  /\ mirrored \subseteq MenuNames /\ up \in BOOLEAN /\ marking \subseteq Writers
  /\ dirty \in BOOLEAN /\ loop \in {"wait", "drain", "bound"}
  /\ snap \in [up : BOOLEAN, routes : SUBSET MenuNames]
  /\ rows \in [Rows -> MenuNames \cup {NoRoute}]
  /\ pending \in BOOLEAN /\ enabled \in BOOLEAN
  /\ displaced \in BOOLEAN /\ ended \in BOOLEAN

MenuInit ==
  /\ mirrored = {} /\ up = FALSE /\ marking = {}
  /\ dirty = FALSE /\ loop = "wait"
  /\ snap = [up |-> FALSE, routes |-> {}]
  /\ rows = [s \in Rows |-> NoRoute]
  /\ pending = FALSE /\ enabled = TRUE
  /\ displaced = FALSE /\ ended = FALSE

-----------------------------------------------------------------------------
(* The state and its writers.                                              *)

\* State.Apply, ReplaceRoutes, SetDaemonUp: the list or the connection changes.
Write(w) ==
  /\ w \notin marking /\ marking' = marking \cup {w}
  /\ \/ mirrored' \in SUBSET MenuNames /\ UNCHANGED up
     \/ up' = ~up /\ UNCHANGED mirrored
  /\ UNCHANGED <<dirty, drawVars, footVars>>

\* markDirty; a token that is there already is enough.
MarkDirty(w) ==
  /\ w \in marking /\ marking' = marking \ {w}
  /\ dirty' = TRUE
  /\ UNCHANGED <<mirrored, up, drawVars, footVars>>

-----------------------------------------------------------------------------
(* renderLoop and Reconcile.                                               *)

WakeLoop ==
  /\ loop = "wait" /\ dirty
  /\ dirty' = FALSE /\ loop' = "drain"
  /\ UNCHANGED <<stateVars, snap, rows, displaced, footVars>>

\* More tokens within reconcileDelay.
Absorb ==
  /\ loop = "drain" /\ dirty /\ dirty' = FALSE
  /\ UNCHANGED <<stateVars, drawVars, footVars>>

\* The rows nobody is bound to, and the routes of a list that have no row yet.
\* A row bound before is not free, although its route may be gone.
FreeRows == {s \in Rows : rows[s] = NoRoute}
Waiting(list) == {n \in list : \A s \in Rows : rows[s] # n}

\* Mutant: the last free row is not given away.
ReachedOneLess(n, list) == Cardinality({m \in Waiting(list) : m <= n}) < Cardinality(FreeRows)

\* bindRoutes goes through the routes in their order and ends at the first that
\* finds no free row.
Reached(n, list) == Cardinality({m \in Waiting(list) : m <= n}) <= Cardinality(FreeRows)

Rank(x, S) == Cardinality({y \in S : y < x})

\* Mutant: the name is cleared and the row stays bound.
UnboundNameless(s) == 0

Unbound(s) == NoRoute

\* A route keeps its row; the waiting ones take the free rows in order; the rows
\* that are left are unbound.
Binding(list) ==
  [s \in Rows |->
     LET taker == {n \in list : /\ Reached(n, list)
                               /\ IF rows[s] # NoRoute THEN rows[s] = n
                                  ELSE n \in Waiting(list) /\ Rank(n, Waiting(list)) = Rank(s, FreeRows)}
     IN IF taker = {} THEN Unbound(s) ELSE CHOOSE n \in taker : TRUE]

\* Mutant: the delay starts again with every token.
ReconcileWhenCalm ==
  /\ loop = "drain" /\ ~dirty /\ loop' = "bound"
  /\ snap' = [up |-> up, routes |-> mirrored]
  /\ rows' = Binding(mirrored)
  /\ displaced' = (\E s \in Rows : rows[s] # NoRoute /\ rows[s] \notin mirrored)
  /\ UNCHANGED <<stateVars, dirty, footVars>>

\* The delay is over: the snapshot is taken and the rows are bound.
Reconcile ==
  /\ loop = "drain" /\ loop' = "bound"
  /\ snap' = [up |-> up, routes |-> mirrored]
  /\ rows' = Binding(mirrored)
  /\ displaced' = (\E s \in Rows : rows[s] # NoRoute /\ rows[s] \notin mirrored)
  /\ UNCHANGED <<stateVars, dirty, footVars>>

\* Mutant: the item is enabled again only where it shows another state.
DrawKeepingToggle ==
  /\ loop = "bound" /\ loop' = "wait"
  /\ ended' = FALSE
  /\ enabled' = (enabled /\ ~pending)
  /\ UNCHANGED <<stateVars, dirty, snap, rows, displaced, pending>>

\* Mutant: the tokens are drained after the drawing, too.
DrawAndClear ==
  /\ loop = "bound" /\ loop' = "wait" /\ dirty' = FALSE
  /\ ended' = FALSE
  /\ enabled' = ~pending
  /\ UNCHANGED <<stateVars, snap, rows, displaced, pending>>

\* updateToggle.
Draw ==
  /\ loop = "bound" /\ loop' = "wait"
  /\ ended' = FALSE
  /\ enabled' = ~pending
  /\ UNCHANGED <<stateVars, dirty, snap, rows, displaced, pending>>

-----------------------------------------------------------------------------
(* onToggleClick.                                                          *)

\* One job at a time: the item says "Working..." and takes no click.
ClickToggle ==
  /\ enabled /\ ~pending
  /\ pending' = TRUE /\ enabled' = FALSE
  /\ UNCHANGED <<stateVars, dirty, drawVars, ended>>

\* stopDaemon or startDaemon returns; nothing is drawn.
JobEnds ==
  /\ pending /\ pending' = FALSE
  /\ ended' = TRUE
  /\ UNCHANGED <<stateVars, dirty, drawVars, enabled>>

-----------------------------------------------------------------------------
MenuNext ==
  \/ \E w \in Writers : Write(w) \/ MarkDirty(w)
  \/ WakeLoop \/ Absorb \/ Reconcile \/ Draw
  \/ ClickToggle \/ JobEnds

MenuSpec == MenuInit /\ [][MenuNext]_menuVars

(* The goroutines of the bar run; nobody has to click or to change things. *)
MenuFairness ==
  /\ \A w \in Writers : WF_menuVars(MarkDirty(w))
  /\ WF_menuVars(WakeLoop) /\ WF_menuVars(Reconcile) /\ WF_menuVars(Draw)

MenuFairSpec == MenuSpec /\ MenuFairness

-----------------------------------------------------------------------------
(* Properties.                                                             *)

MenuAtRest == ~dirty /\ loop = "wait" /\ marking = {}

\* Once all writers have called markDirty and the loop waits, the menu shows
\* the state as it is: the single token never loses a change.
DrawsTheState == MenuAtRest => snap = [up |-> up, routes |-> mirrored]

\* No two rows show the same route, no row shows a route the snapshot does not
\* have, and if there are enough rows every route has one, unless some were
\* still bound to routes that have gone: freeSlot passes those over, and the
\* loop in bindRoutes ends at the first route without a row.
RowsShowRoutes ==
  LET shown == {rows[s] : s \in Rows} \ {NoRoute}
  IN /\ \A s, t \in Rows : s # t /\ rows[s] # NoRoute => rows[s] # rows[t]
     /\ shown \subseteq snap.routes
     /\ ~displaced /\ Cardinality(snap.routes) <= Cardinality(Rows) => shown = snap.routes

\* Both: what the menu shows is the state (bar.go:54, render.go:245).
MenuIsCurrent == DrawsTheState /\ RowsShowRoutes

\* At rest and with no job under way the footer's item can be clicked, unless
\* the job has ended after the last Reconcile: nobody calls markDirty at its
\* end (onToggleClick), and with the daemon down nothing else may.
ToggleComesBack == MenuAtRest /\ ~pending => enabled \/ ended

\* After a change there comes a Reconcile, however fast the tokens come in.
ChangesAreDrawn == marking # {} ~> loop = "bound"
=============================================================================
