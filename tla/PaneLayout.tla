------------------------------ MODULE PaneLayout ------------------------------
(***************************************************************************)
(* The plugin panes around the terminal of one tab: TabPluginLayout        *)
(* (crates/wassh-core/src/layout.rs), what the dock makes of the mouse     *)
(* (crates/wassh-ui/src/dock.rs), and what the window does and saves       *)
(* (crates/wassh/src/app/mod.rs, session.rs).                              *)
(*                                                                         *)
(* The tree of a dock is the sequence of its leaves in render order: every *)
(* split is made at the root, along the axis of its edge, and a split that *)
(* loses a side becomes the other one, so the order is what the shape adds *)
(* to the set.  Of the sizes only whether they are saved is kept.          *)
(***************************************************************************)
EXTENDS Lists

CONSTANT Plugins   \* plugins of the toolbar

VARIABLES layout,   \* what each place shows
          resized,  \* a splitter was moved since the layout was saved
          stored,   \* plugin_layout of the tab in tabs.json
          drag      \* Shell::dock_drag, or "none"

layoutVars == <<layout, resized, stored, drag>>

Edges == {"Left", "Right", "Top", "Bottom"}

Places == Edges \cup {"Overlay"}

Layouts == [Places -> Seq(Plugins)]

NoPanes == [e \in Places |-> << >>]

Open(l) == UNION {Elements(l[e]) : e \in Places}

(* Slip: a split that loses a side goes with it.                           *)
WithoutSibling(l, p) ==
  [e \in Places |-> IF p \in Elements(l[e]) THEN << >> ELSE l[e]]

(* remove_plugin.                                                          *)
Without(l, p) == [e \in Places |-> Only(l[e], Plugins \ {p})]

Opposite == [e \in Edges |-> CASE e = "Left" -> "Right" [] e = "Right" -> "Left"
                               [] e = "Top" -> "Bottom" [] e = "Bottom" -> "Top"]

(* wrap, and a leaf of its own where the dock is empty.                    *)
Beside(s, p, zone) == IF zone \in {"Left", "Top"} THEN <<p>> \o s ELSE Append(s, p)

(* Slip: the plugin is not taken from where it is.                         *)
DockAgain(l, p, e, zone) == [l EXCEPT ![e] = Beside(@, p, zone)]

DockOnEdge(l, p, e, zone) == [Without(l, p) EXCEPT ![e] = Beside(@, p, zone)]

(* What floated there is in no place afterwards.                           *)
MoveToOverlay(l, p) == [Without(l, p) EXCEPT !["Overlay"] = <<p>>]

-----------------------------------------------------------------------------
(* persist_tabs, for this tab.                                             *)
Persist == stored' = layout' /\ resized' = FALSE

(* The manifest of the plugin says where it opens; its dock grows when it  *)
(* has panes already.                                                      *)
Placement(p) == IF p = "connection-logger" THEN "Bottom" ELSE "Right"

Toggle(p) ==
  /\ layout' = IF p \in Open(layout) THEN Without(layout, p)
               ELSE DockOnEdge(layout, p, Placement(p), Placement(p))
  /\ Persist
  /\ UNCHANGED drag

(* The button in the header of a pane.  Nothing is saved.                  *)
ClosePane(p) ==
  /\ p \in Open(layout)
  /\ layout' = Without(layout, p)
  /\ UNCHANGED <<resized, stored, drag>>

(* A button of the toolbar, or the header of a pane that is open.          *)
StartDrag(p) ==
  /\ drag = "none"
  /\ drag' = p
  /\ UNCHANGED <<layout, resized, stored>>

CancelDrag ==
  /\ drag # "none"
  /\ drag' = "none"
  /\ UNCHANGED <<layout, resized, stored>>

(* apply_drop: the outer side of a dock, its inner side, or the overlay.   *)
ApplyDrop(l, p, e, inner) ==
  CASE e = "Overlay" -> MoveToOverlay(l, p)
    [] e # "Overlay" /\ inner -> DockOnEdge(l, p, e, Opposite[e])
    [] e # "Overlay" /\ ~inner -> DockOnEdge(l, p, e, e)

(* Slip: the layout is saved when a splitter moves, not when a pane does.  *)
DropUnsaved ==
  /\ drag # "none"
  /\ \E e \in Places, inner \in BOOLEAN : layout' = ApplyDrop(layout, drag, e, inner)
  /\ drag' = "none"
  /\ UNCHANGED <<resized, stored>>

Drop ==
  /\ drag # "none"
  /\ \E e \in Places, inner \in BOOLEAN : layout' = ApplyDrop(layout, drag, e, inner)
  /\ drag' = "none"
  /\ Persist

(* Between a dock and the terminal, or between two panes.  The window does *)
(* nothing with Resized.                                                   *)
MoveSplitter ==
  /\ \E e \in Edges : layout[e] # << >>
  /\ resized' = TRUE
  /\ UNCHANGED <<layout, stored, drag>>

(* A tab opens, closes, moves or is picked: all tabs are saved.            *)
PersistTabs ==
  /\ UNCHANGED <<layout, drag>>
  /\ Persist

(* The program ends, orderly or not, and restores the tab.                 *)
RestoreTab ==
  /\ layout' = stored /\ resized' = FALSE /\ drag' = "none"
  /\ UNCHANGED stored

LayoutInit ==
  layout = NoPanes /\ resized = FALSE /\ stored = NoPanes /\ drag = "none"

LayoutNext ==
  \/ \E p \in Plugins : Toggle(p) \/ ClosePane(p) \/ StartDrag(p)
  \/ CancelDrag \/ Drop \/ MoveSplitter \/ PersistTabs \/ RestoreTab

LayoutSpec == LayoutInit /\ [][LayoutNext]_layoutVars

-----------------------------------------------------------------------------
(* Properties.                                                             *)

(* Every variable has its type.                                            *)
LayoutTypeOK ==
  /\ layout \in Layouts /\ stored \in Layouts
  /\ resized \in BOOLEAN
  /\ drag \in Plugins \cup {"none"}

(* However panes are opened, dragged, floated, closed and restored, a      *)
(* plugin has one pane at most (dock_on_edge and move_to_overlay remove it *)
(* first): close_plugin closes it, and the toggle tells open from closed.  *)
OnePaneEach(l) ==
  \A p \in Open(l) : \A e, f \in Places : \A i \in DOMAIN l[e], j \in DOMAIN l[f] :
    l[e][i] = p /\ l[f][j] = p => e = f /\ i = j

PanesAreUnique == OnePaneEach(layout) /\ OnePaneEach(stored)

(* A pane goes away only when it is closed itself, and the rest stays      *)
(* where it is, when another is floated in its place, or by a restart      *)
(* (remove collapses the split it was in, and loses nothing else).         *)
Loses(p) ==
  \/ layout' = Without(layout, p)
  \/ layout["Overlay"] = <<p>> /\ layout'["Overlay"] # << >>
  \/ layout' = stored

PanesStayOpen ==
  [][layout' # layout => \A p \in Open(layout) \ Open(layout') : Loses(p)]_layoutVars

(* What a crash brings back is the layout on the screen, with the panes    *)
(* closed by their own button since the last save in their old places:     *)
(* every other change of the layout was saved when it was made.            *)
CrashRestoresPanes ==
  \/ layout = stored
  \/ layout = [e \in Places |-> Only(stored[e], Open(layout))]

(* "A splitter moved, so the layout needs saving." (dock.rs)               *)
LayoutIsSaved == layout = stored /\ ~resized
=============================================================================
