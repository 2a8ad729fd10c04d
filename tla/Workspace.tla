----------------------------- MODULE Workspace -----------------------------
(* Who registers watchers with LiveClient: the boxes of the workspace and    *)
(* the ticker tape (frontend/app.js).  A box is drawn in a rendering of the  *)
(* whole grid and loads by itself; a load that comes back finds a rendering  *)
(* of another number, or its own.  A box's watcher paints the elements of    *)
(* the load that registered it.                                              *)
EXTENDS Integers, FiniteSetsExt

CONSTANTS
  Box,         \* ids of boxes, that a layout that was stored brings back
  Shows,       \* what a box may be set to show: its symbols and provider
  Lists,       \* sets of symbols the watchlist holds, an empty one too
  Handle,      \* 1 .. bound on watchers open at a time
  MaxRenders,  \* bound on wsRenderVersion
  MaxCards     \* bound on loads of the tape under way

VARIABLES
  version,     \* wsRenderVersion
  drawn,       \* the grid: what its boxes show, "" for a box that is not there
  loads,       \* loadWsWidget calls that wait for their replies
  wsLive,      \* the handle of a box's watcher, 0 for none
  tape,        \* the symbols on the tape, and tapeLive
  cards,       \* loadWatchCards calls: where each of them waits
  watchers     \* Live's watchers

vars == <<version, drawn, loads, wsLive, tape, cards, watchers>>

Layout == [Box -> Shows \cup {""}]
Init == /\ version = 0 /\ drawn = [b \in Box |-> ""] /\ loads = {}
        /\ wsLive = [b \in Box |-> 0]
        /\ tape = [symbols |-> {}, handle |-> 0]
        /\ cards = [list |-> 0, quotes |-> 0] /\ watchers = {}

Without(handle) == {w \in watchers : w.id # handle}
NewHandle == Min(Handle \ {w.id : w \in watchers})

----------------------------------------------------------------------------
(* The workspace. *)

\* renderWorkspace: all handles closed, the boxes drawn anew, and loaded.  So
\* ends every change: the symbol or provider of a box, a box added, removed,
\* resized or moved, the view opened, the layout reset or another user's read.
Closed == {w \in watchers : \E b \in Box : wsLive[b] = w.id}
LoadOf(b, layout, of, copy) == [box |-> b, shows |-> layout[b], version |-> of, copy |-> copy]
Render(layout) ==
  /\ version < MaxRenders /\ version' = version + 1
  /\ drawn' = layout
  /\ wsLive' = [b \in Box |-> 0] /\ watchers' = watchers \ Closed
  /\ loads' = loads \cup {LoadOf(b, layout, version', 1) : b \in {c \in Box : layout[c] # ""}}
  /\ UNCHANGED <<tape, cards>>

\* The refresh button loads a box once more, in the rendering it is drawn in.
Refresh(b) ==
  /\ drawn[b] # "" /\ LoadOf(b, drawn, version, 2) \notin loads
  /\ loads' = loads \cup {LoadOf(b, drawn, version, 2)}
  /\ UNCHANGED <<version, drawn, wsLive, tape, cards, watchers>>

\* Slip: any box of that id will do.
BodyOfAny(load) == drawn[load.box] # ""

\* wsBody: the box is still drawn, by the rendering that asked.
Body(load) == drawn[load.box] # "" /\ load.version = version

\* The replies are in: the watcher of an earlier load is closed, and one opened.
Arrive(load) ==
  /\ loads' = loads \ {load}
  /\ IF Body(load)
       THEN /\ wsLive' = [wsLive EXCEPT ![load.box] = NewHandle]
            /\ watchers' = Without(wsLive[load.box]) \cup
                 {[id |-> NewHandle, of |-> load.box, shows |-> load.shows, symbols |-> {}]}
       ELSE UNCHANGED <<wsLive, watchers>>
  /\ UNCHANGED <<version, drawn, tape, cards>>

\* A load that fails says so in the box, or in nobody's; the watcher stays.
\* A view without prices, news or a portfolio, loads like this as well.
Fail(load) == /\ loads' = loads \ {load}
              /\ UNCHANGED <<version, drawn, wsLive, tape, cards, watchers>>

----------------------------------------------------------------------------
(* The tape. *)

\* At login, by the refresh button, and with each ticker added or removed.
LoadCards == /\ cards.list + cards.quotes < MaxCards /\ cards' = [cards EXCEPT !.list = @ + 1]
             /\ UNCHANGED <<version, drawn, loads, wsLive, tape, watchers>>

\* The list comes, as it was: an empty one clears the tape, whose watcher stays.
ListCame(l) == /\ cards.list > 0
               /\ IF l = {}
                    THEN /\ tape' = [tape EXCEPT !.symbols = {}]
                         /\ cards' = [cards EXCEPT !.list = @ - 1]
                    ELSE /\ cards' = [list |-> cards.list - 1, quotes |-> cards.quotes + 1]
                         /\ UNCHANGED tape
               /\ UNCHANGED <<version, drawn, loads, wsLive, watchers>>

\* Then the quotes, of a list that may have changed again.
QuotesCame(symbols) ==
  /\ cards.quotes > 0 /\ cards' = [cards EXCEPT !.quotes = @ - 1]
  /\ tape' = [symbols |-> symbols, handle |-> NewHandle]
  /\ watchers' = Without(tape.handle) \cup
       {[id |-> NewHandle, of |-> "tape", shows |-> "", symbols |-> symbols]}
  /\ UNCHANGED <<version, drawn, loads, wsLive>>

\* logout closes every watcher; a handle to one that is closed does nothing.
Logout == /\ watchers' = {} /\ wsLive' = [b \in Box |-> 0] /\ tape' = [tape EXCEPT !.handle = 0]
          /\ UNCHANGED <<version, drawn, loads, cards>>

Next == \/ \E layout \in Layout : Render(layout)
        \/ \E b \in Box : Refresh(b)
        \/ \E load \in loads : Arrive(load) \/ Fail(load)
        \/ LoadCards \/ Logout
        \/ \E l \in Lists : ListCame(l) \/ QuotesCame(l)

Spec == Init /\ [][Next]_vars

----------------------------------------------------------------------------
(* Properties. *)

\* Renderings are numbered, and a watcher has one handle.
TypeOK ==
  /\ drawn \in Layout /\ version \in 0 .. MaxRenders
  /\ wsLive \in [Box -> Handle \cup {0}]
  /\ \A w \in watchers : /\ w.id \in Handle /\ w.of \in Box \cup {"tape"}
                         /\ \A w2 \in watchers : w.id = w2.id => w = w2
  /\ tape.symbols \in Lists /\ tape.handle \in Handle \cup {0}

\* "Live handles per workspace box, closed whenever the box is redrawn or
\* removed": a watcher belongs to a box that is drawn, streams what that box was
\* last set to, and is the one its handle closes, whatever order the replies of
\* its loads, of this rendering and of earlier ones, come in.  So it is with the
\* tape, but for a list that was emptied: its watcher streams on.
WatchersShown ==
  \A w \in watchers :
    IF w.of = "tape"
      THEN tape.handle = w.id /\ (tape.symbols # {} => w.symbols = tape.symbols)
      ELSE wsLive[w.of] = w.id /\ drawn[w.of] = w.shows /\ w.shows # ""
=============================================================================
