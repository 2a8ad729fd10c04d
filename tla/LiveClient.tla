----------------------------- MODULE LiveClient -----------------------------
(* The browser's feed of live quotes: `Live` of frontend/app.js.  Views      *)
(* register watchers; a debounced rebuild keeps one connection per provider  *)
(* that carries the union of what the watchers in sight want.  A connection  *)
(* is an async loop: it fetches, reads, sleeps and tries again, and learns   *)
(* at an await that it was aborted.  What the pill says is left out.         *)
EXTENDS Integers, FiniteSets, Functions

CONSTANTS
  Watcher,    \* numbers for watchers: bounds those that are open at a time
  Menu,       \* what a view may register: symbols, provider, scope
  View,       \* the views with watchers of their own
  Provider,
  LoopNo      \* numbers for connections: bounds those that have not ended

VARIABLES
  watchers,   \* `watchers`, None for a number that is free
  activeView,
  armed,      \* rebuildTimer is set
  conns,      \* `conns`: the loop of a provider, 0 for none
  loop        \* the calls of open, and what each holds in `conn`

vars == <<watchers, activeView, armed, conns, loop>>

None == [symbols |-> {}, provider |-> "", scope |-> "closed"]
Unmade == [at |-> "none", aborted |-> FALSE, symbols |-> {}, provider |-> ""]

Init == /\ watchers = [i \in Watcher |-> None] /\ activeView \in View /\ armed = FALSE
        /\ conns = [p \in Provider |-> 0] /\ loop = [l \in LoopNo |-> Unmade]

----------------------------------------------------------------------------
(* Views: each of these schedules a rebuild, 250 ms after the last of them. *)

Watch(i, w) == /\ watchers[i] = None /\ watchers' = [watchers EXCEPT ![i] = w] /\ armed' = TRUE
               /\ UNCHANGED <<activeView, conns, loop>>
Close(i) == /\ watchers[i] # None /\ watchers' = [watchers EXCEPT ![i] = None] /\ armed' = TRUE
            /\ UNCHANGED <<activeView, conns, loop>>

\* Slip: a change of view leaves the feed as it is.
SetViewOnly(v) == activeView' = v /\ UNCHANGED <<watchers, armed, conns, loop>>

SetView(v) == activeView' = v /\ armed' = TRUE /\ UNCHANGED <<watchers, conns, loop>>

\* closeAll, when the user logs out or any call is told 401.
CloseAll == watchers' = [i \in Watcher |-> None] /\ armed' = TRUE /\ UNCHANGED <<activeView, conns>>
Logout == CloseAll /\ UNCHANGED loop

Seen(i) == watchers[i].scope \in {"global", activeView}
Wanted(p) == UNION {watchers[i].symbols : i \in {j \in Watcher : Seen(j) /\ watchers[j].provider = p}}

\* rebuild: connections that carry something else are aborted, and new ones
\* opened, up to their first fetch.
Stale == {p \in Provider : conns[p] # 0 /\ loop[conns[p]].symbols # Wanted(p)}
Opening == {p \in Provider : Wanted(p) # {} /\ (conns[p] = 0 \/ p \in Stale)}
\* Slip: a connection that carries something else is forgotten, and goes on.
AbortNone == {}

Abort == {conns[p] : p \in Stale}
Opened(p) == [at |-> "fetch", aborted |-> FALSE, symbols |-> Wanted(p), provider |-> p]
Free == {l \in LoopNo : loop[l] = Unmade}
Number == CHOOSE f \in [Opening -> Free] : IsInjective(f)
Rebuild ==
  /\ armed /\ Cardinality(Opening) <= Cardinality(Free)
  /\ armed' = FALSE
  /\ conns' = [p \in Provider |-> IF p \in Opening THEN Number[p]
                                  ELSE IF p \in Stale THEN 0 ELSE conns[p]]
  /\ loop' = [l \in LoopNo |-> IF l \in Abort THEN [loop[l] EXCEPT !.aborted = TRUE]
                               ELSE IF \E p \in Opening : Number[p] = l
                                 THEN Opened(CHOOSE p \in Opening : Number[p] = l)
                               ELSE loop[l]]
  /\ UNCHANGED <<watchers, activeView>>

----------------------------------------------------------------------------
(* open: the loop of a connection. *)

At(l, places) == loop[l].at \in places /\ ~loop[l].aborted
Goes(l, place) == loop' = [loop EXCEPT ![l].at = place]

\* An aborted fetch or read throws, a sleep ends at the top of the loop, and
\* what gave up before was not running: its number is free.
Leave(l) == /\ loop[l].aborted /\ loop' = [loop EXCEPT ![l] = Unmade]
            /\ UNCHANGED <<watchers, activeView, armed, conns>>

Accepted(l) == At(l, {"fetch"}) /\ Goes(l, "read") /\ UNCHANGED <<watchers, activeView, armed, conns>>
Unauthorized(l) == At(l, {"fetch"}) /\ Goes(l, "gave up") /\ CloseAll
\* Any other 4xx: "a bad request will not fix itself".
Refused(l) == At(l, {"fetch"}) /\ Goes(l, "gave up") /\ UNCHANGED <<watchers, activeView, armed, conns>>
\* A 5xx, the network, or the server ends the stream: back off.
Lost(l) == /\ At(l, {"fetch", "read"}) /\ Goes(l, "sleep")
           /\ UNCHANGED <<watchers, activeView, armed, conns>>
Wake(l) == At(l, {"sleep"}) /\ Goes(l, "fetch") /\ UNCHANGED <<watchers, activeView, armed, conns>>

Next ==
  \/ \E i \in Watcher : Close(i) \/ \E w \in Menu : Watch(i, w)
  \/ \E v \in View : SetView(v)
  \/ Logout \/ Rebuild
  \/ \E l \in LoopNo : \/ Leave(l) \/ Accepted(l) \/ Unauthorized(l) \/ Refused(l)
                       \/ Lost(l) \/ Wake(l)

Spec == Init /\ [][Next]_vars

----------------------------------------------------------------------------
(* Properties. *)

\* A connection in the table is one that was opened, for that provider.
TypeOK ==
  /\ watchers \in [Watcher -> Menu \cup {None}] /\ activeView \in View
  /\ conns \in [Provider -> LoopNo \cup {0}] /\ armed \in BOOLEAN
  /\ \A p \in Provider : conns[p] # 0 => loop[conns[p]].provider = p
  /\ \A l \in LoopNo : loop[l].at \in {"none", "fetch", "read", "sleep", "gave up"}

\* "The browser holds one connection per provider": a loop that runs and was not
\* aborted is the one in conns, so that no watcher is given a tick twice.  And
\* "switching views parks their symbols instead of streaming prices nobody can
\* see": once the timer has fired, the connections carry the symbols of the
\* watchers in sight and no others.  They run, or gave up at a 401 or 4xx: such a
\* one stays in conns, and its provider is silent until its watchers change.
OneFeed ==
  /\ \A l \in LoopNo : At(l, {"fetch", "read", "sleep"}) => conns[loop[l].provider] = l
  /\ ~armed => \A p \in Provider :
       IF Wanted(p) = {} THEN conns[p] = 0
       ELSE conns[p] # 0 /\ loop[conns[p]].symbols = Wanted(p) /\ ~loop[conns[p]].aborted
=============================================================================
