-------------------------- MODULE StreamHubProofs --------------------------
(***************************************************************************)
(* What the hub keeps for every finite set of readers, every symbol table  *)
(* and every length of the tick sequences: the counts are exact, the       *)
(* source's set is the union of the subscriptions, a subscribed reader     *)
(* has a running source, and no newest tick is lost.                       *)
(***************************************************************************)
EXTENDS StreamHub, FiniteSetTheorems, TLAPS

\* The types, with any natural number for a count.
Typed ==
    /\ reader \in [Reader -> ReaderState]
    /\ holder \in Reader \cup {Nobody, Hub}
    /\ subs \subseteq Reader
    /\ refs \in [Symbol -> Nat]
    /\ linger \in BOOLEAN /\ check \in BOOLEAN
    /\ task \in {"none", "running"}
    /\ stopping \in BOOLEAN
    /\ symbols \subseteq Symbol
    /\ open \in BOOLEAN
    /\ wire \subseteq Symbol
    /\ printed \in [Symbol -> Tick]
    /\ latest \in [Symbol -> Tick]
    /\ pending \in [Reader -> [Symbol -> Tick]]
    /\ seen \in [Reader -> [Symbol -> Tick]]

\* Nobody outside the hub is among its subscriptions.
Places == \A r \in subs : reader[r] \notin {"out", "asking", "left", "cut"}

\* A source is told to stop only when its task is taken away.
Runs ==
    /\ subs # {} => task = "running"
    /\ task = "running" => ~stopping

\* The set upstream; a closed socket carries nothing.
Upstream ==
    /\ UnionUpstream
    /\ ~open => wire = {}

\* A reader has the newest tick or it waits; one that has the replay ahead of
\* it holds nothing the hub does not know.
Newest ==
    /\ NewestWaits
    /\ \A r \in Reader, s \in Symbol :
         reader[r] \in {"asking", "joining"} =>
             seen[r][s] = 0 /\ (pending[r][s] # 0 => latest[s] # 0)

HubInv == Typed /\ Places /\ RefsCount /\ Runs /\ Upstream /\ Newest

----------------------------------------------------------------------------
\* The readers of a symbol among some subscriptions.
Watchers(set, s) == {r \in set : s \in Wants[r]}

\* One more subscription is counted at its own symbols.
LEMMA WatchersAdd ==
  ASSUME NEW set \in SUBSET Reader, NEW r \in Reader \ set, NEW s \in Symbol
  PROVE  Cardinality(Watchers(set \cup {r}, s)) =
           Cardinality(Watchers(set, s)) + (IF s \in Wants[r] THEN 1 ELSE 0)
<1>1. IsFiniteSet(Watchers(set, s)) /\ Cardinality(Watchers(set, s)) \in Nat
  BY ReaderAssumption, FS_Subset, FS_CardinalityType DEF Watchers
<1>2. CASE s \in Wants[r]
  <2>1. Watchers(set \cup {r}, s) = Watchers(set,
     s) \cup {r} /\ r \notin Watchers(set, s)
    BY <1>2 DEF Watchers
  <2> QED BY <1>1, <1>2, <2>1, FS_AddElement
<1>3. CASE s \notin Wants[r]
  <2>1. Watchers(set \cup {r}, s) = Watchers(set, s)
    BY <1>3 DEF Watchers
  <2> QED BY <1>1, <1>3, <2>1
<1> QED BY <1>2, <1>3

\* One less is not counted any more.
LEMMA WatchersRemove ==
  ASSUME NEW set \in SUBSET Reader, NEW r \in set, NEW s \in Symbol
  PROVE  /\ Cardinality(Watchers(set \ {r}, s)) =
              Cardinality(Watchers(set, s)) - (IF s \in Wants[r] THEN 1 ELSE 0)
         /\ Cardinality(Watchers(set \ {r}, s)) \in Nat
<1>1. IsFiniteSet(Watchers(set, s)) /\ IsFiniteSet(Watchers(set \ {r}, s))
  BY ReaderAssumption, FS_Subset DEF Watchers
<1>2. /\ Cardinality(Watchers(set, s)) \in Nat
      /\ Cardinality(Watchers(set \ {r}, s)) \in Nat
  BY <1>1, FS_CardinalityType
<1>3. CASE s \in Wants[r]
  <2>1. Watchers(set \ {r}, s) = Watchers(set, s) \ {r} /\ r \in Watchers(set, s)
    BY <1>3 DEF Watchers
  <2>2. Cardinality(Watchers(set, s) \ {r}) = Cardinality(Watchers(set, s)) - 1
    BY <1>1, <2>1, FS_RemoveElement
  <2> QED BY <1>2, <1>3, <2>1, <2>2
<1>4. CASE s \notin Wants[r]
  <2>1. Watchers(set \ {r}, s) = Watchers(set, s)
    BY <1>4 DEF Watchers
  <2> QED BY <1>2, <1>4, <2>1
<1> QED BY <1>3, <1>4

\* The symbols with a count are those somebody is subscribed to.
LEMMA WatchedIsUnion ==
  ASSUME NEW set \in SUBSET Reader, NEW counts,
         \A s \in Symbol : counts[s] = Cardinality(Watchers(set, s))
  PROVE  Watched(counts) = UNION {Wants[r] : r \in set}
<1>1. ASSUME NEW s \in Symbol
      PROVE  counts[s] > 0 <=> \E r \in set : s \in Wants[r]
  <2>1. IsFiniteSet(Watchers(set, s))
    BY ReaderAssumption, FS_Subset DEF Watchers
  <2>2. Cardinality(Watchers(set, s)) \in Nat
    BY <2>1, FS_CardinalityType
  <2>3. Cardinality(Watchers(set, s)) = 0 <=> Watchers(set, s) = {}
    BY <2>1, FS_EmptySet
  <2>4. counts[s] > 0 <=> Watchers(set, s) # {}
    BY <2>2, <2>3
  <2> QED BY <2>4 DEF Watchers
<1>2. \A r \in set : Wants[r] \subseteq Symbol
  BY WantsAssumption
<1> QED BY <1>1, <1>2 DEF Watched

\* The union while it is not empty, and the source's set under it.
LEMMA UpstreamIsWatched ==
  ASSUME HubInv
  PROVE  /\ Watched(refs) = UNION {Wants[r] : r \in subs}
         /\ subs # {} => symbols = Watched(refs)
<1>1. Watched(refs) = UNION {Wants[r] : r \in subs}
  BY WatchedIsUnion DEF HubInv, Typed, RefsCount, Watchers
<1> QED BY <1>1 DEF HubInv, Upstream, UnionUpstream

----------------------------------------------------------------------------
\* A new request keeps the invariant.
LEMMA AskKeeps ==
  ASSUME HubInv, NEW r \in Reader, Ask(r)
  PROVE  HubInv'
<1>1. Typed'
  BY TicksAssumption DEF HubInv, Typed, Ask, NoTicks, ReaderState, hubVars,
     sourceVars, Tick
<1>2. Places'
  BY DEF Typed, HubInv, Places, Ask, NoTicks, hubVars, sourceVars
<1>3. RefsCount'
  BY DEF HubInv, RefsCount, Ask, hubVars, sourceVars
<1>4. Runs'
  BY DEF HubInv, Runs, Ask, hubVars, sourceVars
<1>5. Upstream'
  BY DEF HubInv, Upstream, UnionUpstream, Ask, hubVars, sourceVars
<1>6. Newest'
  BY DEF Typed, HubInv, Newest, NewestWaits, Ask, NoTicks, hubVars, sourceVars
<1> QED BY <1>1, <1>2, <1>3, <1>4, <1>5, <1>6 DEF HubInv

\* Taking the lock and subscribing keeps the invariant.
LEMMA JoinKeeps ==
  ASSUME HubInv, NEW r \in Reader, Join(r)
  PROVE  HubInv'
<1>1. Typed'
  <2>1. refs' \in [Symbol -> Nat]
    BY DEF HubInv, Typed, Join, JoinedRefs
  <2>2. symbols' \subseteq Symbol /\ wire' \subseteq Symbol
    BY DEF HubInv, Typed, Join, SetSymbols, Watched
  <2>3. reader' \in [Reader -> ReaderState]
    BY DEF HubInv, Typed, Join, ReaderState
  <2> QED BY <2>1, <2>2, <2>3 DEF HubInv, Typed, Join, tickVars
<1>2. Places'
  BY DEF Typed, HubInv, Places, Join, JoinedRefs, SetSymbols, tickVars
<1>3. RefsCount'
  <2>1. r \notin subs
    BY DEF HubInv, Places, Join
  <2>2. SUFFICES ASSUME NEW s \in Symbol
                 PROVE  refs'[s] = Cardinality(Watchers(subs \cup {r}, s))
    BY DEF RefsCount, Join, Watchers
  <2>3. refs[s] = Cardinality(Watchers(subs, s)) /\ refs[s] \in Nat
    BY DEF HubInv, RefsCount, Watchers, Typed
  <2>4. refs'[s] = refs[s] + (IF s \in Wants[r] THEN 1 ELSE 0)
    BY <2>3 DEF Join, JoinedRefs
  <2>5. subs \in SUBSET Reader /\ r \in Reader \ subs
    BY <2>1 DEF HubInv, Typed
  <2>6. Cardinality(Watchers(subs \cup {r}, s)) =
          Cardinality(Watchers(subs, s)) + (IF s \in Wants[r] THEN 1 ELSE 0)
    BY <2>5, WatchersAdd
  <2> QED BY <2>3, <2>4, <2>6
<1>4. Runs'
  BY DEF Typed, HubInv, Runs, Join, JoinedRefs, SetSymbols, tickVars
<1>5. Upstream'
  <2>1. Watched(refs') = UNION {Wants[q] : q \in subs'}
    <3>1. subs' \in SUBSET Reader
      BY <1>1 DEF Typed
    <3>2. \A s \in Symbol : refs'[s] = Cardinality(Watchers(subs', s))
      BY <1>3 DEF RefsCount, Watchers
    <3> QED BY <3>1, <3>2, WatchedIsUnion
  <2>2. Wants[r] # {} /\ r \in subs'
    BY WantsAssumption DEF Join
  <2>3. symbols' = Watched(refs')
    <3>1. CASE Watched(refs') # Watched(refs)
      BY <3>1 DEF Join, SetSymbols
    <3>2. CASE Watched(refs') = Watched(refs)
      <4>1. subs # {}
        <5>1. Watched(refs') # {}
          BY <2>1, <2>2
        <5> QED BY <3>2, <5>1, UpstreamIsWatched
      <4> QED BY <3>2, <4>1, UpstreamIsWatched DEF Join
    <3> QED BY <3>1, <3>2
  <2>4. wire' \subseteq symbols' /\ (~open' => wire' = {})
    <3>1. CASE Watched(refs') # Watched(refs)
      BY <3>1 DEF HubInv, Upstream, UnionUpstream, Join, SetSymbols
    <3>2. CASE Watched(refs') = Watched(refs)
      BY <3>2 DEF HubInv, Upstream, UnionUpstream, Join
    <3> QED BY <3>1, <3>2
  <2> QED BY <2>1, <2>3, <2>4 DEF Upstream, UnionUpstream
<1>6. Newest'
  BY DEF Typed, HubInv, Newest, NewestWaits, Join, JoinedRefs, SetSymbols, tickVars
<1> QED BY <1>1, <1>2, <1>3, <1>4, <1>5, <1>6 DEF HubInv

\* Releasing the lock and replaying what is known keeps the invariant.
LEMMA JoinedKeeps ==
  ASSUME HubInv, NEW r \in Reader, Joined(r)
  PROVE  HubInv'
<1>1. Typed'
  BY TicksAssumption DEF HubInv, Typed, Joined, Replayed, ReaderState, sourceVars, Tick
<1>2. Places'
  BY DEF Typed, HubInv, Places, Joined, Replayed, sourceVars
<1>3. RefsCount'
  BY DEF HubInv, RefsCount, Joined, sourceVars
<1>4. Runs'
  BY DEF HubInv, Runs, Joined, sourceVars
<1>5. Upstream'
  BY DEF HubInv, Upstream, UnionUpstream, Joined, sourceVars
<1>6. Newest'
  BY DEF Typed, HubInv, Newest, NewestWaits, Joined, Replayed, sourceVars
<1> QED BY <1>1, <1>2, <1>3, <1>4, <1>5, <1>6 DEF HubInv

\* The first frame keeps the invariant.
LEMMA FirstFrameKeeps ==
  ASSUME HubInv, NEW r \in Reader, FirstFrame(r)
  PROVE  HubInv'
<1>1. Typed'
  BY DEF HubInv, Typed, FirstFrame, ReaderState, hubVars, sourceVars, tickVars
<1>2. Places'
  BY DEF Typed, HubInv, Places, FirstFrame, hubVars, sourceVars, tickVars
<1>3. RefsCount'
  BY DEF HubInv, RefsCount, FirstFrame, hubVars, sourceVars, tickVars
<1>4. Runs'
  BY DEF HubInv, Runs, FirstFrame, hubVars, sourceVars, tickVars
<1>5. Upstream'
  BY DEF HubInv, Upstream, UnionUpstream, FirstFrame, hubVars, sourceVars, tickVars
<1>6. Newest'
  BY DEF Typed, HubInv, Newest, NewestWaits, FirstFrame, hubVars, sourceVars, tickVars
<1> QED BY <1>1, <1>2, <1>3, <1>4, <1>5, <1>6 DEF HubInv

\* A browser that leaves before its first frame keeps the invariant.
LEMMA VanishKeeps ==
  ASSUME HubInv, NEW r \in Reader, Vanish(r)
  PROVE  HubInv'
<1>1. Typed'
  BY DEF HubInv, Typed, Vanish, ReaderState, hubVars, sourceVars, tickVars
<1>2. Places'
  BY DEF Typed, HubInv, Places, Vanish, hubVars, sourceVars, tickVars
<1>3. RefsCount'
  BY DEF HubInv, RefsCount, Vanish, hubVars, sourceVars, tickVars
<1>4. Runs'
  BY DEF HubInv, Runs, Vanish, hubVars, sourceVars, tickVars
<1>5. Upstream'
  BY DEF HubInv, Upstream, UnionUpstream, Vanish, hubVars, sourceVars, tickVars
<1>6. Newest'
  BY DEF Typed, HubInv, Newest, NewestWaits, Vanish, hubVars, sourceVars, tickVars
<1> QED BY <1>1, <1>2, <1>3, <1>4, <1>5, <1>6 DEF HubInv

\* A drain keeps the invariant.
LEMMA DrainKeeps ==
  ASSUME HubInv, NEW r \in Reader, Drain(r)
  PROVE  HubInv'
<1>1. Typed'
  BY TicksAssumption DEF HubInv, Typed, Drain, NoTicks, hubVars, sourceVars, Tick
<1>2. Places'
  BY DEF Typed, HubInv, Places, Drain, hubVars, sourceVars
<1>3. RefsCount'
  BY DEF HubInv, RefsCount, Drain, hubVars, sourceVars
<1>4. Runs'
  BY DEF HubInv, Runs, Drain, hubVars, sourceVars
<1>5. Upstream'
  BY DEF HubInv, Upstream, UnionUpstream, Drain, hubVars, sourceVars
<1>6. Newest'
  BY DEF Typed, HubInv, Newest, NewestWaits, Drain, NoTicks, hubVars, sourceVars
<1> QED BY <1>1, <1>2, <1>3, <1>4, <1>5, <1>6 DEF HubInv

\* The end of a response keeps the invariant.
LEMMA CloseKeeps ==
  ASSUME HubInv, NEW r \in Reader, Close(r)
  PROVE  HubInv'
<1>1. Typed'
  BY DEF HubInv, Typed, Close, ReaderState, hubVars, sourceVars, tickVars
<1>2. Places'
  BY DEF Typed, HubInv, Places, Close, hubVars, sourceVars, tickVars
<1>3. RefsCount'
  BY DEF HubInv, RefsCount, Close, hubVars, sourceVars, tickVars
<1>4. Runs'
  BY DEF HubInv, Runs, Close, hubVars, sourceVars, tickVars
<1>5. Upstream'
  BY DEF HubInv, Upstream, UnionUpstream, Close, hubVars, sourceVars, tickVars
<1>6. Newest'
  BY DEF Typed, HubInv, Newest, NewestWaits, Close, hubVars, sourceVars, tickVars
<1> QED BY <1>1, <1>2, <1>3, <1>4, <1>5, <1>6 DEF HubInv

\* Taking the lock and unsubscribing keeps the invariant.
LEMMA LeaveKeeps ==
  ASSUME HubInv, NEW r \in Reader, Leave(r)
  PROVE  HubInv'
<1>1. Typed'
  <2>1. refs' \in [Symbol -> Nat]
    BY DEF HubInv, Typed, Leave, LeftRefs
  <2>2. symbols' \subseteq Symbol /\ wire' \subseteq Symbol
    BY DEF HubInv, Typed, Leave, SetSymbols, Watched
  <2>3. reader' \in [Reader -> ReaderState]
    BY DEF HubInv, Typed, Leave, ReaderState
  <2> QED BY <2>1, <2>2, <2>3 DEF HubInv, Typed, Leave, tickVars
<1>2. Places'
  BY DEF Typed, HubInv, Places, Leave, LeftRefs, SetSymbols, tickVars
<1>3. RefsCount'
  <2>1. r \in subs
    BY DEF Leave
  <2>2. SUFFICES ASSUME NEW s \in Symbol
                 PROVE  refs'[s] = Cardinality(Watchers(subs \ {r}, s))
    BY DEF RefsCount, Leave, Watchers
  <2>3. refs[s] = Cardinality(Watchers(subs, s)) /\ refs[s] \in Nat
    BY DEF HubInv, RefsCount, Watchers, Typed
  <2>4. /\ Cardinality(Watchers(subs \ {r}, s)) =
             Cardinality(Watchers(subs, s)) - (IF s \in Wants[r] THEN 1 ELSE 0)
        /\ Cardinality(Watchers(subs \ {r}, s)) \in Nat
    BY <2>1, WatchersRemove DEF HubInv, Typed
  <2> QED BY <2>3, <2>4 DEF Leave, LeftRefs
<1>4. Runs'
  BY DEF HubInv, Runs, Leave, LeftRefs, SetSymbols, tickVars
<1>5. Upstream'
  <2>1. Watched(refs') = UNION {Wants[q] : q \in subs'}
    <3>1. subs' \in SUBSET Reader
      BY <1>1 DEF Typed
    <3>2. \A s \in Symbol : refs'[s] = Cardinality(Watchers(subs', s))
      BY <1>3 DEF RefsCount, Watchers
    <3> QED BY <3>1, <3>2, WatchedIsUnion
  <2>2. symbols' = Watched(refs')
    <3>1. CASE Watched(refs') # Watched(refs)
      BY <3>1 DEF Leave, SetSymbols
    <3>2. CASE Watched(refs') = Watched(refs)
      BY <3>2, UpstreamIsWatched DEF Leave
    <3> QED BY <3>1, <3>2
  <2>3. wire' \subseteq symbols' /\ (~open' => wire' = {})
    <3>1. CASE Watched(refs') # Watched(refs)
      BY <3>1 DEF HubInv, Upstream, UnionUpstream, Leave, SetSymbols
    <3>2. CASE Watched(refs') = Watched(refs)
      BY <3>2 DEF HubInv, Upstream, UnionUpstream, Leave
    <3> QED BY <3>1, <3>2
  <2> QED BY <2>1, <2>2, <2>3 DEF Upstream, UnionUpstream
<1>6. Newest'
  BY DEF Typed, HubInv, Newest, NewestWaits, Leave, LeftRefs, SetSymbols, tickVars
<1> QED BY <1>1, <1>2, <1>3, <1>4, <1>5, <1>6 DEF HubInv

\* Closing what the shutdown dropped keeps the invariant.
LEMMA LeaveNothingKeeps ==
  ASSUME HubInv, NEW r \in Reader, LeaveNothing(r)
  PROVE  HubInv'
<1>1. Typed'
  BY DEF HubInv, Typed, LeaveNothing, ReaderState, hubVars, sourceVars, tickVars
<1>2. Places'
  BY DEF Typed, HubInv, Places, LeaveNothing, hubVars, sourceVars, tickVars
<1>3. RefsCount'
  BY DEF HubInv, RefsCount, LeaveNothing, hubVars, sourceVars, tickVars
<1>4. Runs'
  BY DEF HubInv, Runs, LeaveNothing, hubVars, sourceVars, tickVars
<1>5. Upstream'
  BY DEF HubInv, Upstream, UnionUpstream, LeaveNothing, hubVars, sourceVars, tickVars
<1>6. Newest'
  BY DEF Typed, HubInv, Newest, NewestWaits, LeaveNothing, hubVars, sourceVars, tickVars
<1> QED BY <1>1, <1>2, <1>3, <1>4, <1>5, <1>6 DEF HubInv

\* A close cut off before the lock keeps the invariant.
LEMMA LeaveCancelledKeeps ==
  ASSUME HubInv, NEW r \in Reader, LeaveCancelled(r)
  PROVE  HubInv'
<1>1. Typed'
  BY DEF HubInv, Typed, LeaveCancelled, ReaderState, hubVars, sourceVars, tickVars
<1>2. Places'
  BY DEF Typed, HubInv, Places, LeaveCancelled, hubVars, sourceVars, tickVars
<1>3. RefsCount'
  BY DEF HubInv, RefsCount, LeaveCancelled, hubVars, sourceVars, tickVars
<1>4. Runs'
  BY DEF HubInv, Runs, LeaveCancelled, hubVars, sourceVars, tickVars
<1>5. Upstream'
  BY DEF HubInv, Upstream, UnionUpstream, LeaveCancelled, hubVars, sourceVars, tickVars
<1>6. Newest'
  BY DEF Typed, HubInv, Newest, NewestWaits, LeaveCancelled, hubVars, sourceVars, tickVars
<1> QED BY <1>1, <1>2, <1>3, <1>4, <1>5, <1>6 DEF HubInv

\* One cut off over its send keeps it too.
LEMMA LeftCancelledKeeps ==
  ASSUME HubInv, NEW r \in Reader, LeftCancelled(r)
  PROVE  HubInv'
<1>1. Typed'
  BY DEF HubInv, Typed, LeftCancelled, ReaderState, sourceVars, tickVars
<1>2. Places'
  BY DEF Typed, HubInv, Places, LeftCancelled, sourceVars, tickVars
<1>3. RefsCount'
  BY DEF HubInv, RefsCount, LeftCancelled, sourceVars, tickVars
<1>4. Runs'
  BY DEF HubInv, Runs, LeftCancelled, sourceVars, tickVars
<1>5. Upstream'
  BY DEF HubInv, Upstream, UnionUpstream, LeftCancelled, sourceVars, tickVars
<1>6. Newest'
  BY DEF Typed, HubInv, Newest, NewestWaits, LeftCancelled, sourceVars, tickVars
<1> QED BY <1>1, <1>2, <1>3, <1>4, <1>5, <1>6 DEF HubInv

\* Releasing the lock and starting the timer keeps the invariant.
LEMMA LeftKeeps ==
  ASSUME HubInv, NEW r \in Reader, Left(r)
  PROVE  HubInv'
<1>1. Typed'
  BY DEF HubInv, Typed, Left, Lingers, ReaderState, sourceVars, tickVars
<1>2. Places'
  BY DEF Typed, HubInv, Places, Left, Lingers, sourceVars, tickVars
<1>3. RefsCount'
  BY DEF HubInv, RefsCount, Left, sourceVars, tickVars
<1>4. Runs'
  BY DEF HubInv, Runs, Left, sourceVars, tickVars
<1>5. Upstream'
  BY DEF HubInv, Upstream, UnionUpstream, Left, sourceVars, tickVars
<1>6. Newest'
  BY DEF Typed, HubInv, Newest, NewestWaits, Left, Lingers, sourceVars, tickVars
<1> QED BY <1>1, <1>2, <1>3, <1>4, <1>5, <1>6 DEF HubInv

\* The timer keeps the invariant.
LEMMA LingerOverKeeps ==
  ASSUME HubInv, LingerOver
  PROVE  HubInv'
<1>1. Typed'
  BY DEF HubInv, Typed, LingerOver, sourceVars, tickVars
<1>2. Places'
  BY DEF Typed, HubInv, Places, LingerOver, sourceVars, tickVars
<1>3. RefsCount'
  BY DEF HubInv, RefsCount, LingerOver, sourceVars, tickVars
<1>4. Runs'
  BY DEF HubInv, Runs, LingerOver, sourceVars, tickVars
<1>5. Upstream'
  BY DEF HubInv, Upstream, UnionUpstream, LingerOver, sourceVars, tickVars
<1>6. Newest'
  BY DEF Typed, HubInv, Newest, NewestWaits, LingerOver, sourceVars, tickVars
<1> QED BY <1>1, <1>2, <1>3, <1>4, <1>5, <1>6 DEF HubInv

\* The check after the timer keeps the invariant.
LEMMA StopIfIdleKeeps ==
  ASSUME HubInv, StopIfIdle
  PROVE  HubInv'
<1>1. Typed'
  BY DEF HubInv, Typed, StopIfIdle, Idle, tickVars
<1>2. Places'
  BY DEF Typed, HubInv, Places, StopIfIdle, tickVars
<1>3. RefsCount'
  BY DEF HubInv, RefsCount, StopIfIdle, tickVars
<1>4. Runs'
  BY DEF HubInv, Runs, StopIfIdle, Idle, tickVars
<1>5. Upstream'
  BY DEF HubInv, Upstream, UnionUpstream, StopIfIdle, tickVars
<1>6. Newest'
  BY DEF Typed, HubInv, Newest, NewestWaits, StopIfIdle, tickVars
<1> QED BY <1>1, <1>2, <1>3, <1>4, <1>5, <1>6 DEF HubInv

\* A shutdown keeps the invariant.
LEMMA ShutdownKeeps ==
  ASSUME HubInv, Shutdown
  PROVE  HubInv'
<1>1. Typed'
  BY DEF HubInv, Typed, Shutdown, tickVars
<1>2. Places'
  BY DEF Typed, HubInv, Places, Shutdown, tickVars
<1>3. RefsCount'
  <2>1. \A s \in Symbol : {q \in subs' : s \in Wants[q]} = {}
    BY DEF Shutdown
  <2> QED BY <2>1, FS_EmptySet DEF RefsCount, Shutdown
<1>4. Runs'
  BY DEF HubInv, Runs, Shutdown, tickVars
<1>5. Upstream'
  BY DEF HubInv, Upstream, UnionUpstream, Shutdown, tickVars
<1>6. Newest'
  BY DEF Typed, HubInv, Newest, NewestWaits, Shutdown, tickVars
<1> QED BY <1>1, <1>2, <1>3, <1>4, <1>5, <1>6 DEF HubInv

\* The end of the source's task keeps the invariant.
LEMMA StoppedKeeps ==
  ASSUME HubInv, Stopped
  PROVE  HubInv'
<1>1. Typed'
  BY DEF HubInv, Typed, Stopped, tickVars
<1>2. Places'
  BY DEF Typed, HubInv, Places, Stopped, tickVars
<1>3. RefsCount'
  BY DEF HubInv, RefsCount, Stopped, tickVars
<1>4. Runs'
  BY DEF HubInv, Runs, Stopped, tickVars
<1>5. Upstream'
  BY DEF HubInv, Upstream, UnionUpstream, Stopped, tickVars
<1>6. Newest'
  BY DEF Typed, HubInv, Newest, NewestWaits, Stopped, tickVars
<1> QED BY <1>1, <1>2, <1>3, <1>4, <1>5, <1>6 DEF HubInv

\* A connection keeps the invariant.
LEMMA ConnectKeeps ==
  ASSUME HubInv, Connect
  PROVE  HubInv'
<1>1. Typed'
  BY DEF HubInv, Typed, Connect, hubVars, tickVars
<1>2. Places'
  BY DEF Typed, HubInv, Places, Connect, hubVars, tickVars
<1>3. RefsCount'
  BY DEF HubInv, RefsCount, Connect, hubVars, tickVars
<1>4. Runs'
  BY DEF HubInv, Runs, Connect, hubVars, tickVars
<1>5. Upstream'
  BY DEF HubInv, Upstream, UnionUpstream, Connect, hubVars, tickVars
<1>6. Newest'
  BY DEF Typed, HubInv, Newest, NewestWaits, Connect, hubVars, tickVars
<1> QED BY <1>1, <1>2, <1>3, <1>4, <1>5, <1>6 DEF HubInv

\* A broken connection keeps the invariant.
LEMMA DropKeeps ==
  ASSUME HubInv, Drop
  PROVE  HubInv'
<1>1. Typed'
  BY DEF HubInv, Typed, Drop, hubVars, tickVars
<1>2. Places'
  BY DEF Typed, HubInv, Places, Drop, hubVars, tickVars
<1>3. RefsCount'
  BY DEF HubInv, RefsCount, Drop, hubVars, tickVars
<1>4. Runs'
  BY DEF HubInv, Runs, Drop, hubVars, tickVars
<1>5. Upstream'
  BY DEF HubInv, Upstream, UnionUpstream, Drop, hubVars, tickVars
<1>6. Newest'
  BY DEF Typed, HubInv, Newest, NewestWaits, Drop, hubVars, tickVars
<1> QED BY <1>1, <1>2, <1>3, <1>4, <1>5, <1>6 DEF HubInv

\* A heartbeat keeps the invariant.
LEMMA HeartbeatKeeps ==
  ASSUME HubInv, Heartbeat
  PROVE  HubInv'
<1>1. Typed'
  BY DEF HubInv, Typed, Heartbeat, hubVars, tickVars
<1>2. Places'
  BY DEF Typed, HubInv, Places, Heartbeat, hubVars, tickVars
<1>3. RefsCount'
  BY DEF HubInv, RefsCount, Heartbeat, hubVars, tickVars
<1>4. Runs'
  BY DEF HubInv, Runs, Heartbeat, hubVars, tickVars
<1>5. Upstream'
  BY DEF HubInv, Upstream, UnionUpstream, Heartbeat, hubVars, tickVars
<1>6. Newest'
  BY DEF Typed, HubInv, Newest, NewestWaits, Heartbeat, hubVars, tickVars
<1> QED BY <1>1, <1>2, <1>3, <1>4, <1>5, <1>6 DEF HubInv

\* A subscription the vendor forgets keeps the invariant.
LEMMA ForgetKeeps ==
  ASSUME HubInv, NEW s \in Symbol, Forget(s)
  PROVE  HubInv'
<1>1. Typed'
  BY DEF HubInv, Typed, Forget, hubVars, tickVars
<1>2. Places'
  BY DEF Typed, HubInv, Places, Forget, hubVars, tickVars
<1>3. RefsCount'
  BY DEF HubInv, RefsCount, Forget, hubVars, tickVars
<1>4. Runs'
  BY DEF HubInv, Runs, Forget, hubVars, tickVars
<1>5. Upstream'
  BY DEF HubInv, Upstream, UnionUpstream, Forget, hubVars, tickVars
<1>6. Newest'
  BY DEF Typed, HubInv, Newest, NewestWaits, Forget, hubVars, tickVars
<1> QED BY <1>1, <1>2, <1>3, <1>4, <1>5, <1>6 DEF HubInv

\* A tick keeps the invariant.
LEMMA PublishKeeps ==
  ASSUME HubInv, NEW s \in Symbol, Publish(s)
  PROVE  HubInv'
<1>1. Typed'
  <2>1. printed[s] + 1 \in Tick /\ printed' = [printed EXCEPT ![s] = printed[s] + 1]
    BY TicksAssumption DEF HubInv, Typed, Publish, Tick
  <2>2. printed' \in [Symbol -> Tick] /\ printed'[s] \in Tick
    BY <2>1 DEF HubInv, Typed
  <2>3. latest' \in [Symbol -> Tick]
    BY <2>2 DEF HubInv, Typed, Publish
  <2>4. pending' \in [Reader -> [Symbol -> Tick]]
    <3>1. \A q \in Reader : [pending[q] EXCEPT ![s] = printed'[s]] \in [Symbol -> Tick]
      BY <2>2 DEF HubInv, Typed
    <3>2. Pushed(s, printed'[s]) \in [Reader -> [Symbol -> Tick]]
      BY <3>1 DEF Pushed, HubInv, Typed
    <3> QED BY <3>2 DEF HubInv, Typed, Publish
  <2> QED BY <2>2, <2>3, <2>4 DEF HubInv, Typed, Publish, hubVars
<1>2. Places'
  BY DEF Typed, HubInv, Places, Publish, hubVars
<1>3. RefsCount'
  BY DEF HubInv, RefsCount, Publish, hubVars
<1>4. Runs'
  BY DEF HubInv, Runs, Publish, hubVars
<1>5. Upstream'
  BY DEF HubInv, Upstream, UnionUpstream, Publish, hubVars
<1>6. Newest'
  <2>1. printed'[s] # 0
    BY TicksAssumption DEF HubInv, Typed, Publish, Tick
  <2>2. CASE refs[s] > 0
    <3>1. /\ latest' = [latest EXCEPT ![s] = printed'[s]]
          /\ pending' = Pushed(s, printed'[s])
          /\ reader' = reader /\ subs' = subs /\ seen' = seen
      BY <2>2 DEF Publish, hubVars
    <3>2. \A q \in Reader, t \in Symbol :
            pending'[q][t] = IF q \in subs /\ s \in Wants[q] /\ t = s
                             THEN printed'[s] ELSE pending[q][t]
      BY <3>1 DEF Pushed, HubInv, Typed
    <3>3. \A t \in Symbol : latest'[t] = IF t = s THEN printed'[s] ELSE latest[t]
      BY <3>1 DEF HubInv, Typed
    <3> QED BY <2>1, <3>1, <3>2, <3>3 DEF HubInv, Typed, Newest, NewestWaits
  <2>3. CASE ~(refs[s] > 0)
    BY <2>3 DEF HubInv, Newest, NewestWaits, Publish, hubVars
  <2> QED BY <2>2, <2>3
<1> QED BY <1>1, <1>2, <1>3, <1>4, <1>5, <1>6 DEF HubInv

----------------------------------------------------------------------------
\* The initial states satisfy the invariant.
LEMMA InitInv == Init => HubInv
<1> SUFFICES ASSUME Init PROVE HubInv
  OBVIOUS
<1>1. Typed
  <2>1. 0 \in Tick
    BY TicksAssumption DEF Tick
  <2>2. /\ [q \in Symbol |-> 0] \in [Symbol -> Tick]
        /\ [q \in Reader |-> [t \in Symbol |-> 0]] \in [Reader -> [Symbol -> Tick]]
        /\ [q \in Reader |-> "out"] \in [Reader -> ReaderState]
    BY <2>1 DEF ReaderState
  <2> QED BY <2>2 DEF Init, Typed
<1>2. Places /\ Runs /\ Upstream
  BY DEF Init, Places, Runs, Upstream, UnionUpstream
<1>3. RefsCount
  <2>1. \A s \in Symbol : {r \in subs : s \in Wants[r]} = {}
    BY DEF Init
  <2> QED BY <2>1, FS_EmptySet DEF Init, RefsCount
<1>4. Newest
  BY DEF Init, Newest, NewestWaits
<1> QED BY <1>1, <1>2, <1>3, <1>4 DEF HubInv

\* Every step keeps it.
LEMMA NextInv == HubInv /\ [Next]_vars => HubInv'
<1> SUFFICES ASSUME HubInv, [Next]_vars PROVE HubInv'
  OBVIOUS
<1>1. ASSUME NEW r \in Reader, Ask(r) PROVE HubInv'
  BY <1>1, AskKeeps
<1>2. ASSUME NEW r \in Reader, Join(r) PROVE HubInv'
  BY <1>2, JoinKeeps
<1>3. ASSUME NEW r \in Reader, Joined(r) PROVE HubInv'
  BY <1>3, JoinedKeeps
<1>4. ASSUME NEW r \in Reader, FirstFrame(r) PROVE HubInv'
  BY <1>4, FirstFrameKeeps
<1>5. ASSUME NEW r \in Reader, Vanish(r) PROVE HubInv'
  BY <1>5, VanishKeeps
<1>6. ASSUME NEW r \in Reader, Drain(r) PROVE HubInv'
  BY <1>6, DrainKeeps
<1>7. ASSUME NEW r \in Reader, Close(r) PROVE HubInv'
  BY <1>7, CloseKeeps
<1>8. ASSUME NEW r \in Reader, Leave(r) PROVE HubInv'
  BY <1>8, LeaveKeeps
<1>9. ASSUME NEW r \in Reader, LeaveNothing(r) PROVE HubInv'
  BY <1>9, LeaveNothingKeeps
<1>10. ASSUME NEW r \in Reader, Left(r) PROVE HubInv'
  BY <1>10, LeftKeeps
<1>11. ASSUME NEW s \in Symbol, Forget(s) PROVE HubInv'
  BY <1>11, ForgetKeeps
<1>12. ASSUME NEW s \in Symbol, Publish(s) PROVE HubInv'
  BY <1>12, PublishKeeps
<1>13. CASE LingerOver
  BY <1>13, LingerOverKeeps
<1>14. CASE StopIfIdle
  BY <1>14, StopIfIdleKeeps
<1>15. CASE Shutdown
  BY <1>15, ShutdownKeeps
<1>16. CASE Stopped
  BY <1>16, StoppedKeeps
<1>17. CASE Connect
  BY <1>17, ConnectKeeps
<1>18. CASE Drop
  BY <1>18, DropKeeps
<1>19. CASE Heartbeat
  BY <1>19, HeartbeatKeeps
<1>20. CASE UNCHANGED vars
  BY <1>20 DEF vars, hubVars, sourceVars, tickVars, HubInv, Typed, Places, RefsCount,
     Runs, Upstream, UnionUpstream, Newest, NewestWaits
<1>21. ASSUME NEW r \in Reader, LeaveCancelled(r) \/ LeftCancelled(r) PROVE HubInv'
  BY <1>21, LeaveCancelledKeeps, LeftCancelledKeeps
<1> QED BY <1>1, <1>2, <1>3, <1>4, <1>5, <1>6, <1>7, <1>8, <1>9, <1>10, <1>11, <1>12,
     <1>13, <1>14, <1>15, <1>16, <1>17, <1>18, <1>19, <1>20, <1>21 DEF Next, ReaderStep,
        HubStep

\* Typed states with exact counts have the types of the code: a count is at
\* most the number of readers.
LEMMA TypesFollow == HubInv => TypeOK
<1> SUFFICES ASSUME HubInv PROVE TypeOK
  OBVIOUS
<1>1. ASSUME NEW s \in Symbol PROVE refs[s] \in 0..Cardinality(Reader)
  <2>1. {r \in subs : s \in Wants[r]} \in SUBSET Reader
    BY DEF HubInv, Typed
  <2>2. /\ Cardinality({r \in subs : s \in Wants[r]}) <= Cardinality(Reader)
        /\ Cardinality(Reader) \in Nat
    BY <2>1, ReaderAssumption, FS_Subset, FS_CardinalityType
  <2> QED BY <2>2 DEF HubInv, Typed, RefsCount
<1>2. refs \in [Symbol -> 0..Cardinality(Reader)]
  BY <1>1 DEF HubInv, Typed
<1> QED BY <1>2 DEF HubInv, Typed, TypeOK

\* The invariant holds in every reachable state.
THEOREM HubInductive == Spec => []HubInv
<1>1. Init => HubInv
  BY InitInv
<1>2. HubInv /\ [Next]_vars => HubInv'
  BY NextInv
<1> QED BY <1>1, <1>2, PTL DEF Spec

\* The variables keep the types the code gives them.
THEOREM TypeCorrect == Spec => []TypeOK
<1>1. HubInv => TypeOK
  BY TypesFollow
<1> QED BY <1>1, HubInductive, PTL

\* A symbol's count is the number of its subscriptions (hub._refs).
THEOREM CountsExact == Spec => []RefsCount
<1>1. HubInv => RefsCount
  BY DEF HubInv
<1> QED BY <1>1, HubInductive, PTL

\* Upstream is the union of what somebody watches and the vendor carries
\* nothing more (set_symbols, the greeting of a new socket, the heartbeat).
THEOREM UnionIsUpstream == Spec => []UnionUpstream
<1>1. HubInv => UnionUpstream
  BY DEF HubInv, Upstream
<1> QED BY <1>1, HubInductive, PTL

\* While anybody is subscribed the source's task runs and was not told to
\* stop (_ensure_running, _stop_if_idle).
THEOREM FeedAlwaysRuns == Spec => []FeedRuns
<1>1. HubInv => FeedRuns
  BY DEF HubInv, Runs, FeedRuns
<1> QED BY <1>1, HubInductive, PTL

\* No reader misses the newest tick of a symbol (publish, drain, the replay of
\* subscribe).
THEOREM NewestNeverLost == Spec => []NewestWaits
<1>1. HubInv => NewestWaits
  BY DEF HubInv, Newest
<1> QED BY <1>1, HubInductive, PTL
=============================================================================
