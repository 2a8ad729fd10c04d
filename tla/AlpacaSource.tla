---------------------------- MODULE AlpacaSource ----------------------------
(* The Alpaca source (stream/sources.py) and what the hub makes of its       *)
(* frames (stream/hub.py).  Alpaca has names of its own: what readers ask    *)
(* for is translated, and a frame finds its readers through _back, the name  *)
(* a ticker was last asked for by.  The hub's lock makes each change of the  *)
(* watched symbols one step up to its send; Alpaca takes what it is sent.    *)
EXTENDS Naturals

CONSTANTS
  Symbol,     \* what readers ask for
  Of, None,   \* alpaca_symbol: the ticker of a symbol, or none
  Prices

VARIABLES
  watched,    \* hub._refs, and the source's _symbols
  back,       \* _back
  link,       \* run: "off", "down", "hello" up to the login, "open", "broken"
  fatal,
  carried, late,  \* the tickers Alpaca sends, and those of which frames are on their way
  latest,     \* hub.latest, for its price
  traded,     \* history: per symbol the last trade of its ticker while it was carried
  doubled     \* history: since the login a ticker was asked for by two names
vars == <<watched, back, link, fatal, carried, late, latest, traded, doubled>>

Tickers(S) == {Of[s] : s \in S} \ {None}
Double(S) == \E s, t \in S : s # t /\ Of[s] = Of[t] /\ Of[s] # None

Init == /\ watched = {} /\ back = [t \in {} |-> None] /\ link = "off" /\ fatal = FALSE
        /\ carried = {} /\ late = {} /\ latest = [s \in {} |-> None]
        /\ traded = [s \in Symbol |-> None] /\ doubled = FALSE

\* _translate: the names it leaves in _back, as the set happens to be ordered.
Translations(S) ==
  {[t \in DOMAIN back \cup Tickers(S) |-> IF t \in Tickers(S) THEN f[t] ELSE back[t]] :
     f \in {g \in [Tickers(S) -> S] : \A t \in Tickers(S) : Of[g[t]] = t}}

\* Slip: what nobody watches any more is not unsubscribed.
SentAdds(gone, new) == carried \cup Tickers(new)
\* _send_delta.
Sent(gone, new) == (carried \ Tickers(gone)) \cup Tickers(new)

\* run goes round again, unless an error told it that no key will get better.
Retries == ~fatal

\* subscribe and unsubscribe.  A subscribe starts a run that has ended; the
\* difference is sent if the source is connected, and may fail with the socket.
Watch(S) ==
  LET new == S \ watched  gone == watched \ S
      lives == link \in {"open", "broken"}
  IN /\ (new = {}) # (gone = {})
     /\ watched' = S
     /\ doubled' = (doubled \/ Double(S))
     /\ IF lives THEN back' \in Translations(new \cup gone) ELSE back' = back
     /\ \/ /\ link # "open" /\ UNCHANGED <<carried, late>>
           /\ link' = IF new # {} /\ link = "off" /\ ~fatal THEN "down" ELSE link
        \/ /\ link = "open" /\ link' = link
           /\ carried' = Sent(gone, new) /\ late' = late \cup (Tickers(gone) \cap carried)
        \/ /\ link = "open" /\ link' = "broken"
           /\ carried' = {} /\ late' = {}
     /\ traded' = [s \in Symbol |-> IF s \in new THEN None ELSE traded[s]]
     /\ UNCHANGED <<fatal, latest>>

\* The hub stops an idle source.
Stop == /\ watched = {} /\ link # "off"
        /\ link' = "off" /\ carried' = {} /\ late' = {}
        /\ UNCHANGED <<watched, back, fatal, latest, traded, doubled>>

----------------------------------------------------------------------------
(* run *)
Connect == /\ link = "down" /\ link' = "hello"
           /\ UNCHANGED <<watched, back, fatal, carried, late, latest, traded, doubled>>

\* The login succeeds, and everything watched is subscribed to.
Login == /\ link = "hello" /\ link' = "open"
         /\ back' \in Translations(watched) /\ carried' = Tickers(watched)
         /\ doubled' = Double(watched)
         /\ traded' = [s \in Symbol |-> IF doubled THEN None ELSE traded[s]]
         /\ UNCHANGED <<watched, fatal, late, latest>>

\* An error frame; two codes will not heal on retry.
Refused == /\ link = "hello"
           /\ fatal' \in BOOLEAN
           /\ link' = IF Retries' THEN "down" ELSE "off"
           /\ UNCHANGED <<watched, back, carried, late, latest, traded, doubled>>
\* While connected it is only noted.
Complains == /\ link = "open" /\ ~fatal /\ fatal' = TRUE
             /\ UNCHANGED <<watched, back, link, carried, late, latest, traded, doubled>>

\* The socket breaks, before the run sees it ...
Breaks == /\ link \in {"hello", "open"}
          /\ link' = IF link = "hello" THEN "down" ELSE "broken"
          /\ carried' = {} /\ late' = {}
          /\ UNCHANGED <<watched, back, fatal, latest, traded, doubled>>
Reconnects == /\ link = "broken" /\ link' = IF Retries THEN "down" ELSE "off"
              /\ UNCHANGED <<watched, back, fatal, carried, late, latest, traded, doubled>>

----------------------------------------------------------------------------
(* Frames, and the hub's publish. *)

\* Slip: a quote's missing price replaces the last one.
PricedByTick(s, price) == price
\* "carry the last trade forward".
Priced(s, price) == IF price = None /\ s \in DOMAIN latest THEN latest[s] ELSE price

\* A trade, or a quote, which has no price; nobody may watch its symbol now.
Frame(t, price) ==
  /\ link = "open" /\ t \in carried \cup late
  /\ latest' = [s \in DOMAIN latest \cup ({back[t]} \cap watched) |->
                  IF s = back[t] /\ s \in watched THEN Priced(s, price) ELSE latest[s]]
  /\ traded' = [s \in Symbol |-> IF s \in watched /\ Of[s] = t /\ price # None
                                   THEN price ELSE traded[s]]
  /\ UNCHANGED <<watched, back, link, fatal, carried, late, doubled>>

Next == \/ \E S \in SUBSET Symbol : Watch(S)
        \/ Stop \/ Connect \/ Login \/ Refused \/ Complains \/ Breaks \/ Reconnects
        \/ \E t \in Tickers(Symbol), price \in Prices \cup {None} : Frame(t, price)
Spec == Init /\ [][Next]_vars

----------------------------------------------------------------------------
(* Properties. *)

\* Frames only come over an open socket, and each has a name to go by.
TypeOK == /\ link # "open" => carried = {} /\ late = {}
          /\ \A t \in carried \cup late : t \in DOMAIN back /\ Of[back[t]] = t

\* What is watched is carried, and what is carried finds its readers by the
\* name they asked for, with the price of the last trade: through reconnects,
\* failed sends, frames of symbols given up and quotes without a price - unless
\* one ticker was asked for by two names.
AskedIsCarried ==
  ~doubled =>
    /\ link = "open" => /\ carried = Tickers(watched)
                        /\ \A s \in watched : Of[s] = None \/ back[Of[s]] = s
    /\ \A s \in watched : traded[s] # None => s \in DOMAIN latest /\ latest[s] = traded[s]
=============================================================================
