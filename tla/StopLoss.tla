------------------------------ MODULE StopLoss ------------------------------
(* apply_stop_loss (backtest/sizing.py) on one column: the weights a         *)
(* strategy asks for, bar by bar, and the ones left after positions that     *)
(* lost too much from their reference are closed.  The panels of             *)
(* get_price_panel lack no price; Missing covers the function's own branches *)
(* for one, before the first price: it fills the panel forward.              *)
EXTENDS Integers, Sequences, FiniteSetsExt

CONSTANTS
  Prices, Missing,   \* the prices there are, and a missing one
  Weights,           \* what is asked for: negative is short
  StopOf, Whole,     \* stop_pct is StopOf / Whole
  MaxBars            \* bound

VARIABLES
  trailing,          \* the reference is the best price since entry, or the entry
  bars,              \* the bars seen: weight and price of each
  out,               \* the weights that are left
  stopped, entry, extreme, prevSign

vars == <<trailing, bars, out, stopped, entry, extreme, prevSign>>

Init == /\ trailing \in BOOLEAN /\ bars = <<>> /\ out = <<>>
        /\ stopped = FALSE /\ entry = Missing /\ extreme = Missing /\ prevSign = 0

Sign(w) == IF w = 0 THEN 0 ELSE IF w > 0 THEN 1 ELSE -1
\* The more favourable of two prices.
Best(sign, p, r) == IF sign > 0 THEN Max({p, r}) ELSE Min({p, r})
Lost(sign, p, ref) == (p - ref) * sign * Whole <= -StopOf * ref

\* Slip: a change of size is an entry too.
EntersOnAnyChange(w) == bars = <<>> \/ w # bars[Len(bars)].weight
\* A position is entered where the sign of the weight changes.
Enters(w) == Sign(w) # prevSign

\* Slip: the reference of a short is its worst price.
ReferenceLongOnly(sign, p) == IF extreme = Missing THEN p ELSE Max({extreme, p})
\* The best price since entry; the first there is, where entry had none.
Reference(sign, p) == IF extreme = Missing THEN p ELSE Best(sign, extreme, p)

\* One bar of the loop.
Bar ==
  /\ Len(bars) < MaxBars
  /\ \E w \in Weights, p \in Prices \cup {Missing} :
       /\ p = Missing => \A i \in DOMAIN bars : bars[i].price = Missing
       /\ bars' = Append(bars, [weight |-> w, price |-> p])
       /\ LET sign == Sign(w)
              held == stopped /\ ~Enters(w)
          IN /\ entry' = IF Enters(w) \/ (sign # 0 /\ extreme = Missing)
                         THEN p ELSE entry
             /\ extreme' = IF Enters(w) THEN p
                           ELSE IF sign # 0 /\ p # Missing /\ ~stopped THEN Reference(sign, p)
                           ELSE extreme
             /\ stopped' = (held \/ (sign # 0 /\ p # Missing
                              /\ Lost(sign, p, IF trailing THEN extreme' ELSE entry')))
             /\ prevSign' = sign
             /\ out' = Append(out, IF stopped' THEN 0 ELSE w)
  /\ UNCHANGED trailing

Next == Bar
Spec == Init /\ [][Next]_vars

----------------------------------------------------------------------------
(* Properties. *)

\* One weight is left for every bar, the one asked for or none.
TypeOK == /\ Len(out) = Len(bars)
          /\ \A i \in DOMAIN out : out[i] \in {0, bars[i].weight}

\* "Zero out a position once it loses stop_pct from its reference price ... the
\* best price since entry when trailing, else the entry price.  Once stopped,
\* the symbol stays flat until the raw signal closes or flips": by the bars
\* alone, a weight is left exactly if at no bar of its position so far was the
\* price that far from the best, or the first, price of the position till then.
Since(i) == {j \in 1 .. i : \A k \in j .. i : Sign(bars[k].weight) = Sign(bars[i].weight)}
PricesOf(js) == {bars[j].price : j \in {k \in js : bars[k].price # Missing}}
ReferenceAt(i, j) ==
  LET seen == {k \in Since(i) : k <= j /\ bars[k].price # Missing}
  IN IF ~trailing THEN bars[Min(seen)].price
     ELSE IF bars[i].weight > 0 THEN Max(PricesOf(seen)) ELSE Min(PricesOf(seen))
StopsHold ==
  \A i \in DOMAIN bars :
    out[i] = IF bars[i].weight # 0 /\ \E j \in Since(i) :
                  bars[j].price # Missing /\ Lost(Sign(bars[i].weight), bars[j].price, ReferenceAt(i, j))
             THEN 0 ELSE bars[i].weight
=============================================================================
