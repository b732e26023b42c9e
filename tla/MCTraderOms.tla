---------------------------- MODULE MCTraderOms ----------------------------
(***************************************************************************)
(* TraderOms for TLC: targets, and the liveness properties.                *)
(***************************************************************************)
EXTENDS TraderOms

\* Targets on both sides of flat.
LongShort == {-1, 1}

\* Every order of a symbol that is cancelled is ended: the waves cancel what
\* nobody fills.
OrdersEnd == \A o \in Id : Own(o) => (live[o] # 0 ~> live[o] = 0 \/ Sym(o) \notin symbols)

\* Every such order leaves the book, by its end or as stale ("remove orders > 60
\* min old"): only one that expired by an event not known, and was acknowledged
\* without its creation time, may stay.
BookClears == \A o \in Id :
    rem[o] # 0 ~> rem[o] = 0 \/ Sym(o) \notin symbols \/ (o \in lapsed /\ age[o] = NoTs)
=============================================================================
