---------------------------- MODULE ExitMachine ----------------------------
(***************************************************************************)
(* The rules I0 to I8 that decide each tick what becomes of an intraday    *)
(* position (src/intraday/exits/machine.py), with what the loop makes of   *)
(* the decision (src/intraday/runtime/loop.py): a partial or a full exit   *)
(* order that fills, fills in part or fails, its booking, the writes of    *)
(* the journal, each of which may raise, and the row a restarted process   *)
(* takes the position from.                                                *)
(*                                                                         *)
(* Prices of the underlying are whole numbers around the entry 0; the      *)
(* premium is known by the target it has reached.  What orders do to the   *)
(* account is SessionLoop.                                                 *)
(***************************************************************************)
EXTENDS Integers

CONSTANTS
  Spots,      \* prices of the underlying
  Lots,       \* lots bought
  FirstStop,  \* distance of the stop at the entry
  Trails      \* distances the ATR may give the trailing stop

ASSUME ExitMachineAssumption ==
  /\ Spots \subseteq Int /\ Lots \in Nat \ {0}
  /\ FirstStop \in Nat \ {0} /\ Trails \subseteq Nat

VARIABLES
  side,   \* 1 when the underlying is to rise, -1 when it is to fall
  pos,    \* the Position in memory
  row,    \* its row in the journal
  order   \* the decision being carried out

machineVars == <<side, pos, row, order>>

NoOrder == [kind |-> "none", lots |-> 0]
Farther(a, b) == IF side = 1 THEN a >= b ELSE a <= b  \* a is no worse a stop than b
Best(a, b) == IF Farther(a, b) THEN a ELSE b

MachineInit ==
  /\ side \in {1, -1}
  /\ pos = [lots |-> Lots, stop |-> -side * FirstStop, fav |-> 0,
            be |-> FALSE, partial |-> FALSE, stalled |-> FALSE]
  /\ row = [lots |-> pos.lots, stop |-> pos.stop, be |-> FALSE, partial |-> FALSE]
  /\ order = NoOrder

-----------------------------------------------------------------------------
(* manage                                                                  *)

\* What a tick sees: the spot, the multiple of the risk the premium has come
\* to, an unusable or wide quote, a premium at its own stop, a spot through
\* VWAP, a stale trade, one in its min-hold time, and the square-off.
Markets ==
  [spot : Spots, gain : {"low", "some", "one", "two"}, bad : BOOLEAN, decayed : BOOLEAN,
   flip : BOOLEAN, old : BOOLEAN, fresh : BOOLEAN, square : BOOLEAN]
Sane(m) == (m.decayed => m.gain = "low") /\ (m.flip => m.gain \in {"low", "some"})

Invalidated(m) == Farther(pos.stop, m.spot) \/ m.decayed

TrailLoose(stop, trail) == trail  \* mutant: the stop follows the trail both ways
TrailStop(stop, trail) == Best(stop, trail)

Trailed(m, distance) ==
  LET fav == Best(pos.fav, m.spot)
  IN [pos EXCEPT !.fav = fav,
                 !.stop = IF pos.be THEN TrailStop(@, fav - side * distance) ELSE @]

\* I0, I1, I2 and the second target of I3.
LeavesAtOnce(m) == m.square \/ Invalidated(m) \/ (m.bad /\ ~m.fresh) \/ m.gain = "two"
Offers(m) == m.gain = "one" /\ ~pos.partial

\* I5 asks once only; I6.
Stalls(m) == ~pos.stalled /\ m.old /\ m.gain = "low" /\ ~m.fresh
Flips(m) == m.flip /\ ~m.fresh

\* A closed row stays closed.  A write commits or raises, and then the loop
\* keeps the position as it is in memory.
Saved(p) == [lots |-> IF row.lots = 0 THEN 0 ELSE p.lots, stop |-> p.stop, be |-> p.be, partial |-> p.partial]
Writes(p) == row' \in {row, Saved(p)}
Ask(kind, lots) == order' = [kind |-> kind, lots |-> lots]

Leaves(m) ==
  /\ LeavesAtOnce(m)
  /\ Ask("exit", pos.lots) /\ UNCHANGED <<pos, row>>

\* I3 books half at the first target and moves the stop to the entry; a
\* single lot has no half.
Offered == [pos EXCEPT !.partial = TRUE, !.be = TRUE, !.stop = 0]
BooksHalf(m) ==
  /\ ~LeavesAtOnce(m) /\ Offers(m)
  /\ pos' = Offered
  /\ IF pos.lots \div 2 = 0 THEN Writes(Offered) /\ UNCHANGED order
     ELSE Ask("partial", pos.lots \div 2) /\ UNCHANGED row

TiresOut(m, distance) ==
  /\ ~LeavesAtOnce(m) /\ ~Offers(m) /\ (Stalls(m) \/ Flips(m))
  /\ pos' = [Trailed(m, distance) EXCEPT !.stalled = @ \/ Stalls(m)]
  /\ Ask("exit", pos.lots) /\ UNCHANGED row

Holds(m, distance) ==
  /\ ~LeavesAtOnce(m) /\ ~Offers(m) /\ ~Stalls(m) /\ ~Flips(m)
  /\ pos' = Trailed(m, distance) /\ Writes(pos') /\ UNCHANGED order

Tick ==
  /\ order = NoOrder /\ pos.lots > 0
  /\ \E m \in Markets :
       /\ Sane(m)
       /\ \/ Leaves(m) \/ BooksHalf(m)
          \/ \E distance \in Trails : TiresOut(m, distance) \/ Holds(m, distance)
  /\ UNCHANGED side

-----------------------------------------------------------------------------
(* _manage_one, after its order                                            *)

\* book_partial and close_position commit before update_position does.
Books(n) ==
  /\ pos' = [pos EXCEPT !.lots = @ - n]
  /\ row' = [row EXCEPT !.lots = IF row.lots = 0 THEN 0 ELSE pos'.lots]
  /\ order' = IF pos'.lots = 0 THEN NoOrder
              ELSE [kind |-> "save", lots |-> IF order.kind = "partial" THEN order.lots - n ELSE 0]

\* The first or the second write raises: book_partial reduces the position
\* between the two, close_position closes the row and leaves the position.
BooksInPart(n) ==
  /\ order' = NoOrder
  /\ IF n < pos.lots THEN pos' \in {pos, [pos EXCEPT !.lots = @ - n]} /\ UNCHANGED row
     ELSE row' \in {row, [row EXCEPT !.lots = 0]} /\ UNCHANGED pos

Fills ==
  /\ order.kind \in {"exit", "partial"}
  /\ \E n \in 1..order.lots : Books(n) \/ BooksInPart(n)
  /\ UNCHANGED side

\* A short partial is offered again.
Saves ==
  /\ order.kind = "save"
  /\ pos' = [pos EXCEPT !.partial = @ /\ order.lots = 0]
  /\ Writes(pos') /\ order' = NoOrder
  /\ UNCHANGED side

Fails ==
  /\ order.kind \in {"exit", "partial"}
  /\ pos' = [pos EXCEPT !.partial = @ /\ order.kind = "exit"]
  /\ Writes(pos') /\ order' = NoOrder
  /\ UNCHANGED side

\* The favourable extreme and the stall check are not in the journal.
Restarts ==
  /\ row.lots > 0
  /\ pos' = [lots |-> row.lots, stop |-> row.stop, fav |-> 0,
             be |-> row.be, partial |-> row.partial, stalled |-> FALSE]
  /\ order' = NoOrder
  /\ UNCHANGED <<side, row>>

MachineNext == Tick \/ Fills \/ Saves \/ Fails \/ Restarts
MachineSpec == MachineInit /\ [][MachineNext]_machineVars

-----------------------------------------------------------------------------
(* Properties                                                              *)

\* A position that was offered its first target does not risk its entry again
\* while the process lives: whatever partials fail, whatever the trail does, the
\* stop stays at the entry or beyond.  Once one write of it was committed the
\* journal keeps it and a restart brings it back; a restart before that, after
\* writes that raised or between the offer and the save, forgets the offer and
\* takes the stop of the entry again.
EntryIsSafe == [][
  /\ pos'.be => Farther(pos'.stop, 0)
  /\ row'.be => Farther(row'.stop, 0)
  /\ row.be => row'.be
  /\ pos.be => pos'.be \/ (Restarts /\ ~row.be)]_machineVars

\* machine.py of the trailing stop: it "is ratchet-only".
RatchetOnly == [][~Restarts => Farther(pos'.stop, pos.stop)]_machineVars
=============================================================================
