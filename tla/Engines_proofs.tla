--------------------------- MODULE Engines_proofs ---------------------------
(***************************************************************************)
(* Proofs about the exit rules of the intraday engine and the gates of the *)
(* legacy one, for all prices, lots, stops and trails, and for any cap and *)
(* any number of symbols, days, deaths and exits; about the legacy exits   *)
(* in live mode, for any symbols, entry sizes, bounds and admitted faults; *)
(* and about the stop walk and the simulation that grades it, for any      *)
(* prices, walls, multiples of the ATR and number of bars.                 *)
(***************************************************************************)
EXTENDS LiveExits, TradingDay, StopWalk, ExitMachine, SequenceTheorems, Totals_proofs, TLAPS

-----------------------------------------------------------------------------
(* The stop of a position                                                  *)

\* the position in memory, its row, and the decision being carried out
PosSet == [lots : Int, stop : Int, fav : Int, be : BOOLEAN, partial : BOOLEAN, stalled : BOOLEAN]
RowSet == [lots : Int, stop : Int, be : BOOLEAN, partial : BOOLEAN]
OrderSet == [kind : {"none", "exit", "partial", "save"}, lots : Int]
Safe(p) == p.be => Farther(p.stop, 0)
MachineInv ==
  /\ side \in {1, -1} /\ pos \in PosSet /\ row \in RowSet /\ order \in OrderSet
  /\ Safe(pos) /\ Safe(row) /\ (row.be => pos.be)
\* the journal keeps an offer it has; memory loses one only when a restart reads
\* a row that does not have it
OfferKept == side' = side /\ (row.be => row'.be) /\ (pos.be => pos'.be \/ (Restarts /\ ~row.be))

\* A stop at the entry or beyond is one a trail can only move further.
LEMMA TrailStaysSafe ==
  ASSUME side \in {1, -1}, NEW stop \in Int, NEW other \in Int
  PROVE  TrailStop(stop, other) \in Int /\ (Farther(stop, 0) => Farther(TrailStop(stop, other), 0))
BY DEF TrailStop, Best, Farther

\* What the tick makes of the position keeps its stop safe.
LEMMA TrailedIsSafe ==
  ASSUME MachineInv, NEW m \in Markets, NEW distance \in Trails
  PROVE  Trailed(m, distance) \in PosSet /\ Safe(Trailed(m, distance))
<1> USE ExitMachineAssumption
<1>1. m.spot \in Int /\ distance \in Int
  <2>1. m.spot \in Spots
    BY DEF Markets
  <2>2. Spots \subseteq Int /\ Trails \subseteq Nat
    BY ExitMachineAssumption
  <2>3. m.spot \in Int
    BY <2>1, <2>2
  <2>4. distance \in Int
    BY <2>2
  <2> QED BY <2>3, <2>4
<1> DEFINE fav == Best(pos.fav, m.spot)
<1> DEFINE trail == fav - side * distance
<1>2. fav \in Int
  BY <1>1 DEF Best, MachineInv, PosSet
<1>3. trail \in Int
  <2> HIDE DEF fav
  <2> QED BY <1>1, <1>2 DEF MachineInv
<1> DEFINE stop == IF pos.be THEN TrailStop(pos.stop, trail) ELSE pos.stop
<1>4. Trailed(m, distance) = [pos EXCEPT !.fav = fav, !.stop = stop]
  BY DEF Trailed, MachineInv, PosSet
<1> HIDE DEF trail, fav
<1>5. stop \in Int /\ (pos.be => Farther(stop, 0))
  <2>1. pos.stop \in Int /\ side \in {1, -1} /\ (pos.be => Farther(pos.stop, 0))
    BY DEF MachineInv, PosSet, Safe
  <2> QED BY <1>3, <2>1, TrailStaysSafe
<1> HIDE DEF stop
<1> QED BY <1>2, <1>4, <1>5 DEF MachineInv, PosSet, Safe

\* Every tick, order, failed write and restart keeps both stops safe and the offer.
LEMMA MachineStep == MachineInv /\ [MachineNext]_machineVars => MachineInv' /\ OfferKept
<1> SUFFICES ASSUME MachineInv, [MachineNext]_machineVars PROVE MachineInv' /\ OfferKept
  OBVIOUS
<1>0. side \in {1, -1} /\ pos \in PosSet /\ row \in RowSet /\ order \in OrderSet /\ Safe(pos) /\ Safe(row)
      /\ (row.be => pos.be)
  BY DEF MachineInv
<1>1. ASSUME NEW p \in PosSet, NEW r \in RowSet, NEW o \in OrderSet, UNCHANGED side,
             pos' = p, row' = r, order' = o, Safe(p), Safe(r),
             row.be => r.be, r.be => p.be, pos.be => p.be
      PROVE  MachineInv' /\ OfferKept
  BY <1>0, <1>1 DEF MachineInv, Safe, Farther, OfferKept
<1>2. ASSUME NEW p \in PosSet, Safe(p), Writes(p), pos.be => p.be
      PROVE  \E r \in RowSet : row' = r /\ Safe(r) /\ (row.be => r.be) /\ (r.be => p.be)
  <2>1. CASE row' = row
    BY <1>0, <1>2, <2>1
  <2>2. CASE row' = Saved(p)
    <3>1. Saved(p) \in RowSet /\ Saved(p).be = p.be /\ Saved(p).stop = p.stop
      BY <1>2 DEF PosSet, RowSet, Saved
    <3> QED BY <1>0, <1>2, <2>2, <3>1 DEF Safe
  <2> QED BY <1>2, <2>1, <2>2 DEF Writes
<1>3. NoOrder \in OrderSet
  BY DEF NoOrder, OrderSet
<1>4. CASE Tick
  <2>1. PICK m \in Markets :
          \/ Leaves(m) \/ BooksHalf(m)
          \/ \E distance \in Trails : TiresOut(m, distance) \/ Holds(m, distance)
    BY <1>4 DEF Tick
  <2>2. UNCHANGED side
    BY <1>4 DEF Tick
  <2>3. ASSUME NEW kind \in {"exit", "partial"}, NEW lots \in Int, Ask(kind, lots) PROVE order' \in OrderSet
    BY <2>3 DEF Ask, OrderSet
  <2>4. CASE Leaves(m)
    <3>1. pos.lots \in Int
      BY <1>0 DEF PosSet
    <3> QED BY <1>0, <1>1, <2>2, <2>3, <2>4, <3>1 DEF Leaves
  <2>5. CASE BooksHalf(m)
    <3>1. Offered \in PosSet /\ Safe(Offered) /\ Offered.be
      <4>1. Offered \in PosSet /\ Offered.stop = 0 /\ Offered.be
        <5>1. \A p \in PosSet : \A b \in BOOLEAN : [p EXCEPT !.partial = b] \in PosSet
          BY DEF PosSet
        <5>2. \A p \in PosSet : \A b \in BOOLEAN : [p EXCEPT !.be = b] \in PosSet /\ [p EXCEPT !.be = b].be = b
          BY DEF PosSet
        <5>3. \A p \in PosSet : [p EXCEPT !.stop = 0] \in PosSet /\ [p EXCEPT !.stop = 0].stop = 0
                              /\ [p EXCEPT !.stop = 0].be = p.be
          BY DEF PosSet
        <5>4. PICK p \in PosSet : p = [pos EXCEPT !.partial = TRUE]
          BY <1>0, <5>1
        <5>5. PICK q \in PosSet : q = [p EXCEPT !.be = TRUE] /\ q.be
          BY <5>2
        <5>6. Offered = [q EXCEPT !.stop = 0]
          BY <5>4, <5>5 DEF Offered
        <5> QED BY <5>3, <5>5, <5>6
      <4> QED BY <4>1 DEF Safe, Farther
    <3>2. /\ pos' = Offered /\ (Writes(Offered) \/ row' = row)
          /\ order' = order \/ Ask("partial", pos.lots \div 2)
      BY <2>5 DEF BooksHalf
    <3>3. pos.lots \div 2 \in Int
      BY <1>0 DEF PosSet
    <3>4. order' \in OrderSet
      BY <1>0, <2>3, <3>2, <3>3
    <3>5. PICK r \in RowSet : row' = r /\ Safe(r) /\ (row.be => r.be)
      BY <1>0, <1>2, <3>1, <3>2
    <3> QED BY <1>1, <2>2, <3>1, <3>2, <3>4, <3>5
  <2>6. ASSUME NEW distance \in Trails, TiresOut(m, distance) \/ Holds(m, distance)
        PROVE  MachineInv' /\ OfferKept
    <3>1. PICK p \in PosSet : p = Trailed(m, distance) /\ Safe(p) /\ p.be = pos.be
      <4>1. Trailed(m, distance).be = pos.be
        BY <1>0 DEF Trailed, PosSet
      <4> QED BY TrailedIsSafe, <4>1
    <3>2. CASE TiresOut(m, distance)
      <4>1. pos' = [p EXCEPT !.stalled = @ \/ Stalls(m)] /\ row' = row /\ Ask("exit", pos.lots)
        BY <3>1, <3>2 DEF TiresOut
      <4>2. PICK b \in BOOLEAN : b = (p.stalled \/ Stalls(m))
        OBVIOUS
      <4>3. pos' = [p EXCEPT !.stalled = b]
        BY <4>1, <4>2
      <4>4. /\ [p EXCEPT !.stalled = b] \in PosSet /\ Safe([p EXCEPT !.stalled = b])
            /\ [p EXCEPT !.stalled = b].be = pos.be
        BY <3>1 DEF PosSet, Safe
      <4>5. pos.lots \in Int
        BY <1>0 DEF PosSet
      <4> QED BY <1>0, <1>1, <2>2, <2>3, <4>1, <4>3, <4>4, <4>5
    <3>3. CASE Holds(m, distance)
      <4>1. pos' = p /\ Writes(p) /\ order' = order
        BY <3>1, <3>3 DEF Holds
      <4>2. PICK r \in RowSet : row' = r /\ Safe(r) /\ (row.be => r.be) /\ (r.be => p.be)
        BY <1>2, <3>1, <4>1
      <4> QED BY <1>0, <1>1, <2>2, <3>1, <4>1, <4>2
    <3> QED BY <2>6, <3>2, <3>3
  <2> QED BY <2>1, <2>4, <2>5, <2>6
<1>5. CASE Fills
  <2>1. PICK n \in 1..order.lots : Books(n) \/ BooksInPart(n)
    BY <1>5 DEF Fills
  <2>2. n \in Int /\ order.lots \in Int /\ side' = side
    BY <1>0, <1>5 DEF OrderSet, Fills
  <2>3. [pos EXCEPT !.lots = @ - n] \in PosSet /\ [pos EXCEPT !.lots = @ - n].be = pos.be
        /\ [pos EXCEPT !.lots = @ - n].stop = pos.stop /\ [pos EXCEPT !.lots = @ - n].lots \in Int
    BY <1>0, <2>2 DEF PosSet
  <2>4. \A k \in Int : [row EXCEPT !.lots = k] \in RowSet /\ [row EXCEPT !.lots = k].be = row.be
                      /\ [row EXCEPT !.lots = k].stop = row.stop
    BY <1>0 DEF RowSet
  <2>5. ASSUME pos' \in {pos, [pos EXCEPT !.lots = @ - n]},
               NEW k \in Int, row' \in {row, [row EXCEPT !.lots = k]}, order' \in OrderSet
        PROVE  MachineInv' /\ OfferKept
    <3>1. PICK p \in PosSet : pos' = p /\ p.be = pos.be /\ p.stop = pos.stop
      BY <1>0, <2>3, <2>5
    <3>2. PICK r \in RowSet : row' = r /\ r.be = row.be /\ r.stop = row.stop
      BY <1>0, <2>4, <2>5
    <3> QED BY <1>0, <1>1, <2>2, <2>5, <3>1, <3>2 DEF Safe
  <2>6. CASE Books(n)
    <3> DEFINE k == IF row.lots = 0 THEN 0 ELSE pos'.lots
    <3>1. k \in Int
      BY <2>3, <2>6 DEF Books
    <3>2. row' \in {row, [row EXCEPT !.lots = k]} /\ pos' \in {pos, [pos EXCEPT !.lots = @ - n]}
      BY <2>6 DEF Books
    <3>3. order' \in OrderSet
      BY <1>3, <2>2, <2>6 DEF Books, OrderSet
    <3> HIDE DEF k
    <3> QED BY <2>5, <3>1, <3>2, <3>3
  <2>7. CASE BooksInPart(n)
    <3>1. row' \in {row, [row EXCEPT !.lots = 0]} /\ pos' \in {pos, [pos EXCEPT !.lots = @ - n]}
      BY <2>7 DEF BooksInPart
    <3>2. order' \in OrderSet
      BY <1>3, <2>7 DEF BooksInPart
    <3> QED BY <2>5, <3>1, <3>2
  <2> QED BY <2>1, <2>6, <2>7
<1>6. CASE Saves \/ Fails
  <2>1. PICK b \in BOOLEAN : pos' = [pos EXCEPT !.partial = b]
    <3>1. CASE Saves
      <4>1. PICK b \in BOOLEAN : b = (pos.partial /\ order.lots = 0)
        OBVIOUS
      <4> QED BY <3>1, <4>1 DEF Saves
    <3>2. CASE Fails
      <4>1. PICK b \in BOOLEAN : b = (pos.partial /\ order.kind = "exit")
        OBVIOUS
      <4> QED BY <3>2, <4>1 DEF Fails
    <3> QED BY <1>6, <3>1, <3>2
  <2>2. Writes(pos') /\ side' = side /\ order' = NoOrder
    BY <1>6 DEF Saves, Fails
  <2>3. PICK p \in PosSet : pos' = p /\ Safe(p) /\ p.be = pos.be
    BY <1>0, <2>1 DEF PosSet, Safe
  <2>4. PICK r \in RowSet : row' = r /\ Safe(r) /\ (row.be => r.be) /\ (r.be => p.be)
    BY <1>2, <2>2, <2>3
  <2> QED BY <1>1, <1>3, <2>2, <2>3, <2>4
<1>7. CASE Restarts
  <2> DEFINE p == [lots |-> row.lots, stop |-> row.stop, fav |-> 0,
                   be |-> row.be, partial |-> row.partial, stalled |-> FALSE]
  <2>1. p \in PosSet /\ Safe(p) /\ p.be = row.be
    BY <1>0 DEF PosSet, RowSet, Safe
  <2>2. pos' = p /\ row' = row /\ order' = NoOrder /\ UNCHANGED side
    BY <1>7 DEF Restarts
  <2> HIDE DEF p
  <2> QED BY <1>0, <1>3, <1>7, <2>1, <2>2 DEF MachineInv, Safe, Farther, OfferKept
<1>8. CASE UNCHANGED machineVars
  BY <1>0, <1>1, <1>8 DEF machineVars
<1> QED BY <1>4, <1>5, <1>6, <1>7, <1>8 DEF MachineNext

\* A position offered its first target keeps its stop at the entry or beyond, in
\* memory and in the journal, whatever prices, trails, orders and failed writes
\* come; the journal never loses the offer, and memory loses it only to a restart
\* that comes before any write of it was committed.
THEOREM EntryStaysSafe == MachineSpec => EntryIsSafe
<1>1. MachineInit => MachineInv
  BY ExitMachineAssumption DEF MachineInit, MachineInv, PosSet, RowSet, OrderSet, NoOrder, Safe
<1>2. MachineInv /\ [MachineNext]_machineVars
        => [ /\ pos'.be => Farther(pos'.stop, 0)
             /\ row'.be => Farther(row'.stop, 0)
             /\ row.be => row'.be
             /\ pos.be => pos'.be \/ (Restarts /\ ~row.be)]_machineVars
  <2> SUFFICES ASSUME MachineInv, [MachineNext]_machineVars
               PROVE  /\ pos'.be => Farther(pos'.stop, 0)
                      /\ row'.be => Farther(row'.stop, 0)
                      /\ row.be => row'.be
                      /\ pos.be => pos'.be \/ (Restarts /\ ~row.be)
    OBVIOUS
  <2>1. MachineInv' /\ OfferKept
    BY MachineStep
  <2> QED BY <2>1 DEF MachineInv, Safe, OfferKept, Farther
<1> QED BY <1>1, <1>2, MachineStep, PTL DEF MachineSpec, EntryIsSafe

-----------------------------------------------------------------------------
(* The cap of the day                                                      *)

\* a loss of the day as memory and file have it, and what a fill still owes
DayRow == [date : Nat, realized : Int]
Of(d) == IF d.date = clock.day THEN d.realized ELSE 0
Owed == IF duty.kind = "fill" THEN duty.pnl ELSE 0
DutySet == {NoWork, [kind |-> "trip"]} \cup [kind : {"fill"}, sym : Symbols, pnl : {-1, 1}]
AgentSet == {Quiet} \cup [stage : {"fired", "cleared"}, sym : Symbols]
DayTypes ==
  /\ clock.day \in Nat \ {0} /\ clock = [day |-> clock.day, part |-> clock.part]
  /\ up \in {"down", "scanner", "up"}
  /\ day \in DayRow /\ dayFile \in DayRow /\ duty \in DutySet /\ truth \in Int /\ missed \in BOOLEAN
  /\ book \in [Symbols -> {"none", "paper", "live"}] /\ agent \in AgentSet
\* The file has the day up to what a fill owes; a running process has what the
\* file has; a dead one does nothing.
DayInv ==
  /\ DayTypes
  /\ dayFile.date <= clock.day /\ day.date <= clock.day
  /\ ~missed => truth = Of(dayFile) + Owed
  /\ up # "down" => (day.date = clock.day \/ dayFile.date = clock.day => day = dayFile)
  /\ up = "down" => duty = NoWork /\ sweep = Idle /\ agent = Quiet

\* A step that leaves the clock, the day, its file and the duty.
LEMMA DayStays ==
  ASSUME DayInv, UNCHANGED <<clock, up, day, dayFile, duty, truth, missed>>,
         book' \in [Symbols -> {"none", "paper", "live"}], agent' \in AgentSet,
         up # "down" \/ UNCHANGED <<sweep, agent>>
  PROVE  DayInv'
BY DEF DayInv, DayTypes, Of, Owed

\* The day that is rolled or kept, in memory and in the file, is worth the same.
LEMMA RollsKeep ==
  ASSUME DayInv, up # "down"
  PROVE  /\ Rolled \in DayRow /\ Rolled.date = clock.day /\ Rolled.realized = Of(dayFile)
         /\ Rolls => day' = Rolled /\ dayFile' = Rolled
<1>1. Rolled \in DayRow /\ Rolled.date = clock.day
  BY DEF Rolled, DayInv, DayTypes, DayRow
<1>2. CASE day.date = clock.day
  <2>1. Rolled = day /\ day = dayFile
    BY <1>2 DEF Rolled, DayInv
  <2> QED BY <1>1, <1>2, <2>1 DEF Rolls, Of
<1>3. CASE day.date # clock.day
  <2>1. dayFile.date # clock.day
    BY <1>3 DEF DayInv
  <2>2. Rolled # day /\ Rolled.realized = 0
    BY <1>1, <1>3 DEF Rolled
  <2> QED BY <1>1, <2>1, <2>2 DEF Rolls, Of
<1> QED BY <1>2, <1>3

\* A signal that is taken keeps the day, and opens live only below the cap.
LEMMA OpenKeeps ==
  ASSUME DayInv, up # "down", Free, NEW s \in Symbols, OpenFromSignal(s), agent' \in AgentSet,
         UNCHANGED <<clock, up, duty, truth, missed, count>>
  PROVE  /\ DayInv'
         /\ \A t \in Symbols : book[t] # "live" /\ book'[t] = "live" => truth > -Cap \/ missed
<1>1. book' \in [Symbols -> {"none", "paper", "live"}]
  BY DEF OpenFromSignal, StaysOut, OpensOnPaper, Refuses, Enters, DayInv, DayTypes
<1>2. ASSUME UNCHANGED <<day, dayFile>> PROVE DayInv'
  <2>1. UNCHANGED <<clock, up, day, dayFile, duty, truth, missed>>
    BY <1>2
  <2>2. up # "down" \/ UNCHANGED <<sweep, agent>>
    OBVIOUS
  <2> QED BY <1>1, <2>1, <2>2, DayStays
<1>3. ASSUME Rolls PROVE DayInv'
  <2>1. /\ day' = dayFile' /\ dayFile' \in DayRow /\ dayFile'.date = clock.day
        /\ dayFile'.realized = Of(dayFile)
    BY <1>3, RollsKeep
  <2>2. Of(dayFile)' = Of(dayFile)
    BY <2>1 DEF Of
  <2>3. Owed' = Owed
    BY DEF Owed
  <2>4. DayTypes'
    BY <1>1, <2>1 DEF DayInv, DayTypes
  <2>5. ~missed' => truth' = Of(dayFile)' + Owed'
    BY <2>2, <2>3 DEF DayInv
  <2>6. dayFile'.date <= clock'.day /\ day'.date <= clock'.day
    BY <2>1 DEF DayInv, DayTypes
  <2>7. up' # "down"
    OBVIOUS
  <2>8. up' # "down" => (day'.date = clock'.day \/ dayFile'.date = clock'.day => day' = dayFile')
    BY <2>1
  <2> QED BY <2>4, <2>5, <2>6, <2>7, <2>8 DEF DayInv
<1>4. DayInv'
  BY <1>2, <1>3 DEF OpenFromSignal, StaysOut, OpensOnPaper, Refuses, Enters
<1>5. ASSUME NEW t \in Symbols, book[t] # "live", book'[t] = "live" PROVE truth > -Cap \/ missed
  <2>1. Enters(s)
    BY <1>5 DEF OpenFromSignal, StaysOut, OpensOnPaper, Refuses, DayInv, DayTypes
  <2>2. Of(dayFile) > -Cap
    BY <2>1, RollsKeep DEF Enters, Spared
  <2>3. Owed = 0 /\ (~missed => truth = Of(dayFile) + Owed) /\ truth \in Int /\ Of(dayFile) \in Int
    BY DEF DayInv, DayTypes, Free, NoWork, Owed, Of, DayRow
  <2> QED BY <2>2, <2>3
<1> QED BY <1>4, <1>5

\* Every step keeps the day, and takes a live entry only below the cap.
LEMMA DayStep ==
  ASSUME DayInv, [DayNext]_dayVars
  PROVE  /\ DayInv'
         /\ \A t \in Symbols : book[t] # "live" /\ book'[t] = "live" => truth > -Cap \/ missed
<1> USE TradingDayAssumption
<1>0. DayTypes /\ book \in [Symbols -> {"none", "paper", "live"}]
  BY DEF DayInv, DayTypes
\* nothing but the book of closed positions, and never to live
<1>1. ASSUME UNCHANGED <<clock, up, day, dayFile, duty, truth, missed>>,
             up # "down" \/ UNCHANGED <<sweep, agent>>, agent' \in AgentSet,
             book' = book \/ \E s \in Symbols : book' = [book EXCEPT ![s] = "none"]
      PROVE  /\ DayInv'
             /\ \A t \in Symbols : book[t] # "live" /\ book'[t] = "live" => truth > -Cap \/ missed
  <2>1. book' \in [Symbols -> {"none", "paper", "live"}] /\ \A t \in Symbols : book'[t] = "live" => book[t] = "live"
    BY <1>0, <1>1
  <2> QED BY <1>1, <2>1, DayStays
<1>2. sweep.stage # "idle" \/ agent.stage # "idle" \/ duty # NoWork => up # "down"
  BY DEF DayInv, Idle, Quiet
<1>3. CASE Orchestrator \/ User \/ UNCHANGED dayVars
  BY <1>0, <1>1, <1>3 DEF Orchestrator, TickReads, TickWrites, User, Clicks, ClickReads, ClickWrites, Switches,
                    dayVars, files, threads, observed, DayTypes
<1>4. CASE SweepBegins \/ Scanned \/ SweepEnds \/ AgentSweeps \/ AgentAsks
  <2>1. agent' \in AgentSet
    <3>1. CASE AgentAsks
      <4>1. agent \in [stage : {"fired", "cleared"}, sym : Symbols]
        BY <1>0, <3>1 DEF AgentAsks, DayTypes, AgentSet, Quiet
      <4>2. \A a \in [stage : {"fired", "cleared"}, sym : Symbols] :
              [a EXCEPT !.stage = "cleared"] \in [stage : {"fired", "cleared"}, sym : Symbols]
        OBVIOUS
      <4> QED BY <3>1, <4>1, <4>2 DEF AgentAsks, AgentSet
    <3>2. CASE AgentSweeps
      BY <3>2 DEF AgentSweeps, AgentSet
    <3> QED BY <1>0, <1>4, <3>1, <3>2 DEF SweepBegins, Scanned, SweepEnds, DayTypes
  <2> QED BY <1>1, <1>2, <1>4, <2>1 DEF SweepBegins, Scanned, SweepEnds, AgentSweeps, AgentAsks, files, observed
<1>5. ASSUME NEW s \in Symbols, ClosesOnPaper(s)
      PROVE  /\ DayInv'
             /\ \A t \in Symbols : book[t] # "live" /\ book'[t] = "live" => truth > -Cap \/ missed
  BY <1>0, <1>1, <1>2, <1>5 DEF ClosesOnPaper, observed, DayTypes
<1>6. ASSUME NEW s \in Symbols, Signal(s)
      PROVE  /\ DayInv'
             /\ \A t \in Symbols : book[t] # "live" /\ book'[t] = "live" => truth > -Cap \/ missed
  BY <1>0, <1>2, <1>6, OpenKeeps DEF Signal, observed, DayTypes
<1>7. CASE AgentOpens
  <2>1. /\ up # "down" /\ Free /\ UNCHANGED <<clock, up, duty, truth, missed, count>>
        /\ OpenFromSignal(agent.sym) /\ agent' \in AgentSet
    BY <1>2, <1>7 DEF AgentOpens, observed, AgentSet
  <2>2. agent.sym \in Symbols
    BY <1>0, <1>7 DEF AgentOpens, DayTypes, AgentSet, Quiet
  <2> QED BY <2>1, <2>2, OpenKeeps
<1>8. ASSUME NEW s \in Symbols, NEW p \in {-1, 1}, ExitTrades(s, p)
      PROVE  DayInv' /\ book' = book
  <2>1. /\ up # "down" /\ Owed = 0 /\ truth' = truth + p /\ duty' = [kind |-> "fill", sym |-> s, pnl |-> p]
        /\ UNCHANGED <<clock, up, day, dayFile, book, missed, agent>>
    BY <1>2, <1>8 DEF ExitTrades, Free, NoWork, Owed, files
  <2>2. Owed' = p /\ Of(dayFile)' = Of(dayFile) /\ Of(dayFile) \in Int
    BY <1>0, <2>1 DEF Owed, Of, DayTypes, DayRow
  <2>3. duty' \in DutySet
    BY <2>1 DEF DutySet
  <2>4. DayTypes'
    BY <1>0, <2>1, <2>3 DEF DayTypes
  <2> QED BY <1>0, <2>1, <2>2, <2>4 DEF DayInv, DayTypes
<1>9. CASE AddRealized
  <2>1. up # "down" /\ duty.kind = "fill" /\ duty.pnl \in {-1, 1} /\ duty.sym \in Symbols
    BY <1>0, <1>2, <1>9 DEF AddRealized, NoWork, DayTypes, DutySet
  <2>2. /\ Rolled \in DayRow /\ Rolled.date = clock.day /\ Rolled.realized = Of(dayFile)
    BY <2>1, RollsKeep
  <2>3. Booked \in DayRow /\ Booked.date = clock.day /\ Booked.realized = Of(dayFile) + Owed
    BY <2>1, <2>2 DEF Booked, Owed, DayRow
  <2>4. /\ day' = Booked /\ dayFile' = Booked /\ UNCHANGED <<clock, up, sweep, agent, truth, missed>>
        /\ book' = [book EXCEPT ![duty.sym] = "none"] /\ duty' \in {NoWork, [kind |-> "trip"]}
    BY <1>9 DEF AddRealized, observed
  <2>5. Of(dayFile)' = Of(dayFile) + Owed /\ Owed' = 0
    BY <2>3, <2>4 DEF Of, Owed, NoWork
  <2>6. DayTypes'
    BY <1>0, <2>1, <2>3, <2>4 DEF DayTypes, DutySet
  <2>7. \A t \in Symbols : book'[t] = "live" => book[t] = "live"
    BY <1>0, <2>1, <2>4
  <2>8. Of(dayFile) + Owed \in Int /\ clock.day \in Nat
    BY <1>0, <2>1 DEF Of, Owed, DayTypes, DayRow
  <2>9. ~missed' => truth' = Of(dayFile)' + Owed'
    BY <2>4, <2>5, <2>8 DEF DayInv
  <2>10. day' = dayFile' /\ dayFile'.date <= clock'.day /\ up' # "down"
    BY <2>1, <2>3, <2>4, <2>8
  <2> QED BY <2>6, <2>7, <2>9, <2>10 DEF DayInv
<1>10. CASE Trips \/ Unpriced
  <2>1. up # "down" /\ (Unpriced => duty.kind = "fill" /\ duty.sym \in Symbols)
    BY <1>0, <1>2, <1>10 DEF Trips, Unpriced, NoWork, DayTypes, DutySet
  <2>2. /\ UNCHANGED <<clock, up, day, dayFile, truth, agent>> /\ duty' = NoWork
        /\ (Trips => UNCHANGED <<book, missed>> /\ duty.kind = "trip")
        /\ (Unpriced => missed' = TRUE /\ book' = [book EXCEPT ![duty.sym] = "none"])
    BY <1>10 DEF Trips, Unpriced, observed
  <2>3. book' \in [Symbols -> {"none", "paper", "live"}] /\ \A t \in Symbols : book'[t] = "live" => book[t] = "live"
    BY <1>0, <1>10, <2>1, <2>2
  <2>4. Owed' = 0 /\ Of(dayFile)' = Of(dayFile) /\ (Trips => Owed = 0)
    BY <2>2 DEF Owed, NoWork, Of
  <2>5. missed' \in BOOLEAN /\ (~missed' => ~missed /\ Trips)
    <3>1. CASE Trips
      BY <1>0, <2>2, <3>1 DEF DayTypes
    <3>2. CASE Unpriced
      BY <2>2, <3>2
    <3> QED BY <1>10, <3>1, <3>2
  <2>6. DayTypes'
    BY <1>0, <2>2, <2>3, <2>5 DEF DayTypes, DutySet
  <2> QED BY <2>1, <2>2, <2>3, <2>4, <2>5, <2>6 DEF DayInv
<1>11. CASE ClockMoves
  <2>1. /\ UNCHANGED <<up, day, dayFile, duty, truth, missed, sweep, agent, book>>
        /\ clock' = [clock EXCEPT !.part = NextPart(@)]
    BY <1>11 DEF ClockMoves, files, threads, observed
  <2>2. PICK part : clock' = [day |-> clock.day, part |-> part]
    BY <1>0, <2>1 DEF DayTypes
  <2>3. clock'.day = clock.day /\ clock' = [day |-> clock'.day, part |-> clock'.part]
    BY <2>2
  <2> QED BY <2>1, <2>3 DEF DayInv, DayTypes, Of, Owed
<1>12. CASE NextDay
  <2>1. /\ UNCHANGED <<up, day, dayFile, duty, sweep, agent, book>> /\ duty = NoWork /\ truth' = 0 /\ missed' = FALSE
        /\ clock' = [day |-> clock.day + 1, part |-> "pre_open"]
    BY <1>12 DEF NextDay, files, threads, Free
  <2>2. clock'.day = clock.day + 1 /\ clock' = [day |-> clock'.day, part |-> clock'.part]
    BY <2>1
  <2>3. day.date \in Nat /\ dayFile.date \in Nat /\ clock.day \in Nat
    BY <1>0 DEF DayTypes, DayRow
  <2>4. /\ dayFile.date < clock'.day /\ day.date < clock'.day /\ dayFile.date # clock'.day /\ day.date # clock'.day
    BY <2>2, <2>3 DEF DayInv
  <2>5. Of(dayFile)' = 0 /\ Owed' = 0
    BY <2>1, <2>4 DEF Of, Owed, NoWork
  <2>6. DayTypes'
    <3>1. clock'.day \in Nat \ {0}
      BY <2>2, <2>3
    <3>2. truth' \in Int
      BY <2>1
    <3>3. missed' \in BOOLEAN
      BY <2>1, Zenon
    <3> QED BY <1>0, <2>1, <2>2, <3>1, <3>2, <3>3 DEF DayTypes
  <2>7. dayFile'.date <= clock'.day /\ day'.date <= clock'.day
    BY <2>1, <2>2, <2>3, <2>4
  <2> QED BY <2>1, <2>4, <2>5, <2>6, <2>7 DEF DayInv
<1>13. CASE Dies
  <2>1. /\ up' = "down" /\ sweep' = Idle /\ agent' = Quiet /\ duty' = NoWork /\ day' = NoDay
        /\ missed' = (missed \/ duty.kind = "fill") /\ UNCHANGED <<clock, dayFile, truth, book>>
    BY <1>13 DEF Dies, files
  <2>2. Owed' = 0 /\ Of(dayFile)' = Of(dayFile) /\ (~missed' => ~missed /\ Owed = 0)
    BY <2>1 DEF Owed, NoWork, Of
  <2>3. missed' \in BOOLEAN
    BY <2>1, Zenon
  <2>4. DayTypes'
    BY <1>0, <2>1, <2>3 DEF DayTypes, DutySet, AgentSet, NoDay, DayRow
  <2>5. dayFile'.date <= clock'.day /\ day'.date <= clock'.day
    BY <1>0, <2>1 DEF DayInv, DayTypes, NoDay
  <2> QED BY <2>1, <2>2, <2>4, <2>5 DEF DayInv
<1>14. CASE Starts
  <2>1. /\ up = "down" /\ up' = "scanner" /\ day' = LoadDay
        /\ UNCHANGED <<clock, dayFile, book, duty, truth, missed, agent>>
    BY <1>14 DEF Starts, files, threads, observed
  <2>2. LoadDay \in DayRow /\ (LoadDay.date = clock.day \/ dayFile.date = clock.day => LoadDay = dayFile)
        /\ LoadDay.date <= clock.day
    BY <1>0 DEF LoadDay, NoDay, DayTypes, DayRow
  <2>3. Of(dayFile)' = Of(dayFile) /\ Owed' = Owed
    BY <2>1 DEF Of, Owed
  <2>4. DayTypes'
    BY <1>0, <2>1, <2>2 DEF DayTypes
  <2> QED BY <2>1, <2>2, <2>3, <2>4 DEF DayInv
<1>15. CASE OrchestratorStarts
  <2>1. /\ up # "down" /\ up' = "up" /\ UNCHANGED <<clock, day, dayFile, book, duty, truth, missed, agent>>
    BY <1>15 DEF OrchestratorStarts, files, threads, observed
  <2> QED BY <2>1 DEF DayInv, DayTypes, Of, Owed
<1> QED BY <1>3, <1>4, <1>5, <1>6, <1>7, <1>8, <1>9, <1>10, <1>11, <1>12, <1>13, <1>14, <1>15
        DEF DayNext, Scanner, Agents, World

\* A day whose exits lost the cap takes no live entry, for any cap, number of
\* symbols, days, pauses and deaths, unless a result never reached the day.
THEOREM DayCapHolds == DaySpec => CapHolds
<1>1. DayInit => DayInv
  <2> SUFFICES ASSUME DayInit PROVE DayInv
    OBVIOUS
  <2>1. clock.day = 1 /\ clock = [day |-> clock.day, part |-> clock.part]
    BY DEF DayInit
  <2>2. NoDay \in DayRow /\ day = NoDay /\ dayFile = NoDay /\ NoDay.date = 0 /\ NoDay.realized = 0
    BY DEF DayInit, NoDay, DayRow
  <2>3. /\ duty = NoWork /\ NoWork \in DutySet /\ sweep = Idle /\ agent = Quiet /\ Quiet \in AgentSet
        /\ up = "down" /\ truth = 0 /\ missed = FALSE
    BY DEF DayInit, DutySet, AgentSet
  <2>4. book \in [Symbols -> {"none", "paper", "live"}]
    BY DEF DayInit
  <2>5. Of(dayFile) = 0 /\ Owed = 0
    BY <2>1, <2>2, <2>3 DEF Of, Owed, NoWork
  <2>6. missed \in BOOLEAN
    BY <2>3, Zenon
  <2>7. DayTypes
    BY <2>1, <2>2, <2>3, <2>4, <2>6 DEF DayTypes
  <2> QED BY <2>1, <2>2, <2>3, <2>5, <2>7 DEF DayInv
<1>2. DayInv /\ [DayNext]_dayVars => DayInv'
  BY DayStep
<1>3. DayInv /\ [DayNext]_dayVars =>
        [\A s \in Symbols : book[s] # "live" /\ book'[s] = "live" => truth > -Cap \/ missed]_dayVars
  BY DayStep
<1> QED BY <1>1, <1>2, <1>3, PTL DEF DaySpec, CapHolds

-----------------------------------------------------------------------------
(***************************************************************************)
(* The legacy exits in live mode.  NothingDropped speaks of the moments    *)
(* between orders.  The invariant that carries it says what holds while an *)
(* order is on its way: the one position the order is about may have       *)
(* shares that are not parked, and then the order is for all of them.      *)
(***************************************************************************)

\* An order belongs to the part of the sweep that sends it.
JobPlace ==
  /\ job.kind = "entry" => pc = "sweep" /\ Len(positions) < MaxEntries
  /\ job.kind = "exit" => pc = "update"
  /\ job.kind = "retry" => pc = "retry" /\ job.i \notin todo

\* Its quantity fits the leg it is for.
JobFits ==
  /\ job.kind = "exit" =>
       /\ job.qty <= positions[job.i].left
       /\ ~Open(job.i) => job.qty = positions[job.i].left
  /\ job.kind = "retry" => job.qty = positions[job.i].pend

\* The retry net visits legs with something parked.
TodoParked == pc = "retry" => \A i \in todo : i \in RetryQueue

Covered(p) == p.live /\ p.st = "CLOSED" => p.pend >= p.left

\* All a closed leg still holds is parked, or in the exit order on its way.
Parked ==
  /\ \A i \in DOMAIN saved : Covered(saved[i])
  /\ \A i \in Idx : ~(job.kind = "exit" /\ job.i = i) => Covered(positions[i])

Inv == TypeOK /\ JobPlace /\ JobFits /\ TodoParked /\ Parked

-----------------------------------------------------------------------------
\* What an order can come to, for a positive quantity.
LEMMA OutcomesFit ==
  ASSUME NEW q \in Nat \ {0}, NEW o \in Outcomes(q)
  PROVE  /\ o.told \in Nat /\ o.done \in Nat /\ o.rest \in Nat
         /\ o \notin Honest(q) => slips < MaxSlips
<1> USE DEF Outcome
<1>1. CASE o \in Honest(q)
  <2>1. o = Outcome(TRUE, q, q, 0) \/ o = Outcome(FALSE, 0, 0, 0)
    BY <1>1, Zenon DEF Honest, Failed
  <2>2. CASE o = Outcome(TRUE, q, q, 0)
    BY <1>1, <2>2
  <2>3. CASE o = Outcome(FALSE, 0, 0, 0)
    BY <1>1, <2>3
  <2> QED
    BY <2>1, <2>2, <2>3
<1>2. CASE o \in Slow(q) /\ slips < MaxSlips
  <2>1. PICK d \in 0..q-1 : o = Outcome(TRUE, IF d = 0 THEN q ELSE d, d, q - d)
    BY <1>2 DEF Slow
  <2>2. d \in Nat /\ q - d \in Nat
    OBVIOUS
  <2> QED
    BY <1>2, <2>1, <2>2
<1>3. CASE o \in DeadPart(q) /\ slips < MaxSlips
  <2>1. PICK d \in 1..q-1 : o = Outcome(FALSE, 0, d, 0)
    BY <1>3 DEF DeadPart
  <2> QED
    BY <1>3, <2>1
<1>4. CASE o \in Unheard(q) /\ slips < MaxSlips
  <2>1. o = Outcome(FALSE, 0, q, 0) \/ o = Outcome(FALSE, 0, 0, q)
    BY <1>4 DEF Unheard
  <2>2. CASE o = Outcome(FALSE, 0, q, 0)
    BY <1>4, <2>2
  <2>3. CASE o = Outcome(FALSE, 0, 0, q)
    BY <1>4, <2>3
  <2> QED
    BY <2>1, <2>2, <2>3
<1> QED
  BY <1>1, <1>2, <1>3, <1>4 DEF Outcomes, Faulty, Honest, Failed

\* An answer keeps the account and the count of faults typed.
LEMMA TradesFit ==
  ASSUME TypeOK, NEW kind, NEW s \in Sym, job.qty \in Nat \ {0},
         NEW o \in Outcomes(job.qty), Trades(kind, s, o)
  PROVE  net' \in [Sym -> Int] /\ working' \in [Sym -> Int] /\ slips' \in 0..MaxSlips
<1>1. /\ o.done \in Nat /\ o.rest \in Nat
      /\ o \notin Honest(job.qty) => slips < MaxSlips
  BY OutcomesFit
<1>2. Side(kind) * o.done \in Int /\ Side(kind) * o.rest \in Int
  <2>1. CASE Side(kind) = 1
    BY <1>1, <2>1
  <2>2. CASE Side(kind) = -1
    BY <1>1, <2>2
  <2> QED
    BY <2>1, <2>2 DEF Side
<1>3. net' \in [Sym -> Int] /\ working' \in [Sym -> Int]
  <2> DEFINE d == Side(kind) * o.done
             r == Side(kind) * o.rest
  <2>1. net' = [net EXCEPT ![s] = @ + d] /\ working' = [working EXCEPT ![s] = @ + r]
    BY DEF Trades
  <2>2. d \in Int /\ r \in Int
    BY <1>2
  <2> HIDE DEF d, r
  <2>3. net \in [Sym -> Int] /\ working \in [Sym -> Int]
    BY DEF TypeOK
  <2> QED
    BY <2>1, <2>2, <2>3
<1>4. slips' \in 0..MaxSlips
  BY <1>1, LiveExitsAssumption DEF Trades, TypeOK
<1> QED
  BY <1>3, <1>4

\* Replacing one leg keeps a sequence of legs one.
LEMMA LegReplaced ==
  ASSUME NEW ps, Legs(ps), NEW i \in DOMAIN ps, NEW p \in Leg, p.left <= p.qty
  PROVE  /\ Legs([ps EXCEPT ![i] = p])
         /\ Len([ps EXCEPT ![i] = p]) = Len(ps)
         /\ DOMAIN [ps EXCEPT ![i] = p] = DOMAIN ps
         /\ \A k \in DOMAIN ps : [ps EXCEPT ![i] = p][k] = IF k = i THEN p ELSE ps[k]
  BY DEF Legs

\* So does adding one.
LEMMA LegAdded ==
  ASSUME NEW ps, Legs(ps), NEW p \in Leg, p.left <= p.qty
  PROVE  /\ Legs(Append(ps, p))
         /\ Len(Append(ps, p)) = Len(ps) + 1
         /\ DOMAIN Append(ps, p) = 1..Len(ps) + 1
         /\ \A k \in DOMAIN ps : Append(ps, p)[k] = ps[k]
         /\ Append(ps, p)[Len(ps) + 1] = p
  BY DEF Legs

\* The answer to an exit order keeps a leg one, and covered.
LEMMA ExitKeepsLeg ==
  ASSUME NEW p \in Leg, p.left <= p.qty, NEW q \in Nat, q <= p.left,
         p.st = "CLOSED" => q = p.left, NEW ok
  PROVE  /\ AfterExit(p, q, ok) \in Leg
         /\ AfterExit(p, q, ok).left <= AfterExit(p, q, ok).qty
         /\ Covered(AfterExit(p, q, ok))
<1>1. CASE ok
  <2>1. AfterExit(p, q, ok) = [p EXCEPT !.left = p.left - q]
    BY <1>1 DEF AfterExit
  <2> QED
    BY <2>1 DEF Leg, Covered
<1>2. CASE ~ok
  <2>1. AfterExit(p, q, ok) = [p EXCEPT !.pend = p.pend + q]
    BY <1>2 DEF AfterExit, Park
  <2> QED
    BY <2>1 DEF Leg, Covered
<1> QED
  BY <1>1, <1>2

\* So does the answer to a retry.
LEMMA RetryKeepsLeg ==
  ASSUME NEW p \in Leg, p.left <= p.qty, Covered(p)
  PROVE  /\ AfterRetry(p, p.pend) \in Leg
         /\ AfterRetry(p, p.pend).left <= AfterRetry(p, p.pend).qty
         /\ Covered(AfterRetry(p, p.pend))
<1> DEFINE l == IF p.left > p.pend THEN p.left - p.pend ELSE 0
<1>1. AfterRetry(p, p.pend) = [p EXCEPT !.pend = 0, !.left = l]
  BY Zenon DEF AfterRetry
<1>2. /\ l \in Nat /\ l <= p.left
      /\ p.live /\ p.st = "CLOSED" => l = 0
  BY DEF Leg, Covered
<1> HIDE DEF l
<1>3. PICK r \in Leg : r = [p EXCEPT !.pend = 0]
  BY DEF Leg
<1>4. /\ r.st = p.st /\ r.live = p.live /\ r.qty = p.qty /\ r.pend = 0
      /\ p.qty \in Nat /\ p.left \in Nat
  BY <1>3 DEF Leg
<1>5. AfterRetry(p, p.pend) = [r EXCEPT !.left = l]
  BY <1>1, <1>3
<1> QED
  BY <1>2, <1>4, <1>5 DEF Leg, Covered

\* Half of a quantity is a quantity.
LEMMA HalfIsNat == ASSUME NEW q \in Nat PROVE HalfOf(q) \in Nat
  BY DEF HalfOf

-----------------------------------------------------------------------------
\* In every reachable state legs, orders and account are typed, an order fits
\* the leg it is for, and nothing a closed leg still holds is unaccounted for
\* (ExitEngine._exit, _retry_pending_closes; LiveExecutor.close).
THEOREM LegsStayTyped == Spec => []Inv
<1>1. Init => Inv
  <2> SUFFICES ASSUME Init PROVE Inv
    OBVIOUS
  <2>1. Legs(<<>>) /\ Len(<<>>) = 0 /\ DOMAIN <<>> = {}
    BY DEF Legs
  <2>2. /\ positions = <<>> /\ saved = <<>> /\ job = NoJob /\ pc = "idle" /\ todo = {}
        /\ live \in BOOLEAN /\ eod \in BOOLEAN /\ excused \subseteq Sym
        /\ crashes = 0 /\ toggles = 0 /\ slips = 0
    BY Zenon DEF Init
  <2>5. net \in [Sym -> Int] /\ working \in [Sym -> Int]
    BY DEF Init
  <2>3. TypeOK
    BY <2>1, <2>2, <2>5, LiveExitsAssumption DEF TypeOK
  <2>4. JobPlace /\ JobFits /\ TodoParked /\ Parked
    BY <2>1, <2>2 DEF NoJob, JobPlace, JobFits, TodoParked, Parked, Idx
  <2> QED
    BY <2>3, <2>4 DEF Inv
<1>2. Inv /\ [Next]_vars => Inv'
  <2> SUFFICES ASSUME Inv, [Next]_vars PROVE Inv'
    OBVIOUS
  <2> USE LiveExitsAssumption
      DEF Inv, TypeOK, JobPlace, JobFits, TodoParked, Parked, Idx, NoJob, EntryJob, LegJob,
          Open, RetryQueue, Covered, memory, account, bounds
  <2>1. CASE SweepBegin
    BY <2>1 DEF SweepBegin
  <2>2. ASSUME NEW s \in Sym, NoSignal(s) PROVE Inv'
    BY <2>2 DEF NoSignal
  <2>3. ASSUME NEW s \in Sym, OpenPaper(s) PROVE Inv'
    <3>1. Position(s, FALSE, 0) \in Leg /\ Position(s, FALSE, 0).left <= Position(s, FALSE, 0).qty
          /\ ~Position(s, FALSE, 0).live
      BY DEF Position, Leg
    <3>2. positions' = Append(positions, Position(s, FALSE, 0)) /\ saved' = positions'
          /\ job = NoJob /\ job' = NoJob /\ pc = "sweep" /\ pc' = pc /\ todo' \subseteq todo
          /\ Len(positions) < MaxEntries
          /\ UNCHANGED <<live, account, eod, bounds, excused>>
      BY <2>3 DEF OpenPaper
    <3>3. /\ Legs(positions') /\ Len(positions') = Len(positions) + 1
          /\ DOMAIN positions' = 1..Len(positions) + 1
          /\ \A k \in Idx : positions'[k] = positions[k]
          /\ ~positions'[Len(positions) + 1].live
      BY <3>1, <3>2, LegAdded, ZenonT(40)
    <3>4. Len(positions) \in Nat /\ Idx = 1..Len(positions)
      BY DEF Legs
    <3>5. \A k \in Idx : Covered(positions[k])
      BY <3>2
    <3>6. \A k \in DOMAIN positions' : k \in Idx \/ k = Len(positions) + 1
      BY <3>3, <3>4
    <3>7. Parked'
      BY <3>2, <3>3, <3>5, <3>6, ZenonT(40)
    <3>8. TypeOK'
      <4>0. saved' = positions'
        BY <3>2
      <4>1. Len(positions') <= MaxEntries
        BY <3>2, <3>3, <3>4
      <4>2. todo' \subseteq Sym \cup (1..MaxEntries)
        BY <3>2
      <4> QED
        BY <3>2, <3>3, <4>0, <4>1, <4>2
    <3> QED
      BY <3>2, <3>7, <3>8
  <2>4. ASSUME NEW s \in Sym, OpenLiveLeg(s) PROVE Inv'
    BY <2>4 DEF OpenLiveLeg
  <2>5. CASE EntryAnswered
    <3>1. PICK o \in Outcomes(job.qty) :
            /\ Trades("entry", job.sym, o) /\ Explained(o, job.qty, job.sym)
            /\ IF o.ok THEN positions' = Append(positions, Position(job.sym, TRUE, o.told))
                            /\ saved' = positions'
                       ELSE UNCHANGED <<positions, saved>>
      BY <2>5 DEF EntryAnswered
    <3>2. /\ job.kind = "entry" /\ job' = NoJob /\ pc = "sweep" /\ Len(positions) < MaxEntries
          /\ UNCHANGED <<pc, todo, live, eod, crashes, toggles>>
          /\ job.sym \in Sym /\ job.qty \in Nat \ {0}
      BY <2>5 DEF EntryAnswered
    <3>3. o.told \in Nat
      BY <3>2, OutcomesFit
    <3>4. net' \in [Sym -> Int] /\ working' \in [Sym -> Int] /\ slips' \in 0..MaxSlips
          /\ excused' \subseteq Sym
      BY <3>1, <3>2, TradesFit DEF Explained
    <3>5. CASE o.ok
      <4> DEFINE p == Position(job.sym, TRUE, o.told)
      <4>1. p \in Leg /\ p.left <= p.qty /\ p.st = "OPEN"
        BY <3>2, <3>3 DEF Position, Leg
      <4>0. positions' = Append(positions, p)
        BY <3>1, <3>5
      <4> HIDE DEF p
      <4>2. /\ Legs(positions') /\ Len(positions') = Len(positions) + 1
            /\ DOMAIN positions' = 1..Len(positions) + 1
            /\ \A k \in Idx : positions'[k] = positions[k]
            /\ positions'[Len(positions) + 1].st = "OPEN"
        BY <4>0, <4>1, LegAdded
      <4>3. Len(positions) \in Nat /\ Idx = 1..Len(positions)
        BY DEF Legs
      <4>4. \A k \in Idx : Covered(positions[k])
        BY <3>2
      <4>5. \A k \in DOMAIN positions' : k \in Idx \/ k = Len(positions) + 1
        BY <4>2, <4>3
      <4>6. saved' = positions'
        BY <3>1, <3>5
      <4>7. Parked'
        BY <3>2, <4>2, <4>4, <4>5, <4>6
      <4>8. TypeOK'
        BY <3>2, <3>4, <4>2, <4>3, <4>6
      <4> QED
        BY <3>2, <4>7, <4>8
    <3> QED
      BY <3>1, <3>2, <3>4, <3>5
  <2>6. CASE SweepEnd
    BY <2>6 DEF SweepEnd, Legs
  <2>7. ASSUME NEW i \in Idx, Hold(i) PROVE Inv'
    BY <2>7 DEF Hold
  <2>8. ASSUME NEW i \in Idx, NEW st \in {"PARTIAL", "CLOSED"}, NEW w \in Nat,
               Exit(i, st, w), st = "CLOSED" => w = positions[i].left,
               pc = "update", job = NoJob
        PROVE  Inv'
    <3>0. Exit(i, st, w) /\ (st = "CLOSED" => w = positions[i].left)
          /\ pc = "update" /\ job = NoJob
      BY <2>8
    <3> DEFINE p == [positions[i] EXCEPT !.st = st]
               q == ExitShares(i, w)
    <3>1. positions[i] \in Leg /\ positions[i].left <= positions[i].qty
      BY DEF Legs
    <3>2. p \in Leg /\ p.left <= p.qty /\ p.left = positions[i].left
          /\ p.live = positions[i].live /\ p.st = st
      BY <3>1 DEF Leg
    <3>3. /\ q \in Nat /\ q <= positions[i].left
          /\ positions[i].live /\ st = "CLOSED" => q = positions[i].left
      BY <3>0, <3>1 DEF ExitShares, Leg
    <3>4. /\ positions' = [positions EXCEPT ![i] = p]
          /\ job' = IF q = 0 THEN NoJob
                    ELSE [kind |-> "exit", i |-> i, sym |-> positions[i].sym, qty |-> q, sent |-> live]
          /\ UNCHANGED <<pc, todo, saved, live, account, eod, bounds, excused>>
      BY <3>0, Zenon DEF Exit
    <3>5. /\ Legs(positions') /\ Len(positions') = Len(positions)
          /\ DOMAIN positions' = Idx
          /\ \A k \in Idx : positions'[k] = IF k = i THEN p ELSE positions[k]
      BY <3>2, <3>4, LegReplaced, ZenonT(40)
    <3>6. job' \in {NoJob} \cup LegJob'
      BY <3>1, <3>3, <3>4, <3>5 DEF Leg
    <3>7. Parked'
      <4>1. CASE q = 0
        <5>1. Covered(p)
          BY <3>1, <3>2, <3>3, <4>1 DEF Leg
        <5> QED
          BY <3>0, <3>4, <3>5, <4>1, <5>1
      <4>2. CASE q # 0
        BY <3>0, <3>4, <3>5, <4>2
      <4> QED
        BY <4>1, <4>2
    <3>8. JobFits' /\ JobPlace' /\ TodoParked'
      <4>1. CASE q = 0
        BY <3>0, <3>4, <4>1
      <4>2. CASE q # 0
        <5>1. job'.kind = "exit" /\ job'.i = i /\ job'.qty = q /\ positions'[i] = p
          BY <3>4, <3>5, <4>2
        <5>2. p.live
          BY <3>2, <4>2 DEF ExitShares
        <5> HIDE DEF p, q
        <5> QED
          BY <3>0, <3>2, <3>3, <3>4, <5>1, <5>2
      <4> QED
        BY <4>1, <4>2
    <3> QED
      BY <3>4, <3>5, <3>6, <3>7, <3>8
  <2>8a. ASSUME NEW i \in Idx, TargetOne(i) \/ CloseOut(i) PROVE Inv'
    <3>1. positions[i] \in Leg
      BY DEF Legs
    <3>2. CASE TargetOne(i)
      <4>1. HalfOf(positions[i].qty) \in Nat
        BY <3>1, HalfIsNat DEF Leg
      <4>2. Exit(i, "PARTIAL", HalfOf(positions[i].qty)) /\ pc = "update" /\ job = NoJob
        BY <3>2 DEF TargetOne
      <4> QED
        BY <2>8, <4>1, <4>2
    <3>3. CASE CloseOut(i)
      <4>1. positions[i].left \in Nat
        BY <3>1 DEF Leg
      <4>2. Exit(i, "CLOSED", positions[i].left) /\ pc = "update" /\ job = NoJob
        BY <3>3 DEF CloseOut
      <4> QED
        BY <2>8, <4>1, <4>2
    <3> QED
      BY <2>8a, <3>2, <3>3
  <2>9. CASE ExitAnswered
    <3>0. PICK i \in Idx : i = job.i
      BY <2>9 DEF ExitAnswered
    <3>1. PICK o \in Outcomes(job.qty) :
            /\ Trades("exit", job.sym, o) /\ Explained(o, job.qty, job.sym)
            /\ positions' = [positions EXCEPT ![i] = AfterExit(positions[i], job.qty, o.ok)]
      BY <2>9, <3>0 DEF ExitAnswered
    <3>2. /\ job.kind = "exit" /\ job' = NoJob /\ pc = "update" /\ i = job.i
          /\ UNCHANGED <<pc, todo, saved, live, eod, crashes, toggles>>
          /\ job.sym \in Sym /\ job.qty \in Nat \ {0}
      BY <2>9, <3>0 DEF ExitAnswered
    <3>4. net' \in [Sym -> Int] /\ working' \in [Sym -> Int] /\ slips' \in 0..MaxSlips
          /\ excused' \subseteq Sym
      BY <3>1, <3>2, TradesFit DEF Explained
    <3>5. positions[i] \in Leg /\ positions[i].left <= positions[i].qty
      BY <3>2 DEF Legs
    <3>6. PICK p \in Leg : p.left <= p.qty /\ Covered(p) /\ positions' = [positions EXCEPT ![i] = p]
      BY <3>1, <3>2, <3>5, ExitKeepsLeg
    <3>7. /\ Legs(positions') /\ Len(positions') = Len(positions)
          /\ DOMAIN positions' = Idx
          /\ \A k \in Idx : positions'[k] = IF k = i THEN p ELSE positions[k]
      BY <3>6, LegReplaced
    <3>8. Parked'
      BY <3>2, <3>6, <3>7
    <3> QED
      BY <3>2, <3>4, <3>7, <3>8
  <2>10. CASE UpdateEnd
    BY <2>10 DEF UpdateEnd, Legs
  <2>11. ASSUME NEW i \in Idx, Retry(i) PROVE Inv'
    <3>1. positions[i] \in Leg
      BY DEF Legs
    <3> QED
      BY <2>11, <3>1 DEF Retry, Leg
  <2>12. CASE RetryAnswered
    <3>0. PICK i \in Idx : i = job.i
      BY <2>12 DEF RetryAnswered
    <3>1. PICK o \in Outcomes(job.qty) :
            /\ Trades("retry", job.sym, o) /\ Explained(o, job.qty, job.sym)
            /\ positions' = IF o.ok THEN [positions EXCEPT ![i] = AfterRetry(positions[i], job.qty)]
                            ELSE positions
      BY <2>12, <3>0 DEF RetryAnswered
    <3>2. /\ job.kind = "retry" /\ job' = NoJob /\ pc = "retry" /\ i = job.i /\ i \notin todo
          /\ UNCHANGED <<pc, todo, saved, live, eod, crashes, toggles>>
          /\ job.sym \in Sym /\ job.qty \in Nat \ {0}
      BY <2>12, <3>0 DEF RetryAnswered
    <3>4. net' \in [Sym -> Int] /\ working' \in [Sym -> Int] /\ slips' \in 0..MaxSlips
          /\ excused' \subseteq Sym
      BY <3>1, <3>2, TradesFit DEF Explained
    <3>5. CASE o.ok
      <4>1. positions[i] \in Leg /\ positions[i].left <= positions[i].qty /\ Covered(positions[i])
        BY <3>2 DEF Legs
      <4>2. PICK p \in Leg : p.left <= p.qty /\ Covered(p) /\ positions' = [positions EXCEPT ![i] = p]
        BY <3>1, <3>2, <3>5, <4>1, RetryKeepsLeg
      <4>3. /\ Legs(positions') /\ Len(positions') = Len(positions)
            /\ DOMAIN positions' = Idx
            /\ \A k \in Idx : positions'[k] = IF k = i THEN p ELSE positions[k]
        BY <4>2, LegReplaced
      <4>4. Parked' /\ TodoParked'
        BY <3>2, <4>2, <4>3
      <4> QED
        BY <3>2, <3>4, <4>3, <4>4
    <3> QED
      BY <3>1, <3>2, <3>4, <3>5
  <2>13. CASE Save
    BY <2>13 DEF Save
  <2>14. CASE SetMode
    BY <2>14 DEF SetMode
  <2>15. CASE EndOfDay
    BY <2>15 DEF EndOfDay
  <2>16. ASSUME NEW s \in Sym, WorkingTrades(s) PROVE Inv'
    BY <2>16 DEF WorkingTrades
  <2>17. CASE Crash
    <3>1. /\ job' = NoJob /\ todo' = {} /\ pc' = "off" /\ positions' = <<>>
          /\ UNCHANGED <<saved, live, eod, toggles>> /\ crashes' \in 0..MaxCrashes
      BY <2>17 DEF Crash
    <3>2. net' \in [Sym -> Int] /\ working' \in [Sym -> Int] /\ slips' \in 0..MaxSlips
          /\ excused' \subseteq Sym
      <4>1. CASE job = NoJob
        BY <2>17, <4>1 DEF Crash, Unsaved
      <4>2. CASE job # NoJob
        <5>1. PICK o \in Outcomes(job.qty) :
                Trades(job.kind, job.sym, o) /\ excused' = excused \cup Unsaved \cup {job.sym}
          BY <2>17, <4>2 DEF Crash
        <5>2. job.sym \in Sym /\ job.qty \in Nat \ {0}
          BY <4>2
        <5> QED
          BY <5>1, <5>2, TradesFit DEF Unsaved
      <4> QED
        BY <4>1, <4>2
    <3> QED
      BY <3>1, <3>2 DEF Legs
  <2>18. CASE Restart
    BY <2>18 DEF Restart
  <2>19. CASE UNCHANGED vars
    BY <2>19 DEF vars
  <2> QED
    BY <2>1, <2>2, <2>3, <2>4, <2>5, <2>6, <2>7, <2>8a, <2>9, <2>10, <2>11, <2>12, <2>13,
       <2>14, <2>15, <2>16, <2>17, <2>18, <2>19 DEF Next, Engine, Scan, Visit
<1> QED
  BY <1>1, <1>2, PTL DEF Spec

\* No failed exit is dropped, whatever the broker answers, however often the
\* mode is switched and the process dies (ExitEngine._exit, line 857).
THEOREM NothingIsDropped == Spec => []NothingDropped
<1>1. Inv => NothingDropped
  BY DEF Inv, Parked, Covered, NothingDropped, Open, Idx, NoJob
<1> QED
  BY <1>1, LegsStayTyped, PTL

-----------------------------------------------------------------------------
(* The account                                                             *)

\* What the legs of a symbol come to is a sum over finitely many of them.
LEMMA LegsOfASymbol ==
  ASSUME NEW ps, Legs(ps), NEW s
  PROVE  /\ IsFiniteSet({i \in DOMAIN ps : ps[i].sym = s})
         /\ \A i \in DOMAIN ps : ps[i] \in Leg /\ ps[i].left \in Int
<1>1. Len(ps) \in Nat /\ DOMAIN ps = 1..Len(ps) /\ \A i \in DOMAIN ps : ps[i] \in Leg
  BY DEF Legs
<1>2. IsFiniteSet(DOMAIN ps)
  BY <1>1, FS_Interval
<1> QED BY <1>1, <1>2, FS_Subset DEF Leg

LEMMA TrackedAdded ==
  ASSUME NEW ps, Legs(ps), NEW p \in Leg, p.left <= p.qty, NEW s
  PROVE  Tracked(Append(ps, p), s) = Tracked(ps, s) + (IF p.sym = s THEN p.left ELSE 0)
<1> DEFINE qs == Append(ps, p)
<1> DEFINE n == Len(ps) + 1
<1> DEFINE S == {i \in DOMAIN ps : ps[i].sym = s}
<1> DEFINE T == {i \in DOMAIN qs : qs[i].sym = s}
<1> DEFINE f == [i \in DOMAIN ps |-> ps[i].left]
<1> DEFINE g == [i \in DOMAIN qs |-> qs[i].left]
<1>1. /\ Len(ps) \in Nat /\ DOMAIN ps = 1..Len(ps) /\ DOMAIN qs = 1..n
      /\ \A k \in DOMAIN ps : qs[k] = ps[k]
      /\ qs[n] = p
  BY LegAdded DEF Legs
<1>2. IsFiniteSet(S) /\ IsFiniteSet(T) /\ \A i \in T : qs[i].left \in Int
  <2>1. IsFiniteSet(S)
    BY LegsOfASymbol
  <2>2. Legs(qs)
    BY LegAdded
  <2> HIDE DEF qs
  <2> QED BY <2>1, <2>2, LegsOfASymbol
<1> HIDE DEF qs
<1>3. n \notin S /\ T = IF p.sym = s THEN S \cup {n} ELSE S
  <2>1. \A i : i \in T <=> i \in S \/ (i = n /\ p.sym = s)
    BY <1>1
  <2> QED BY <1>1, <2>1
<1>4. \A i \in S : f[i] = g[i] /\ g[i] \in Int
  BY <1>1, <1>2, <1>3
<1>5. SumFunctionOnSet(f, S) = SumFunctionOnSet(g, S)
  <2> HIDE DEF f, g, S
  <2> QED BY <1>2, <1>4, SumSame
<1>6. g[n] = p.left /\ p.left \in Int
  BY <1>1 DEF Leg
<1>7. SumFunctionOnSet(g, T) = SumFunctionOnSet(g, S) + (IF p.sym = s THEN p.left ELSE 0)
  <2>1. CASE p.sym = s
    <3>1. \A y \in S \cup {n} : g[y] \in Int
      BY <1>4, <1>6
    <3> HIDE DEF f, g, S, T, n
    <3>2. SumFunctionOnSet(g, S \cup {n}) = g[n] + SumFunctionOnSet(g, S)
      BY <1>2, <1>3, <3>1, SumAdd
    <3>3. SumFunctionOnSet(g, S) \in Int
      BY <1>2, <1>4, SumIsInt
    <3> QED BY <1>3, <1>6, <2>1, <3>2, <3>3
  <2>2. CASE p.sym # s
    <3> HIDE DEF f, g, S, T, n
    <3>1. SumFunctionOnSet(g, S) \in Int
      BY <1>2, <1>4, SumIsInt
    <3> QED BY <1>3, <2>2, <3>1
  <2> QED BY <2>1, <2>2
<1>8. Tracked(ps, s) = SumFunctionOnSet(f, S) /\ Tracked(qs, s) = SumFunctionOnSet(g, T)
  BY DEF Tracked
<1> QED BY <1>5, <1>7, <1>8 DEF qs

LEMMA TrackedReplaced ==
  ASSUME NEW ps, Legs(ps), NEW i \in DOMAIN ps, NEW p \in Leg, p.left <= p.qty, p.sym = ps[i].sym, NEW s
  PROVE  Tracked([ps EXCEPT ![i] = p], s) =
           Tracked(ps, s) + (IF p.sym = s THEN p.left - ps[i].left ELSE 0)
<1> DEFINE qs == [ps EXCEPT ![i] = p]
<1> DEFINE S == {k \in DOMAIN ps : ps[k].sym = s}
<1> DEFINE T == {k \in DOMAIN qs : qs[k].sym = s}
<1> DEFINE f == [k \in DOMAIN ps |-> ps[k].left]
<1> DEFINE g == [k \in DOMAIN qs |-> qs[k].left]
<1>1. DOMAIN qs = DOMAIN ps /\ \A k \in DOMAIN ps : qs[k] = IF k = i THEN p ELSE ps[k]
  BY LegReplaced
<1>2. IsFiniteSet(S) /\ \A k \in DOMAIN ps : ps[k].left \in Int
  BY LegsOfASymbol
<1> HIDE DEF qs
<1>3. T = S
  <2>1. \A k : k \in T <=> k \in S
    BY <1>1
  <2> QED BY <2>1
<1>4. p.left \in Int
  BY DEF Leg
<1>5. \A k \in S : f[k] \in Int /\ g[k] \in Int /\ (k # i => f[k] = g[k])
  BY <1>1, <1>2, <1>4
<1>6. f[i] = ps[i].left /\ g[i] = p.left /\ (i \in S <=> p.sym = s)
  BY <1>1
<1>7. Tracked(ps, s) = SumFunctionOnSet(f, S) /\ Tracked(qs, s) = SumFunctionOnSet(g, S)
  BY <1>3 DEF Tracked
<1> HIDE DEF f, g, S, T
<1>8. SumFunctionOnSet(f, S) \in Int
  BY <1>2, <1>5, SumIsInt
<1>9. CASE p.sym = s
  <2>1. SumFunctionOnSet(g, S) = SumFunctionOnSet(f, S) - f[i] + g[i]
    <3>1. i \in S /\ (\A y \in S : f[y] \in Int /\ g[y] \in Int) /\ (\A y \in S \ {i} : f[y] = g[y])
      BY <1>5, <1>6, <1>9
    <3> QED BY <1>2, <3>1, SumChange
  <2>2. ps[i].left \in Int
    BY <1>2
  <2> QED BY <1>4, <1>6, <1>7, <1>8, <1>9, <2>1, <2>2 DEF qs
<1>10. CASE p.sym # s
  <2>1. SumFunctionOnSet(f, S) = SumFunctionOnSet(g, S)
    BY <1>2, <1>5, <1>6, <1>10, SumSame
  <2> QED BY <1>7, <1>8, <1>10, <2>1 DEF qs
<1> QED BY <1>9, <1>10

LEMMA TrackedIsInt ==
  ASSUME NEW ps, Legs(ps), NEW s
  PROVE  Tracked(ps, s) \in Int
<1> DEFINE S == {i \in DOMAIN ps : ps[i].sym = s}
<1> DEFINE f == [i \in DOMAIN ps |-> ps[i].left]
<1>1. IsFiniteSet(S) /\ \A i \in S : f[i] \in Int
  BY LegsOfASymbol
<1>2. Tracked(ps, s) = SumFunctionOnSet(f, S)
  BY DEF Tracked
<1> HIDE DEF f, S
<1> QED BY <1>1, <1>2, SumIsInt

\* the legs that count: what is in memory, or, after a death, in the file
BookKept == IF pc = "off" THEN saved ELSE positions
\* Through every order the account holds what the legs say, and an order is about
\* the symbol of its leg.
AccountInv ==
  /\ \A s \in Sym \ excused : working[s] = 0 /\ net[s] = Tracked(BookKept, s)
  /\ job.kind \in {"exit", "retry"} => job.sym = positions[job.i].sym

\* An answer moves the account of its own symbol only, and an honest one that
\* leaves nothing to explain by what it says.
LEMMA AnswerMoves ==
  ASSUME TypeOK, job.sym \in Sym, job.qty \in Nat \ {0}, NEW kind, NEW o \in Outcomes(job.qty),
         Trades(kind, job.sym, o), NEW s \in Sym
  PROVE  /\ s # job.sym => net'[s] = net[s] /\ working'[s] = working[s]
         /\ o \in Honest(job.qty) =>
              /\ working'[job.sym] = working[job.sym]
              /\ net'[job.sym] = net[job.sym] + (IF o.ok THEN Side(kind) * job.qty ELSE 0)
              /\ o.ok => o.told = job.qty
<1>1. o.done \in Int /\ o.rest \in Int
  BY OutcomesFit
<1>2. Side(kind) \in {1, -1}
  BY DEF Side
<1> DEFINE d == Side(kind) * o.done
<1> DEFINE r == Side(kind) * o.rest
<1>3. d \in Int /\ r \in Int
  BY <1>1, <1>2
<1>4. net' = [net EXCEPT ![job.sym] = @ + d] /\ working' = [working EXCEPT ![job.sym] = @ + r]
  BY DEF Trades
<1>5. ASSUME o \in Honest(job.qty)
      PROVE  r = 0 /\ d = (IF o.ok THEN Side(kind) * job.qty ELSE 0) /\ (o.ok => o.told = job.qty)
  <2>1. o = Outcome(TRUE, job.qty, job.qty, 0) \/ o = Outcome(FALSE, 0, 0, 0)
    BY <1>5, Zenon DEF Honest, Failed
  <2> QED BY <1>2, <2>1 DEF Outcome
<1> HIDE DEF d, r
<1> QED BY <1>3, <1>4, <1>5 DEF TypeOK

\* Every step keeps account and legs together.
LEMMA AccountStep == Inv /\ Inv' /\ AccountInv /\ [Next]_vars => AccountInv'
<1> SUFFICES ASSUME Inv, Inv', AccountInv, [Next]_vars PROVE AccountInv'
  OBVIOUS
<1>0. TypeOK /\ JobPlace /\ JobFits /\ Legs(positions) /\ Legs(saved)
  BY DEF Inv, TypeOK
<1>1. ASSUME UNCHANGED <<account, excused>>, \A s \in Sym : Tracked(BookKept', s) = Tracked(BookKept, s),
             job'.kind \in {"exit", "retry"} => job'.sym = positions'[job'.i].sym
      PROVE  AccountInv'
  BY <1>1 DEF AccountInv, account
<1>2. ASSUME UNCHANGED <<account, excused>>, BookKept' = BookKept,
             job'.kind \in {"exit", "retry"} => job'.sym = positions'[job'.i].sym
      PROVE  AccountInv'
  <2>1. \A s \in Sym : Tracked(BookKept', s) = Tracked(BookKept, s)
    BY <1>2
  <2> QED BY <1>1, <1>2, <2>1
<1>3. NoJob.kind = "none"
  BY DEF NoJob
<1>4. CASE SweepBegin \/ SweepEnd \/ UpdateEnd \/ Save \/ EndOfDay \/ Restart \/ UNCHANGED vars \/ SetMode
  <2>1. UNCHANGED <<account, excused, job>>
    BY <1>4 DEF SweepBegin, SweepEnd, UpdateEnd, Save, EndOfDay, Restart, SetMode, vars, memory
  <2>2. BookKept' = BookKept /\ (UNCHANGED positions \/ job = NoJob)
    BY <1>0, <1>4 DEF SweepBegin, SweepEnd, UpdateEnd, Save, EndOfDay, Restart, SetMode, vars, memory, BookKept,
                      Inv, TypeOK, JobPlace, EntryJob, LegJob, NoJob
  <2>3. job'.kind \in {"exit", "retry"} => job'.sym = positions'[job'.i].sym
    BY <1>3, <2>1, <2>2 DEF AccountInv
  <2> QED BY <1>2, <2>1, <2>2, <2>3
<1>5. ASSUME NEW s \in Sym, NoSignal(s) \/ OpenLiveLeg(s) PROVE AccountInv'
  <2>1. UNCHANGED <<account, excused, positions, pc, saved>> /\ (job' = NoJob \/ job'.kind = "entry")
    BY <1>5 DEF NoSignal, OpenLiveLeg
  <2> QED BY <1>2, <1>3, <2>1 DEF BookKept
<1>6. ASSUME NEW i \in Idx, Hold(i) \/ Retry(i) PROVE AccountInv'
  <2>1. /\ UNCHANGED <<account, excused, positions, pc, saved>>
        /\ job' = NoJob \/ (job'.sym = positions[i].sym /\ job'.i = i)
    BY <1>6 DEF Hold, Retry
  <2> QED BY <1>2, <1>3, <2>1 DEF BookKept
<1>7. ASSUME NEW s \in Sym, OpenPaper(s) PROVE AccountInv'
  <2> DEFINE p == Position(s, FALSE, 0)
  <2>1. p \in Leg /\ p.left = 0 /\ p.left <= p.qty
    BY DEF Position, Leg
  <2>2. /\ pc = "sweep" /\ pc' = pc /\ positions' = Append(positions, p) /\ job' = NoJob
        /\ UNCHANGED <<account, excused>>
    BY <1>7 DEF OpenPaper
  <2> HIDE DEF p
  <2>3. ASSUME NEW t \in Sym PROVE Tracked(BookKept', t) = Tracked(BookKept, t)
    <3>1. Tracked(Append(positions, p), t) = Tracked(positions, t) + 0
      BY <1>0, <2>1, TrackedAdded
    <3>2. Tracked(positions, t) \in Int
      BY <1>0, TrackedIsInt
    <3> QED BY <2>2, <3>1, <3>2 DEF BookKept
  <2> QED BY <1>1, <1>3, <2>2, <2>3
<1>8. CASE EntryAnswered
  <2>1. PICK o \in Outcomes(job.qty) :
          /\ Trades("entry", job.sym, o) /\ Explained(o, job.qty, job.sym)
          /\ positions' = IF o.ok THEN Append(positions, Position(job.sym, TRUE, o.told)) ELSE positions
    BY <1>8 DEF EntryAnswered
  <2>2. /\ job.kind = "entry" /\ job' = NoJob /\ pc = "sweep" /\ pc' = pc
        /\ job.sym \in Sym /\ job.qty \in Nat \ {0}
    BY <1>0, <1>8 DEF EntryAnswered, TypeOK, EntryJob, LegJob, NoJob, JobPlace
  <2>3. ASSUME NEW s \in Sym \ excused' PROVE working'[s] = 0 /\ net'[s] = Tracked(positions', s)
    <3>1. s \notin excused /\ working[s] = 0 /\ net[s] = Tracked(positions, s) /\ Tracked(positions, s) \in Int
      BY <1>0, <2>1, <2>2, <2>3, TrackedIsInt DEF Explained, AccountInv, BookKept
    <3>2. o.told \in Nat
      BY <2>2, OutcomesFit
    <3>3. Tracked(positions', s) = Tracked(positions, s) + (IF o.ok /\ job.sym = s THEN o.told ELSE 0)
      <4> DEFINE p == Position(job.sym, TRUE, o.told)
      <4>1. p \in Leg /\ p.left = o.told /\ p.left <= p.qty /\ p.sym = job.sym
        BY <2>2, <3>2 DEF Position, Leg
      <4>2. o.ok => positions' = Append(positions, p)
        BY <2>1
      <4> HIDE DEF p
      <4>3. Tracked(Append(positions, p), s) = Tracked(positions, s) + (IF p.sym = s THEN p.left ELSE 0)
        BY <1>0, <4>1, TrackedAdded
      <4>4. CASE o.ok
        BY <4>1, <4>2, <4>3, <4>4
      <4>5. CASE ~o.ok
        <5>1. positions' = positions
          BY <2>1, <4>5
        <5> QED BY <3>1, <4>5, <5>1
      <4> QED BY <4>4, <4>5
    <3>4. CASE s # job.sym
      <4>1. net'[s] = net[s] /\ working'[s] = working[s]
        BY <1>0, <2>1, <2>2, <3>4, AnswerMoves
      <4>2. Tracked(positions', s) = Tracked(positions, s)
        BY <3>1, <3>3, <3>4
      <4> QED BY <3>1, <4>1, <4>2
    <3>5. CASE s = job.sym
      <4>1. o \in Honest(job.qty)
        BY <2>1, <2>3, <3>5 DEF Explained
      <4>2. /\ working'[s] = working[s] /\ (o.ok => o.told = job.qty)
            /\ net'[s] = net[s] + (IF o.ok THEN Side("entry") * job.qty ELSE 0)
        BY <1>0, <2>1, <2>2, <3>5, <4>1, AnswerMoves
      <4>3. Side("entry") * job.qty = job.qty /\ job.qty \in Int
        BY <2>2 DEF Side
      <4>4. CASE o.ok
        BY <3>1, <3>3, <3>5, <4>2, <4>3, <4>4
      <4>5. CASE ~o.ok
        BY <3>1, <3>3, <4>2, <4>5
      <4> QED BY <4>4, <4>5
    <3> QED BY <3>4, <3>5
  <2> QED BY <1>3, <2>2, <2>3 DEF AccountInv, BookKept
<1>9. ASSUME NEW i \in Idx, TargetOne(i) \/ CloseOut(i) PROVE AccountInv'
  <2>1. PICK st \in {"PARTIAL", "CLOSED"} :
          /\ positions' = [positions EXCEPT ![i].st = st] /\ pc = "update" /\ pc' = pc
          /\ UNCHANGED <<account, excused>> /\ (job' = NoJob \/ (job'.sym = positions[i].sym /\ job'.i = i))
    BY <1>9 DEF TargetOne, CloseOut, Exit
  <2> DEFINE p == [positions[i] EXCEPT !.st = st]
  <2>2. positions[i] \in Leg /\ positions[i].left <= positions[i].qty
    BY <1>0 DEF Legs, Idx
  <2>3. p \in Leg /\ p.left = positions[i].left /\ p.left <= p.qty /\ p.sym = positions[i].sym
    BY <2>2 DEF Leg
  <2>4. positions' = [positions EXCEPT ![i] = p]
    BY <2>1
  <2> HIDE DEF p
  <2>5. ASSUME NEW t \in Sym PROVE Tracked(BookKept', t) = Tracked(BookKept, t)
    <3>1. Tracked([positions EXCEPT ![i] = p], t) =
            Tracked(positions, t) + (IF p.sym = t THEN p.left - positions[i].left ELSE 0)
      BY <1>0, <2>3, TrackedReplaced DEF Idx
    <3>2. Tracked(positions, t) \in Int /\ p.left - positions[i].left = 0
      BY <1>0, <2>2, <2>3, TrackedIsInt DEF Leg
    <3>3. Tracked(positions', t) = Tracked(positions, t)
      BY <2>4, <3>1, <3>2
    <3> QED BY <2>1, <3>3 DEF BookKept
  <2>6. positions'[i] = p
    BY <2>4 DEF Idx
  <2> QED BY <1>1, <1>3, <2>1, <2>3, <2>5, <2>6
<1>10. CASE ExitAnswered \/ RetryAnswered
  <2>1. /\ job.kind \in {"exit", "retry"} /\ job' = NoJob /\ pc # "off" /\ pc' = pc
        /\ job.sym \in Sym /\ job.qty \in Nat \ {0} /\ job.i \in Idx
    BY <1>0, <1>10 DEF ExitAnswered, RetryAnswered, TypeOK, EntryJob, LegJob, NoJob, JobPlace
  <2>2. PICK i \in Idx : i = job.i
    BY <2>1
  <2>3. positions[i] \in Leg /\ positions[i].left <= positions[i].qty /\ positions[i].left \in Int
    <3>1. positions[i] \in Leg /\ positions[i].left <= positions[i].qty
      BY <1>0 DEF Legs, Idx
    <3> QED BY <3>1 DEF Leg
  <2>4. PICK o \in Outcomes(job.qty) :
          /\ Trades(job.kind, job.sym, o) /\ Explained(o, job.qty, job.sym)
          /\ \/ positions' = [positions EXCEPT ![i] = AfterExit(positions[i], job.qty, o.ok)]
                /\ job.qty <= positions[i].left
             \/ positions' = IF o.ok THEN [positions EXCEPT ![i] = AfterRetry(positions[i], job.qty)] ELSE positions
    <3>1. CASE ExitAnswered
      BY <1>0, <2>2, <3>1 DEF ExitAnswered, JobFits
    <3>2. CASE RetryAnswered
      BY <2>2, <3>2 DEF RetryAnswered
    <3> QED BY <1>10, <3>1, <3>2
  \* the answer changes what is left of the leg, and nothing else that counts
  <2>5. PICK p \in Leg :
          /\ p.left <= p.qty /\ p.sym = positions[i].sym
          /\ positions' = [positions EXCEPT ![i] = p]
          /\ job.qty <= positions[i].left => p.left = positions[i].left - (IF o.ok THEN job.qty ELSE 0)
          /\ ~o.ok => p.left = positions[i].left
    <3>0. positions[i].pend + job.qty \in Nat /\ job.qty \in Nat
      BY <2>1, <2>3 DEF Leg
    <3>1. CASE ~o.ok /\ positions' = [positions EXCEPT ![i] = Park(positions[i], job.qty)]
      <4> DEFINE p == [positions[i] EXCEPT !.pend = positions[i].pend + job.qty]
      <4>1. p \in Leg /\ p.left = positions[i].left /\ p.sym = positions[i].sym /\ p.left <= p.qty
        BY <2>3, <3>0 DEF Leg
      <4>2. positions' = [positions EXCEPT ![i] = p]
        BY <3>1 DEF Park
      <4> HIDE DEF p
      <4>3. positions[i].left = positions[i].left - 0
        BY <2>3
      <4> QED BY <3>1, <4>1, <4>2, <4>3
    <3>2. CASE ~o.ok /\ positions' = positions
      <4>1. positions = [positions EXCEPT ![i] = positions[i]]
        <5>1. positions = [j \in DOMAIN positions |-> positions[j]]
          <6>1. positions \in Seq(Leg)
            BY <1>0, Zenon DEF Legs
          <6>2. positions \in [1..Len(positions) -> Leg]
            BY <6>1
          <6> QED BY <6>2, Zenon
        <5> QED BY <5>1, Zenon
      <4>2. positions' = [positions EXCEPT ![i] = positions[i]]
        BY <3>2, <4>1, Zenon
      <4>3. positions[i].left = positions[i].left - 0
        BY <2>3
      <4> QED BY <2>3, <3>2, <4>2, <4>3
    <3>3. CASE o.ok /\ job.qty <= positions[i].left
               /\ positions' = [positions EXCEPT ![i] = AfterExit(positions[i], job.qty, o.ok)]
      <4> DEFINE p == [positions[i] EXCEPT !.left = positions[i].left - job.qty]
      <4>1. /\ p \in Leg /\ p.left = positions[i].left - job.qty /\ p.sym = positions[i].sym
            /\ p.left <= p.qty
        BY <2>3, <3>0, <3>3 DEF Leg
      <4>2. positions' = [positions EXCEPT ![i] = p]
        BY <3>3 DEF AfterExit
      <4> QED BY <3>3, <4>1, <4>2
    <3>4. CASE o.ok /\ positions' = [positions EXCEPT ![i] = AfterRetry(positions[i], job.qty)]
      <4> DEFINE l == IF positions[i].left > job.qty THEN positions[i].left - job.qty ELSE 0
      <4>1. /\ l \in Nat /\ l <= positions[i].left
            /\ job.qty <= positions[i].left => l = positions[i].left - job.qty
        BY <2>3, <3>0 DEF Leg
      <4>2. positions' = [positions EXCEPT ![i] = [positions[i] EXCEPT !.pend = 0, !.left = l]]
        BY <3>4, Zenon DEF AfterRetry
      <4> HIDE DEF l
      <4>3. PICK r \in Leg : r = [positions[i] EXCEPT !.pend = 0]
        BY <2>3 DEF Leg
      <4>4. r.left = positions[i].left /\ r.sym = positions[i].sym /\ r.qty = positions[i].qty
        BY <2>3, <4>3 DEF Leg
      <4> DEFINE p == [r EXCEPT !.left = l]
      <4>5. p \in Leg /\ p.left = l /\ p.sym = r.sym /\ p.qty = r.qty
        BY <4>1 DEF Leg
      <4>6. positions' = [positions EXCEPT ![i] = p]
        BY <4>2, <4>3
      <4>7. p.left <= p.qty
        BY <2>3, <4>1, <4>4, <4>5 DEF Leg
      <4> HIDE DEF p
      <4> QED BY <3>4, <4>1, <4>4, <4>5, <4>6, <4>7
    <3> QED BY <2>4, <3>1, <3>2, <3>3, <3>4 DEF AfterExit
  <2>6. positions[i].sym = job.sym /\ p.left \in Int /\ positions[i].left \in Int
    BY <2>1, <2>2, <2>3 DEF AccountInv, Leg
  <2>7. ASSUME NEW s \in Sym \ excused' PROVE working'[s] = 0 /\ net'[s] = Tracked(positions', s)
    <3>1. s \notin excused /\ working[s] = 0 /\ net[s] = Tracked(positions, s) /\ Tracked(positions, s) \in Int
      BY <1>0, <2>1, <2>4, <2>7, TrackedIsInt DEF Explained, AccountInv, BookKept
    <3>2. Tracked([positions EXCEPT ![i] = p], s) =
            Tracked(positions, s) + (IF p.sym = s THEN p.left - positions[i].left ELSE 0)
      <4>1. i \in DOMAIN positions /\ p \in Leg /\ p.left <= p.qty /\ p.sym = positions[i].sym
        BY <2>5 DEF Idx
      <4> QED BY <1>0, <4>1, TrackedReplaced
    <3>3. CASE s # job.sym
      <4>1. net'[s] = net[s] /\ working'[s] = working[s]
        BY <1>0, <2>1, <2>4, <3>3, AnswerMoves
      <4>2. Tracked(positions', s) = Tracked(positions, s)
        BY <2>5, <2>6, <3>1, <3>2, <3>3
      <4> QED BY <3>1, <4>1, <4>2
    <3>4. CASE s = job.sym
      <4>1. o \in Honest(job.qty) /\ (job.qty <= positions[i].left \/ ~o.ok)
        BY <2>1, <2>2, <2>4, <2>7, <3>4 DEF Explained
      <4>2. /\ working'[s] = working[s]
            /\ net'[s] = net[s] + (IF o.ok THEN Side(job.kind) * job.qty ELSE 0)
        BY <1>0, <2>1, <2>4, <3>4, <4>1, AnswerMoves
      <4>3. Side(job.kind) * job.qty = -job.qty /\ job.qty \in Int
        BY <2>1 DEF Side
      <4>4. p.left - positions[i].left = IF o.ok THEN -job.qty ELSE 0
        BY <2>5, <2>6, <4>1, <4>3
      <4>5. Tracked(positions', s) = Tracked(positions, s) + (p.left - positions[i].left)
        BY <2>5, <2>6, <3>2, <3>4
      <4>6. net'[s] = net[s] + (IF o.ok THEN -job.qty ELSE 0)
        BY <4>2, <4>3
      <4> QED BY <3>1, <4>2, <4>4, <4>5, <4>6
    <3> QED BY <3>3, <3>4
  <2> QED BY <1>3, <2>1, <2>7 DEF AccountInv, BookKept
<1>11. ASSUME NEW s \in Sym, WorkingTrades(s) PROVE AccountInv'
  <2>1. /\ working[s] # 0 /\ UNCHANGED <<memory, saved, excused>>
        /\ \A t \in Sym \ {s} : net'[t] = net[t] /\ working'[t] = working[t]
    BY <1>0, <1>11 DEF WorkingTrades, TypeOK
  <2>2. s \in excused
    BY <2>1 DEF AccountInv
  <2> QED BY <2>1, <2>2 DEF AccountInv, BookKept, memory
<1>12. CASE Crash
  <2>1. /\ pc # "off" /\ pc' = "off" /\ saved' = saved /\ job' = NoJob /\ Unsaved \subseteq excused'
        /\ excused \subseteq excused'
    BY <1>12 DEF Crash
  <2>2. ASSUME NEW s \in Sym \ excused' PROVE working'[s] = 0 /\ net'[s] = Tracked(saved, s)
    <3>1. working[s] = 0 /\ net[s] = Tracked(positions, s) /\ Tracked(positions, s) = Tracked(saved, s)
      BY <2>1, <2>2 DEF AccountInv, BookKept, Unsaved
    <3>2. net'[s] = net[s] /\ working'[s] = working[s]
      <4>1. CASE job = NoJob
        BY <1>12, <4>1 DEF Crash, account
      <4>2. CASE job # NoJob
        <5>1. PICK o \in Outcomes(job.qty) : Trades(job.kind, job.sym, o) /\ job.sym \in excused'
          BY <1>12, <4>2 DEF Crash
        <5>2. job.sym \in Sym /\ job.qty \in Nat \ {0}
          BY <1>0, <4>2 DEF TypeOK, EntryJob, LegJob
        <5> QED BY <1>0, <2>2, <5>1, <5>2, AnswerMoves
      <4> QED BY <4>1, <4>2
    <3> QED BY <3>1, <3>2
  <2> QED BY <1>3, <2>1, <2>2 DEF AccountInv, BookKept
<1> QED BY <1>4, <1>5, <1>6, <1>7, <1>8, <1>9, <1>10, <1>11, <1>12 DEF Next, Engine, Scan, Visit

\* Whenever no order is on its way, the account holds exactly the tracked legs of
\* every symbol without a dishonest answer, an unsaved death or an oversized
\* order, for any symbols, quantities, faults and number of deaths.
THEOREM LegsMatchAccount == Spec => []LegMatchesAccount
<1>1. Init => AccountInv
  <2> SUFFICES ASSUME Init PROVE AccountInv
    OBVIOUS
  <2>1. positions = <<>> /\ pc = "idle" /\ job.kind = "none"
    BY DEF Init, NoJob
  <2>2. ASSUME NEW s \in Sym PROVE working[s] = 0 /\ net[s] = Tracked(BookKept, s)
    <3>1. {i \in DOMAIN <<>> : <<>>[i].sym = s} = {}
      OBVIOUS
    <3>2. Tracked(<<>>, s) = 0
      <4> DEFINE f == [i \in DOMAIN <<>> |-> <<>>[i].left]
      <4>1. Tracked(<<>>, s) = SumFunctionOnSet(f, {})
        BY <3>1 DEF Tracked
      <4> QED BY <4>1, SumEmpty
    <3> QED BY <2>1, <3>2 DEF Init, BookKept
  <2> QED BY <2>1, <2>2 DEF AccountInv
<1>2. AccountInv => LegMatchesAccount
  BY DEF AccountInv, BookKept, LegMatchesAccount
<1>3. Inv /\ Inv' /\ AccountInv /\ [Next]_vars => AccountInv'
  BY AccountStep
<1> QED BY <1>1, <1>2, <1>3, LegsStayTyped, PTL DEF Spec

-----------------------------------------------------------------------------
(***************************************************************************)
(* The stop walk.  While the day lasts and the engine aims at the targets  *)
(* of the ATR, its position and the simulated trade have booked the same   *)
(* exits until the engine's stop is hit, and its stop is the nearer one;   *)
(* when its plan is all of the ATR they are one.  A position that has      *)
(* booked target 1 has its stop at the entry or beyond, so that no later   *)
(* exit of it loses.                                                       *)
(***************************************************************************)

Reasons == {"target1", "target2", "stop", "eod"}
ExitRow == [price : Int, units : Int, reason : Reasons]
TradeSet == [st : {"OPEN", "PARTIAL", "CLOSED"}, stop : Int, units : Int, exits : Seq(ExitRow), best : Int]
SimSet == [partial : BOOLEAN, stop : Int, units : Int, exits : Seq(ExitRow)]
PlanSet == [stop : Int, one : Int, two : Int, levels : SUBSET Strikes, wall : Int, entry : Int]

AtFirst == [price |-> plan.one, units |-> 1, reason |-> "target1"]
SimAtFirst == [price |-> SimTarget1, units |-> 1, reason |-> "target1"]
\* The reasons an exit may have.
LEMMA ReasonsAre == "target1" \in Reasons /\ "target2" \in Reasons /\ "stop" \in Reasons /\ "eod" \in Reasons
  BY DEF Reasons

\* What a position has booked, and where its stop is once target 1 is behind.
Tallied(p) ==
  /\ p.st = "OPEN" => p.units = 2 /\ p.exits = <<>>
  /\ p.st = "PARTIAL" => p.units = 1 /\ p.exits = <<AtFirst>> /\ Favours(p.stop, plan.entry)
  /\ p.st = "CLOSED" => p.units = 0
OnePath(p, s) ==
  /\ p.exits = s.exits /\ p.stop = s.stop /\ p.units = s.units
  /\ p.units > 0 => p.st = "PARTIAL" <=> s.partial
\* the same, but for a stop of the engine that may be the nearer one
Nearer(p, s) ==
  /\ p.exits = s.exits /\ Favours(p.stop, s.stop) /\ p.units = s.units
  /\ p.units > 0 => p.st = "PARTIAL" <=> s.partial
NoStopIn(exits) == \A i \in DOMAIN exits : exits[i].reason # "stop"
Graded(p, s) == /\ NoStopIn(p.exits) => Nearer(p, s)
                /\ SamePlan => OnePath(p, s)
StopInv ==
  /\ dir \in {1, -1} /\ plan \in PlanSet /\ trade \in TradeSet /\ sim \in SimSet
  /\ when \in {"day", "square", "over"}
  /\ Favours(plan.two, plan.one) /\ Favours(plan.entry, 0)
  /\ Tallied(trade)
  /\ when = "day" /\ SameTargets => Graded(trade, sim)

PlanTyped == dir \in {1, -1} /\ plan \in PlanSet

\* A ratcheted stop is the better of the two (_ratchet).
LEMMA StopsRatchet ==
  ASSUME dir \in {1, -1}, NEW a \in Int, NEW b \in Int
  PROVE  Ratchet(a, b) = Better(a, b) /\ Better(a, b) \in Int /\ Favours(Better(a, b), a)
  BY DEF Ratchet, Better, Favours

\* What favours the trade more than what favours it more favours it more.
LEMMA FavoursChains ==
  ASSUME dir \in {1, -1}, NEW a \in Int, NEW b \in Int, NEW c \in Int, Favours(a, b), Favours(b, c)
  PROVE  Favours(a, c)
  BY DEF Favours

\* The better of two stops is no looser than the better of two looser ones.
LEMMA BetterStays ==
  ASSUME dir \in {1, -1}, NEW a \in Int, NEW b \in Int, NEW c \in Int, NEW d \in Int, Favours(a, b), Favours(c, d)
  PROVE  Favours(Better(a, c), Better(b, d)) /\ Favours(Better(a, c), b) /\ Favours(a, a)
  BY DEF Favours, Better

\* The multiples and the prices are whole numbers.
LEMMA ParametersFit ==
  /\ Prices \subseteq Int /\ Strikes \subseteq Int /\ IsFiniteSet(Strikes)
  /\ HardStop \in Int /\ FallbackStop \in Int /\ MinGap \in Int /\ Buffer \in Int /\ FirstAt \in Int /\ SecondAt \in Int
  /\ WallNear \in Int /\ WallFar \in Int /\ UnwindStop \in Int /\ UnwindTrail \in Int
  /\ 0 < WallNear /\ 0 < FirstAt /\ FirstAt < SecondAt
<1>1. Prices \subseteq Int /\ Strikes \subseteq Int /\ IsFiniteSet(Strikes)
  BY StopWalkAssumption, ZenonT(20)
<1>2. /\ HardStop \in Nat /\ FallbackStop \in Nat /\ MinGap \in Nat /\ Buffer \in Nat /\ FirstAt \in Nat /\ SecondAt \in Nat
      /\ WallNear \in Nat /\ WallFar \in Nat /\ UnwindStop \in Nat /\ UnwindTrail \in Nat
  BY StopWalkAssumption, ZenonT(20)
<1>3. 0 < WallNear /\ 0 < FirstAt /\ FirstAt < SecondAt
  BY StopWalkAssumption, ZenonT(20)
<1> QED BY <1>1, <1>2, <1>3

\* A bar has its low and its high around its close.
LEMMA BarsFit == ASSUME NEW b \in Bars
                 PROVE  /\ b.high \in Int /\ b.low \in Int /\ b.close \in Int /\ b.low <= b.close /\ b.close <= b.high
                        /\ Against(b) \in Int /\ Beyond(b) \in Int
  BY ParametersFit DEF Bars, Against, Beyond

\* A sum of one exit and of two.
LEMMA TakenOffOnce ==
  ASSUME NEW p \in TradeSet, NEW price \in Int, NEW units \in Int, NEW reason \in Reasons,
         NEW q, q = TakeOff(p, price, units, reason)
  PROVE  /\ q \in TradeSet /\ q.units = p.units - units /\ q.stop = p.stop /\ q.best = p.best
         /\ q.exits = Append(p.exits, [price |-> price, units |-> units, reason |-> reason])
         /\ q.st = IF p.units = units THEN "CLOSED" ELSE p.st
<1> DEFINE e == [price |-> price, units |-> units, reason |-> reason]
           left == p.units - units
           to == IF p.units = units THEN "CLOSED" ELSE p.st
           all == Append(p.exits, e)
<1>1. e \in ExitRow
  BY DEF ExitRow
<1>2. left \in Int /\ to \in {"OPEN", "PARTIAL", "CLOSED"} /\ p.exits \in Seq(ExitRow)
  BY DEF TradeSet
<1>3. all \in Seq(ExitRow)
  <2> HIDE DEF e
  <2> QED BY <1>1, <1>2
<1>4. TakeOff(p, price, units, reason) = [p EXCEPT !.units = left, !.exits = all, !.st = to]
  BY DEF TakeOff
<1> HIDE DEF e, left, to, all
<1>5. \A z : z = [p EXCEPT !.units = left, !.exits = all, !.st = to] =>
                /\ z \in TradeSet /\ z.units = left /\ z.stop = p.stop /\ z.best = p.best /\ z.exits = all /\ z.st = to
  BY <1>2, <1>3 DEF TradeSet
<1> QED BY <1>4, <1>5 DEF e, left, to, all

\* Moving the stop changes nothing else.
LEMMA StopMoves ==
  ASSUME NEW p \in TradeSet, NEW x \in Int
  PROVE  LET q == [p EXCEPT !.stop = x] IN
         q \in TradeSet /\ q.st = p.st /\ q.units = p.units /\ q.exits = p.exits /\ q.best = p.best /\ q.stop = x
  BY DEF TradeSet

\* What the bar does to the position before the stop is moved.
LEMMA MarkIs ==
  ASSUME PlanTyped, NEW p \in TradeSet, NEW b \in Bars
  PROVE  LET m == Marked(p, b) IN
         m \in TradeSet /\ m.st = p.st /\ m.units = p.units /\ m.exits = p.exits /\ m.stop = p.stop
<1>1. Better(p.best, Beyond(b)) \in Int
  BY BarsFit, StopsRatchet DEF PlanTyped, TradeSet
<1> QED BY <1>1 DEF Marked, TradeSet

\* The moves of the stop change nothing else and never give ground.
KeepsIt(q, p) ==
  q \in TradeSet /\ q.st = p.st /\ q.units = p.units /\ q.exits = p.exits /\ q.best = p.best /\ Favours(q.stop, p.stop)

\* A ratcheted stop keeps the position and never falls back.
LEMMA RatchetHolds ==
  ASSUME PlanTyped, NEW p \in TradeSet, NEW x \in Int
  PROVE  KeepsIt([p EXCEPT !.stop = Ratchet(@, x)], p)
<1>1. p.stop \in Int
  BY DEF TradeSet
<1>2. Ratchet(p.stop, x) \in Int /\ Favours(Ratchet(p.stop, x), p.stop)
  BY <1>1, StopsRatchet DEF PlanTyped
<1> DEFINE r == Ratchet(p.stop, x)
<1> HIDE DEF r
<1>3. [p EXCEPT !.stop = Ratchet(@, x)] = [p EXCEPT !.stop = r]
  BY DEF r
<1>4. r \in Int /\ Favours(r, p.stop)
  BY <1>2 DEF r
<1> QED BY <1>3, <1>4, StopMoves, ZenonT(40) DEF KeepsIt

\* Two moves that keep the position keep it together.
LEMMA HoldsOn ==
  ASSUME PlanTyped, NEW p \in TradeSet, NEW q, NEW r, KeepsIt(q, p), KeepsIt(r, q)
  PROVE  KeepsIt(r, p)
<1>1. p.stop \in Int /\ q.stop \in Int /\ r.stop \in Int
  BY DEF KeepsIt, TradeSet
<1>2. Favours(r.stop, p.stop)
  BY <1>1, FavoursChains DEF KeepsIt, PlanTyped
<1> QED BY <1>2 DEF KeepsIt

\* No move keeps it.
LEMMA HoldsSelf == ASSUME PlanTyped, NEW p \in TradeSet PROVE KeepsIt(p, p)
  BY DEF KeepsIt, TradeSet, Favours, PlanTyped

\* The ladder of levels only ratchets (_process_bar).
LEMMA LadderHolds ==
  ASSUME PlanTyped, NEW p \in TradeSet, NEW b \in Bars
  PROVE  KeepsIt(Laddered(p, b), p) /\ (plan.levels = {} => Laddered(p, b).stop = p.stop)
<1> DEFINE K == {k \in plan.levels : Favours(b.close, k) /\ b.close # k}
           passed == {k - dir * Buffer : k \in K}
<1>1. IsFiniteSet(K) /\ \A k \in K : k \in Int
  BY ParametersFit, FS_Subset DEF PlanTyped, PlanSet
<1>2. IsFiniteSet(passed) /\ \A x \in passed : x \in Int
  <2>1. IsFiniteSet(passed)
    <3> DEFINE f == [k \in K |-> k - dir * Buffer]
    <3>1. f \in Surjection(K, passed)
      BY DEF Surjection
    <3> HIDE DEF f, K, passed
    <3> QED BY <1>1, <3>1, FS_Surjection
  <2>2. dir * Buffer \in Int
    BY ParametersFit DEF PlanTyped
  <2> QED BY <1>1, <2>1, <2>2
<1>3. CASE passed = {}
  <2>1. Laddered(p, b) = [p EXCEPT !.stop = @]
    BY <1>3 DEF Laddered
  <2>2. Laddered(p, b) = p
    BY <2>1 DEF TradeSet
  <2> QED BY <2>2, HoldsSelf
<1>4. CASE passed # {}
  <2>1. Max(passed) \in Int /\ Min(passed) \in Int
    <3> HIDE DEF passed
    <3> QED BY <1>2, <1>4, MaxIsThere, MinIsThere DEF Max, Min
  <2> DEFINE x == IF dir = 1 THEN Max(passed) ELSE Min(passed)
  <2>2. x \in Int
    BY <2>1
  <2>3. Laddered(p, b) = [p EXCEPT !.stop = Ratchet(@, x)]
    BY <1>4 DEF Laddered
  <2>4. plan.levels # {}
    BY <1>4
  <2> HIDE DEF x, passed
  <2> QED BY <2>2, <2>3, <2>4, RatchetHolds
<1> QED BY <1>3, <1>4

\* So does the supertrend line.
LEMMA TrailHolds ==
  ASSUME PlanTyped, NEW p \in TradeSet, NEW b \in Bars, NEW line \in Lines(b)
  PROVE  KeepsIt(Supertrended(p, line), p)
<1>1. line # None => line \in Int
  BY ParametersFit DEF Lines
<1> QED BY <1>1, RatchetHolds, HoldsSelf DEF Supertrended

\* So does a wall that unwinds.
LEMMA WallHolds ==
  ASSUME PlanTyped, NEW p \in TradeSet, NEW unwinds \in BOOLEAN
  PROVE  KeepsIt(WallChecked(p, unwinds), p)
<1> DEFINE x == plan.entry - dir * UnwindStop
           y == p.best - dir * UnwindTrail
           q == [p EXCEPT !.stop = Ratchet(@, x)]
           r == [q EXCEPT !.stop = Ratchet(@, y)]
<1>1. x \in Int /\ y \in Int
  BY ParametersFit DEF PlanTyped, PlanSet, TradeSet
<1> HIDE DEF x, y
<1>2. KeepsIt(q, p) /\ q \in TradeSet
  BY <1>1, RatchetHolds DEF KeepsIt
<1>3. KeepsIt(r, q)
  <2> HIDE DEF q
  <2> QED BY <1>1, <1>2, RatchetHolds
<1>4. WallChecked(p, unwinds) \in {p, q, r}
  BY DEF WallChecked, x, y
<1> HIDE DEF q, r
<1> QED BY <1>2, <1>3, <1>4, HoldsOn, HoldsSelf

\* What the first target does to the position, if the bar reaches it.
LEMMA FirstIs ==
  ASSUME PlanTyped, NEW p \in TradeSet, Tallied(p), NEW b \in Bars
  PROVE  LET t == FirstTarget(p, b) IN
         /\ t \in TradeSet /\ Tallied(t)
         /\ t = p \/ (p.st = "OPEN" /\ Favours(Beyond(b), plan.one) /\ t.st = "PARTIAL" /\ t.units = p.units - 1
                     /\ t.exits = Append(p.exits, AtFirst) /\ t.stop = Better(p.stop, plan.entry))
         /\ p.st # "OPEN" \/ ~Favours(Beyond(b), plan.one) => t = p
<1>1. plan.one \in Int /\ plan.entry \in Int
  BY DEF PlanTyped, PlanSet
<1>2. CASE p.st = "OPEN" /\ Favours(Beyond(b), plan.one)
  <2> DEFINE q == TakeOff(p, plan.one, 1, "target1")
             u == [q EXCEPT !.st = "PARTIAL"]
             r == Ratchet(u.stop, plan.entry)
             t == [u EXCEPT !.stop = r]
  <2>1. q \in TradeSet /\ q.units = p.units - 1 /\ q.stop = p.stop /\ q.exits = Append(p.exits, AtFirst)
    <3> HIDE DEF q
    <3>1. PICK one \in Int, m \in Int, why \in Reasons : one = plan.one /\ m = 1 /\ why = "target1"
      BY <1>1, ReasonsAre
    <3>2. q = TakeOff(p, one, m, why)
      BY <3>1 DEF q
    <3>3. /\ q \in TradeSet /\ q.units = p.units - m /\ q.stop = p.stop
          /\ q.exits = Append(p.exits, [price |-> one, units |-> m, reason |-> why])
      BY <3>2, TakenOffOnce
    <3> QED BY <3>1, <3>3 DEF AtFirst
  <2> HIDE DEF q
  <2>2. u \in TradeSet /\ u.units = q.units /\ u.stop = q.stop /\ u.exits = q.exits /\ u.st = "PARTIAL"
    BY <2>1 DEF TradeSet
  <2>3. FirstTarget(p, b) = t
    BY <1>2 DEF FirstTarget, Breakeven, q
  <2> HIDE DEF u
  <2>4. u.stop \in Int
    BY <2>2 DEF TradeSet
  <2>5. r \in Int /\ r = Better(p.stop, plan.entry) /\ Favours(r, plan.entry)
    BY <1>1, <2>1, <2>2, <2>4, StopsRatchet DEF PlanTyped, Ratchet, Better, Favours
  <2> HIDE DEF r
  <2>6. t \in TradeSet /\ t.st = "PARTIAL" /\ t.units = u.units /\ t.exits = u.exits /\ t.stop = r
    BY <2>2, <2>5, StopMoves
  <2> HIDE DEF t
  <2>7. p.units = 2 /\ p.exits = <<>>
    BY <1>2 DEF Tallied
  <2>8. Append(p.exits, AtFirst) = <<AtFirst>>
    BY <2>7
  <2>9. Tallied(t)
    BY <2>1, <2>2, <2>5, <2>6, <2>7, <2>8 DEF Tallied
  <2> QED BY <1>2, <2>1, <2>2, <2>3, <2>5, <2>6, <2>9
<1>3. CASE ~(p.st = "OPEN" /\ Favours(Beyond(b), plan.one))
  <2>1. FirstTarget(p, b) = p
    BY <1>3 DEF FirstTarget
  <2> QED BY <1>3, <2>1
<1> QED BY <1>2, <1>3

\* What is left of the position after the bar.
Moves(p, b, line, unwinds) == WallChecked(Supertrended(Laddered(p, b), line), unwinds)

\* All the bar does to a stop keeps the position.
LEMMA MovesHold ==
  ASSUME PlanTyped, NEW p \in TradeSet, NEW b \in Bars, NEW line \in Lines(b), NEW unwinds \in BOOLEAN
  PROVE  KeepsIt(Moves(p, b, line, unwinds), p)
<1>1. KeepsIt(Laddered(p, b), p)
  BY LadderHolds
<1>2. KeepsIt(Supertrended(Laddered(p, b), line), Laddered(p, b))
  BY <1>1, TrailHolds DEF KeepsIt
<1>3. KeepsIt(Moves(p, b, line, unwinds), Supertrended(Laddered(p, b), line))
  BY <1>2, WallHolds DEF KeepsIt, Moves
<1> QED BY <1>1, <1>2, <1>3, HoldsOn

\* The last exit of a position that had booked target 1 is no worse than the
\* entry.
SafelyClosed(q) ==
  /\ Len(q.exits) = 2 /\ q.exits[1] = AtFirst /\ q.exits[2].units = 1
  /\ Favours(plan.one, plan.entry) => Favours(q.exits[2].price, plan.entry)

\* A position that is kept has booked what it had.
LEMMA HeldStays ==
  ASSUME PlanTyped, NEW p \in TradeSet, Tallied(p), NEW q, KeepsIt(q, p)
  PROVE  q \in TradeSet /\ Tallied(q)
<1>1. p.stop \in Int /\ q.stop \in Int /\ plan.entry \in Int
  BY DEF KeepsIt, TradeSet, PlanTyped, PlanSet
<1>2. Favours(p.stop, plan.entry) => Favours(q.stop, plan.entry)
  BY <1>1, FavoursChains DEF KeepsIt, PlanTyped
<1> QED BY <1>2 DEF KeepsIt, Tallied

\* An exit of all units closes the position, and not at a loss once target 1 is booked.
LEMMA ClosesAll ==
  ASSUME PlanTyped, NEW p \in TradeSet, Tallied(p), NEW price \in Int, NEW reason \in Reasons,
         NEW q, q = TakeOff(p, price, p.units, reason)
  PROVE  /\ q \in TradeSet /\ Tallied(q) /\ q.st = "CLOSED" /\ q.units = 0 /\ q.stop = p.stop
         /\ q.exits = Append(p.exits, [price |-> price, units |-> p.units, reason |-> reason])
         /\ p.st = "PARTIAL" /\ (Favours(plan.one, plan.entry) => Favours(price, plan.entry)) => SafelyClosed(q)
<1> DEFINE e == [price |-> price, units |-> p.units, reason |-> reason]
<1>1. p.units \in Int
  BY DEF TradeSet
<1>2. q \in TradeSet /\ q.st = "CLOSED" /\ q.units = 0 /\ q.stop = p.stop /\ q.exits = Append(p.exits, e)
  BY <1>1, ReasonsAre, TakenOffOnce
<1>3. Tallied(q)
  BY <1>2 DEF Tallied
<1>4. ASSUME p.st = "PARTIAL", Favours(plan.one, plan.entry) => Favours(price, plan.entry)
      PROVE  SafelyClosed(q)
  <2>1. p.units = 1 /\ p.exits = <<AtFirst>>
    BY <1>4 DEF Tallied
  <2>2. e \in ExitRow /\ e.units = 1 /\ e.price = price
    BY <2>1 DEF ExitRow
  <2> HIDE DEF e
  <2>3. p.exits \in Seq(ExitRow) /\ Len(p.exits) = 1 /\ p.exits[1] = AtFirst
    <3>1. PICK a : a = AtFirst
      OBVIOUS
    <3>2. p.exits = <<a>>
      BY <2>1, <3>1
    <3>3. p.exits \in Seq(ExitRow)
      BY DEF TradeSet
    <3>4. Len(<<a>>) = 1 /\ <<a>>[1] = a
      OBVIOUS
    <3> QED BY <3>1, <3>2, <3>3, <3>4
  <2>4. Len(q.exits) = 2 /\ q.exits[1] = AtFirst /\ q.exits[2] = e
    BY <1>2, <2>2, <2>3
  <2> QED BY <1>4, <2>2, <2>4 DEF SafelyClosed
<1> QED BY <1>2, <1>3, <1>4

\* A bar processed leaves a position, and closes none at a loss that has booked target 1.
LEMMA BarIsProcessed ==
  ASSUME PlanTyped, Favours(plan.two, plan.one), NEW p \in TradeSet, Tallied(p), p.units > 0,
         NEW b \in Bars, NEW line \in Lines(b), NEW unwinds \in BOOLEAN, NEW late \in BOOLEAN
  PROVE  LET q == ProcessBar(p, b, line, unwinds, late) IN
         q \in TradeSet /\ Tallied(q) /\ (p.st = "PARTIAL" /\ q.st = "CLOSED" => SafelyClosed(q))
<1> DEFINE m == Marked(p, b)
           t == FirstTarget(m, b)
           v == Moves(t, b, line, unwinds)
           q == ProcessBar(p, b, line, unwinds, late)
<1>1. m \in TradeSet /\ m.st = p.st /\ m.units = p.units /\ m.exits = p.exits /\ m.stop = p.stop
  BY MarkIs
<1>2. Tallied(m)
  BY <1>1 DEF Tallied
<1> HIDE DEF m
<1>3. t \in TradeSet /\ Tallied(t) /\ (m.st = "PARTIAL" => t = m)
  BY <1>1, <1>2, FirstIs
<1> HIDE DEF t
<1>4. v \in TradeSet /\ Tallied(v) /\ KeepsIt(v, t)
  BY <1>3, MovesHold, HeldStays
<1> HIDE DEF v
<1>5. plan.one \in Int /\ plan.two \in Int /\ plan.entry \in Int /\ m.stop \in Int /\ t.stop \in Int /\ b.close \in Int
  BY <1>1, <1>3, BarsFit DEF PlanTyped, PlanSet, TradeSet
<1>6. CASE Stopped(m, b)
  <2>1. q = TakeOff(m, m.stop, m.units, "stop")
    BY <1>6 DEF ProcessBar, m, q
  <2>2. m.st = "PARTIAL" => Favours(m.stop, plan.entry)
    BY <1>2 DEF Tallied
  <2> HIDE DEF q
  <2>3. q \in TradeSet /\ Tallied(q) /\ (m.st = "PARTIAL" => SafelyClosed(q))
    BY <1>1, <1>2, <1>5, <2>1, <2>2, ReasonsAre, ClosesAll
  <2> QED BY <1>1, <2>3 DEF q
<1>7. CASE ~Stopped(m, b) /\ SecondTarget(t, b)
  <2>1. q = TakeOff(t, plan.two, t.units, "target2")
    BY <1>7 DEF ProcessBar, m, t, q
  <2>2. Favours(plan.one, plan.entry) => Favours(plan.two, plan.entry)
    BY <1>5, FavoursChains DEF PlanTyped
  <2> HIDE DEF q
  <2>3. q \in TradeSet /\ Tallied(q) /\ (t.st = "PARTIAL" => SafelyClosed(q))
    BY <1>3, <1>5, <2>1, <2>2, ReasonsAre, ClosesAll
  <2> QED BY <1>1, <1>3, <2>3 DEF q
<1>8. CASE ~Stopped(m, b) /\ ~SecondTarget(t, b)
  <2>1. q = SquaredAt(v, b, late)
    BY <1>8 DEF ProcessBar, Moves, m, t, v, q
  <2>2. CASE ~late
    <3>1. q = v
      BY <2>1, <2>2 DEF SquaredAt
    <3>2. p.st = "PARTIAL" => v.st = "PARTIAL"
      BY <1>1, <1>3, <1>4 DEF KeepsIt
    <3> QED BY <1>4, <3>1, <3>2
  <2>3. CASE late
    <3>1. q = TakeOff(v, b.close, v.units, "eod")
      BY <2>1, <2>3 DEF SquaredAt
    <3>2. v.st = t.st
      BY <1>4 DEF KeepsIt
    <3>3. m.st = "PARTIAL" => Favours(b.close, plan.entry)
      <4> SUFFICES ASSUME m.st = "PARTIAL" PROVE Favours(b.close, plan.entry)
        OBVIOUS
      <4>1. Favours(m.stop, plan.entry)
        BY <1>2 DEF Tallied
      <4>2. Favours(b.close, m.stop)
        BY <1>5, <1>8, BarsFit DEF Stopped, Favours, Against, PlanTyped
      <4> QED BY <1>5, <4>1, <4>2, FavoursChains DEF PlanTyped
    <3> HIDE DEF q
    <3>4. /\ q \in TradeSet /\ Tallied(q)
          /\ v.st = "PARTIAL" /\ (Favours(plan.one, plan.entry) => Favours(b.close, plan.entry)) => SafelyClosed(q)
      BY <1>4, <1>5, <3>1, ReasonsAre, ClosesAll
    <3>5. m.st = "PARTIAL" => SafelyClosed(q)
      BY <1>3, <3>2, <3>3, <3>4
    <3> QED BY <1>1, <3>4, <3>5 DEF q
  <2> QED BY <2>2, <2>3
<1> QED BY <1>6, <1>7, <1>8

-----------------------------------------------------------------------------
(* The simulation                                                          *)

\* An exit of the simulated trade.
LEMMA BooksExit ==
  ASSUME NEW s \in SimSet, NEW price \in Int, NEW units \in Int, NEW reason \in Reasons,
         NEW z, z = Book(s, price, units, reason)
  PROVE  /\ z \in SimSet /\ z.units = s.units - units /\ z.stop = s.stop /\ z.partial = s.partial
         /\ z.exits = Append(s.exits, [price |-> price, units |-> units, reason |-> reason])
<1> DEFINE e == [price |-> price, units |-> units, reason |-> reason]
           left == s.units - units
           all == Append(s.exits, e)
<1>1. e \in ExitRow
  BY DEF ExitRow
<1>2. left \in Int /\ s.exits \in Seq(ExitRow)
  BY DEF SimSet
<1>3. all \in Seq(ExitRow)
  <2> HIDE DEF e
  <2> QED BY <1>1, <1>2
<1>4. z = [s EXCEPT !.units = left, !.exits = all]
  BY DEF Book
<1> HIDE DEF e, left, all
<1>5. z \in SimSet /\ z.units = left /\ z.stop = s.stop /\ z.partial = s.partial /\ z.exits = all
  BY <1>2, <1>3, <1>4 DEF SimSet
<1> QED BY <1>5 DEF e, left, all

\* A move of the simulated stop.
LEMMA MovesStop ==
  ASSUME PlanTyped, NEW s \in SimSet, NEW x \in Int
  PROVE  LET z == MoveStop(s, x) IN
         z \in SimSet /\ z.units = s.units /\ z.partial = s.partial /\ z.exits = s.exits /\ z.stop = Better(s.stop, x)
<1>1. s.stop \in Int
  BY DEF SimSet
<1>2. Better(s.stop, x) \in Int
  BY <1>1, StopsRatchet DEF PlanTyped
<1> QED BY <1>2 DEF MoveStop, SimSet

\* What the first target does to the simulated trade.
LEMMA SimFirstIs ==
  ASSUME PlanTyped, NEW s \in SimSet, NEW b \in Bars
  PROVE  LET t == SimFirst(s, b) IN
         /\ t \in SimSet
         /\ ~s.partial /\ Favours(Beyond(b), SimTarget1)
              => /\ t.partial /\ t.units = s.units - 1 /\ t.exits = Append(s.exits, SimAtFirst)
                 /\ t.stop = Better(s.stop, 0)
         /\ s.partial \/ ~Favours(Beyond(b), SimTarget1) => t = s
<1> DEFINE y == Book(s, SimTarget1, 1, "target1")
           u == [y EXCEPT !.partial = TRUE]
<1>1. y \in SimSet /\ y.units = s.units - 1 /\ y.stop = s.stop /\ y.exits = Append(s.exits, SimAtFirst)
  <2>1. SimTarget1 \in Int
    BY ParametersFit DEF SimTarget1, PlanTyped
  <2>2. PICK one \in Int, n \in Int, why \in Reasons : one = SimTarget1 /\ n = 1 /\ why = "target1"
    BY <2>1, ReasonsAre
  <2>3. y = Book(s, one, n, why) /\ SimAtFirst = [price |-> one, units |-> n, reason |-> why]
    BY <2>2 DEF y, SimAtFirst
  <2> HIDE DEF y
  <2>4. /\ y \in SimSet /\ y.units = s.units - n /\ y.stop = s.stop
        /\ y.exits = Append(s.exits, [price |-> one, units |-> n, reason |-> why])
    BY <2>3, BooksExit
  <2> QED BY <2>2, <2>3, <2>4
<1> HIDE DEF y
<1>2. u \in SimSet /\ u.units = y.units /\ u.stop = y.stop /\ u.exits = y.exits /\ u.partial
  BY <1>1 DEF SimSet
<1>3. ~s.partial /\ Favours(Beyond(b), SimTarget1) => SimFirst(s, b) = MoveStop(u, 0)
  BY DEF SimFirst, y
<1>4. s.partial \/ ~Favours(Beyond(b), SimTarget1) => SimFirst(s, b) = s
  BY DEF SimFirst
<1> HIDE DEF u
<1>5. PICK z : z = MoveStop(u, 0)
  OBVIOUS
<1>6. z \in SimSet /\ z.units = u.units /\ z.partial = u.partial /\ z.exits = u.exits /\ z.stop = Better(u.stop, 0)
  <2>1. 0 \in Int
    OBVIOUS
  <2> QED BY <1>2, <1>5, <2>1, MovesStop, Zenon
<1> QED BY <1>1, <1>2, <1>3, <1>4, <1>5, <1>6

\* What the supertrend line does to its stop.
LEMMA SimTrails ==
  ASSUME PlanTyped, NEW s \in SimSet, NEW b \in Bars, NEW line \in Lines(b)
  PROVE  LET t == SimTrail(s, line) IN
         /\ t \in SimSet /\ t.units = s.units /\ t.partial = s.partial /\ t.exits = s.exits
         /\ t.stop = IF s.partial /\ line # None THEN Better(s.stop, line) ELSE s.stop
<1>1. line # None => line \in Int
  BY ParametersFit DEF Lines
<1> QED BY <1>1, MovesStop DEF SimTrail

\* A bar simulated leaves a simulated trade.
LEMMA BarIsSimulated ==
  ASSUME PlanTyped, NEW s \in SimSet, NEW b \in Bars, NEW line \in Lines(b), NEW last \in BOOLEAN
  PROVE  SimulateBar(s, b, line, last) \in SimSet
<1> DEFINE t == SimFirst(s, b)
           r == SimTrail(t, line)
<1>1. t \in SimSet
  BY SimFirstIs
<1> HIDE DEF t
<1>2. r \in SimSet
  BY <1>1, SimTrails
<1> HIDE DEF r
<1>3. /\ s.stop \in Int /\ s.units \in Int /\ t.units \in Int /\ r.units \in Int
      /\ SimTarget2 \in Int /\ b.close \in Int
  BY <1>1, <1>2, BarsFit, ParametersFit DEF SimSet, PlanTyped, SimTarget2
<1>4. Book(s, s.stop, s.units, "stop") \in SimSet
  <2>1. PICK x \in Int, n \in Int, why \in Reasons : x = s.stop /\ n = s.units /\ why = "stop"
    BY <1>3, ReasonsAre
  <2>2. PICK y : y = Book(s, x, n, why)
    OBVIOUS
  <2>3. y \in SimSet
    BY <1>1, <1>2, <2>2, BooksExit
  <2> QED BY <2>1, <2>2, <2>3
<1>5. Book(t, SimTarget2, t.units, "target2") \in SimSet
  <2>1. PICK x \in Int, n \in Int, why \in Reasons : x = SimTarget2 /\ n = t.units /\ why = "target2"
    BY <1>3, ReasonsAre
  <2>2. PICK y : y = Book(t, x, n, why)
    OBVIOUS
  <2>3. y \in SimSet
    BY <1>1, <1>2, <2>2, BooksExit
  <2> QED BY <2>1, <2>2, <2>3
<1>6. Book(r, b.close, r.units, "eod") \in SimSet
  <2>1. PICK x \in Int, n \in Int, why \in Reasons : x = b.close /\ n = r.units /\ why = "eod"
    BY <1>3, ReasonsAre
  <2>2. PICK y : y = Book(r, x, n, why)
    OBVIOUS
  <2>3. y \in SimSet
    BY <1>1, <1>2, <2>2, BooksExit
  <2> QED BY <2>1, <2>2, <2>3
<1> QED BY <1>2, <1>4, <1>5, <1>6 DEF SimulateBar, SimClose, t, r

\* What moves the stop of a position no wall or level aids.
LEMMA PlainMoves ==
  ASSUME PlanTyped, plan.levels = {}, NEW p \in TradeSet, NEW b \in Bars, NEW line \in Lines(b)
  PROVE  LET q == Moves(p, b, line, FALSE) IN
         /\ q.st = p.st /\ q.units = p.units /\ q.exits = p.exits
         /\ q.stop = IF p.st = "PARTIAL" /\ line # None THEN Better(p.stop, line) ELSE p.stop
<1> DEFINE y == Laddered(p, b)
<1>1. y \in TradeSet /\ y.st = p.st /\ y.units = p.units /\ y.exits = p.exits /\ y.stop = p.stop
  BY LadderHolds DEF KeepsIt
<1> HIDE DEF y
<1>2. Moves(p, b, line, FALSE) = Supertrended(y, line)
  BY DEF Moves, WallChecked, y
<1>3. line # None => line \in Int
  BY ParametersFit DEF Lines
<1>4. CASE y.st = "PARTIAL" /\ line # None
  <2>1. y.stop \in Int
    BY <1>1 DEF TradeSet
  <2>2. Ratchet(y.stop, line) \in Int /\ Ratchet(y.stop, line) = Better(y.stop, line)
    BY <1>3, <1>4, <2>1, StopsRatchet DEF PlanTyped
  <2> DEFINE r == Ratchet(y.stop, line)
             q == [y EXCEPT !.stop = r]
  <2>3. Supertrended(y, line) = q
    BY <1>4 DEF Supertrended
  <2> HIDE DEF r
  <2>4. q.st = y.st /\ q.units = y.units /\ q.exits = y.exits /\ q.stop = r
    BY <1>1, <2>2, StopMoves DEF r
  <2> QED BY <1>1, <1>2, <1>4, <2>2, <2>3, <2>4 DEF r
<1>5. CASE ~(y.st = "PARTIAL" /\ line # None)
  BY <1>1, <1>2, <1>5 DEF Supertrended
<1> QED BY <1>4, <1>5

\* simulate_position mirrors _process_bar, bar by bar.
LEMMA SimulationMirrors ==
  ASSUME PlanTyped, SameTargets, plan.levels = {}, plan.entry = 0, NEW p \in TradeSet, Tallied(p), p.units > 0,
         NEW s \in SimSet, OnePath(p, s), NEW b \in Bars, NEW line \in Lines(b)
  PROVE  OnePath(ProcessBar(p, b, line, FALSE, FALSE), SimulateBar(s, b, line, FALSE))
<1> DEFINE m == Marked(p, b)
           t == FirstTarget(m, b)
           v == Moves(t, b, line, FALSE)
           ts == SimFirst(s, b)
           vs == SimTrail(ts, line)
           q == ProcessBar(p, b, line, FALSE, FALSE)
           z == SimulateBar(s, b, line, FALSE)
<1>0. SimTarget1 = plan.one /\ SimTarget2 = plan.two /\ SimAtFirst = AtFirst
  BY DEF SameTargets, SimAtFirst, AtFirst
<1>1. m \in TradeSet /\ m.st = p.st /\ m.units = p.units /\ m.exits = p.exits /\ m.stop = p.stop
  BY MarkIs
<1>2. Tallied(m) /\ OnePath(m, s)
  BY <1>1 DEF Tallied, OnePath
<1>3. Stopped(m, b) <=> Favours(s.stop, Against(b))
  BY <1>2 DEF Stopped, OnePath
<1>4. m.units > 0 /\ m.st \in {"OPEN", "PARTIAL"} /\ (m.st = "PARTIAL" <=> s.partial)
  BY <1>1, <1>2 DEF Tallied, OnePath, TradeSet
<1> HIDE DEF m
<1>5. t \in TradeSet /\ Tallied(t) /\ ts \in SimSet /\ OnePath(t, ts) /\ t.units > 0
  <2>1. CASE m.st = "OPEN" /\ Favours(Beyond(b), plan.one)
    <3>1. t # m => /\ t.st = "PARTIAL" /\ t.units = m.units - 1 /\ t.exits = Append(m.exits, AtFirst)
                   /\ t.stop = Better(m.stop, 0)
      BY <1>1, <1>2, FirstIs
    <3>2. t \in TradeSet /\ Tallied(t)
      BY <1>1, <1>2, FirstIs
    <3>3. t.st = "PARTIAL"
      <4>1. t = Breakeven([TakeOff(m, plan.one, 1, "target1") EXCEPT !.st = "PARTIAL"])
        BY <2>1 DEF FirstTarget
      <4>2. TakeOff(m, plan.one, 1, "target1") \in TradeSet
        <5>1. plan.one \in Int /\ 1 \in Int /\ "target1" \in Reasons
          BY ReasonsAre DEF PlanTyped, PlanSet
        <5> QED BY <1>1, <5>1, TakenOffOnce, Zenon
      <4> QED BY <4>1, <4>2 DEF Breakeven, TradeSet
    <3>4. t # m
      BY <2>1, <3>3
    <3>5. /\ ts \in SimSet /\ ts.partial /\ ts.units = s.units - 1 /\ ts.exits = Append(s.exits, AtFirst)
          /\ ts.stop = Better(s.stop, 0)
      BY <1>0, <1>4, <2>1, SimFirstIs
    <3>6. t.units = 1
      BY <3>2, <3>3 DEF Tallied
    <3> HIDE DEF t, ts
    <3>7. OnePath(t, ts)
      BY <1>2, <3>1, <3>3, <3>4, <3>5 DEF OnePath
    <3> QED BY <3>2, <3>5, <3>6, <3>7
  <2>2. CASE ~(m.st = "OPEN" /\ Favours(Beyond(b), plan.one))
    <3>1. t = m
      BY <1>1, <1>2, <2>2, FirstIs
    <3>2. ts = s
      BY <1>0, <1>4, <2>2, SimFirstIs
    <3> QED BY <1>1, <1>2, <1>4, <3>1, <3>2
  <2> QED BY <2>1, <2>2
<1> HIDE DEF t, ts
<1>6. t.st = "PARTIAL" <=> ts.partial
  BY <1>5 DEF OnePath
<1>7. SecondTarget(t, b) <=> ts.partial /\ Favours(Beyond(b), plan.two)
  BY <1>6 DEF SecondTarget
<1>8. /\ m.stop \in Int /\ m.units \in Int /\ t.units \in Int /\ plan.two \in Int
      /\ m.stop = s.stop /\ m.units = s.units /\ m.exits = s.exits
      /\ t.stop = ts.stop /\ t.units = ts.units /\ t.exits = ts.exits
  BY <1>1, <1>2, <1>5 DEF TradeSet, PlanTyped, PlanSet, OnePath
<1>9. CASE Stopped(m, b)
  <2>1. q = TakeOff(m, m.stop, m.units, "stop") /\ z = Book(s, m.stop, m.units, "stop")
    BY <1>3, <1>8, <1>9 DEF ProcessBar, SimulateBar, m
  <2> HIDE DEF q, z
  <2>2. /\ q.units = m.units - m.units /\ q.stop = m.stop
        /\ q.exits = Append(m.exits, [price |-> m.stop, units |-> m.units, reason |-> "stop"])
    BY <1>1, <1>8, <2>1, ReasonsAre, TakenOffOnce, SMTT(30)
  <2>3. /\ z.units = s.units - m.units /\ z.stop = s.stop
        /\ z.exits = Append(s.exits, [price |-> m.stop, units |-> m.units, reason |-> "stop"])
    <3>1. PICK x \in Int, n \in Int, why \in Reasons : x = m.stop /\ n = m.units /\ why = "stop"
      BY <1>8, ReasonsAre
    <3>2. z = Book(s, x, n, why)
      BY <2>1, <3>1
    <3>3. z.units = s.units - n /\ z.stop = s.stop
          /\ z.exits = Append(s.exits, [price |-> x, units |-> n, reason |-> why])
      BY <3>2, BooksExit
    <3> QED BY <3>1, <3>3
  <2>4. q.exits = z.exits /\ q.stop = z.stop /\ q.units = z.units /\ ~(q.units > 0)
    BY <1>8, <2>2, <2>3
  <2> QED BY <2>4 DEF OnePath, q, z
<1>10. CASE ~Stopped(m, b) /\ SecondTarget(t, b)
  <2>1. q = TakeOff(t, plan.two, t.units, "target2") /\ z = Book(ts, plan.two, t.units, "target2")
    BY <1>0, <1>3, <1>7, <1>8, <1>10 DEF ProcessBar, SimulateBar, m, t, ts
  <2> HIDE DEF q, z
  <2>2. /\ q.units = t.units - t.units /\ q.stop = t.stop
        /\ q.exits = Append(t.exits, [price |-> plan.two, units |-> t.units, reason |-> "target2"])
    BY <1>5, <1>8, <2>1, ReasonsAre, TakenOffOnce, SMTT(30)
  <2>3. /\ z.units = ts.units - t.units /\ z.stop = ts.stop
        /\ z.exits = Append(ts.exits, [price |-> plan.two, units |-> t.units, reason |-> "target2"])
    <3>1. PICK x \in Int, n \in Int, why \in Reasons : x = plan.two /\ n = t.units /\ why = "target2"
      BY <1>5, <1>8, ReasonsAre
    <3>2. z = Book(ts, x, n, why)
      BY <2>1, <3>1
    <3>3. z.units = ts.units - n /\ z.stop = ts.stop
          /\ z.exits = Append(ts.exits, [price |-> x, units |-> n, reason |-> why])
      <4>1. ts \in SimSet
        BY <1>5, <1>8
      <4> HIDE DEF ts
      <4> QED BY <3>2, <4>1, BooksExit
    <3> QED BY <3>1, <3>3
  <2>4. q.exits = z.exits /\ q.stop = z.stop /\ q.units = z.units /\ ~(q.units > 0)
    BY <1>8, <2>2, <2>3
  <2> QED BY <2>4 DEF OnePath, q, z
<1>11. CASE ~Stopped(m, b) /\ ~SecondTarget(t, b)
  <2>1. q = v /\ z = vs
    BY <1>0, <1>3, <1>7, <1>11 DEF ProcessBar, SimulateBar, SquaredAt, SimClose, Moves, m, t, ts
  <2>2. /\ v.st = t.st /\ v.units = t.units /\ v.exits = t.exits
        /\ v.stop = IF t.st = "PARTIAL" /\ line # None THEN Better(t.stop, line) ELSE t.stop
    BY <1>5, PlainMoves
  <2>3. /\ vs.units = ts.units /\ vs.partial = ts.partial /\ vs.exits = ts.exits
        /\ vs.stop = IF ts.partial /\ line # None THEN Better(ts.stop, line) ELSE ts.stop
    BY <1>5, SimTrails
  <2> HIDE DEF v, vs, q, z
  <2>4. v.stop = vs.stop
    BY <1>6, <1>8, <2>2, <2>3
  <2>5. OnePath(v, vs)
    BY <1>6, <1>8, <2>2, <2>3, <2>4 DEF OnePath
  <2> QED BY <2>1, <2>5 DEF q, z
<1> QED BY <1>9, <1>10, <1>11

\* A position off its stop has moved it at least as far as the line alone would.
LEMMA MovesBeyond ==
  ASSUME PlanTyped, NEW p \in TradeSet, NEW b \in Bars, NEW line \in Lines(b), NEW unwinds \in BOOLEAN
  PROVE  Favours(Moves(p, b, line, unwinds).stop, IF p.st = "PARTIAL" /\ line # None THEN Better(p.stop, line) ELSE p.stop)
<1> DEFINE y == Laddered(p, b)
           w == Supertrended(y, line)
           v == WallChecked(w, unwinds)
<1>1. KeepsIt(y, p) /\ y \in TradeSet
  BY LadderHolds DEF KeepsIt
<1> HIDE DEF y
<1>2. KeepsIt(w, y) /\ w \in TradeSet
  BY <1>1, TrailHolds DEF KeepsIt
<1>3. line # None => line \in Int
  BY ParametersFit DEF Lines
<1>4. y.st = "PARTIAL" /\ line # None => w.stop = Better(y.stop, line)
  BY <1>1, <1>3, StopMoves DEF Supertrended, Ratchet, TradeSet
<1> HIDE DEF w
<1>5. KeepsIt(v, w)
  BY <1>2, WallHolds
<1>6. Moves(p, b, line, unwinds) = v
  BY DEF Moves, v, w, y
<1> HIDE DEF v
<1>7. p.stop \in Int /\ y.stop \in Int /\ w.stop \in Int /\ v.stop \in Int
  BY <1>1, <1>2, <1>5 DEF TradeSet, KeepsIt
<1>8. Favours(y.stop, p.stop) /\ Favours(w.stop, y.stop) /\ Favours(v.stop, w.stop) /\ y.st = p.st
  BY <1>1, <1>2, <1>5 DEF KeepsIt
<1>9. CASE p.st = "PARTIAL" /\ line # None
  <2>1. Better(p.stop, line) \in Int /\ w.stop = Better(y.stop, line)
    BY <1>3, <1>4, <1>7, <1>8, <1>9, StopsRatchet DEF PlanTyped
  <2>2. Favours(w.stop, Better(p.stop, line))
    BY <1>3, <1>7, <1>8, <1>9, <2>1 DEF PlanTyped, Favours, Better
  <2> QED BY <1>6, <1>7, <1>8, <1>9, <2>1, <2>2, FavoursChains DEF PlanTyped
<1>10. CASE ~(p.st = "PARTIAL" /\ line # None)
  <2>1. Favours(w.stop, p.stop)
    BY <1>7, <1>8, FavoursChains DEF PlanTyped
  <2>2. Favours(v.stop, p.stop)
    BY <1>7, <1>8, <2>1, FavoursChains DEF PlanTyped
  <2> QED BY <1>6, <1>10, <2>2
<1> QED BY <1>9, <1>10

\* A position that closes at its stop shows it.
LEMMA StopShows ==
  ASSUME PlanTyped, NEW p \in TradeSet, Tallied(p), NEW q, q = TakeOff(p, p.stop, p.units, "stop")
  PROVE  ~NoStopIn(q.exits)
<1>1. p.stop \in Int /\ p.units \in Int /\ p.exits \in Seq(ExitRow)
  BY DEF TradeSet
<1>2. PICK x \in Int, why \in Reasons : x = p.stop /\ why = "stop"
  BY <1>1, ReasonsAre
<1>3. PICK e : e = [price |-> x, units |-> p.units, reason |-> why]
  OBVIOUS
<1>4. q = TakeOff(p, x, p.units, why)
  BY <1>2
<1>5. q.exits = Append(p.exits, e)
  BY <1>3, <1>4, ClosesAll
<1>6. e.reason = "stop" /\ e \in ExitRow
  BY <1>1, <1>2, <1>3 DEF ExitRow
<1>7. PICK n \in Nat : n = Len(p.exits)
  BY <1>1
<1>8. DOMAIN Append(p.exits, e) = 1..(n + 1) /\ Append(p.exits, e)[n + 1] = e
  BY <1>1, <1>6, <1>7
<1>9. n + 1 \in 1..(n + 1)
  OBVIOUS
<1>10. n + 1 \in DOMAIN q.exits /\ q.exits[n + 1] = e
  BY <1>5, <1>8, <1>9, Zenon
<1> QED BY <1>6, <1>10 DEF NoStopIn

\* The second target closes both alike.
LEMMA SecondAgrees ==
  ASSUME PlanTyped, NEW p \in TradeSet, Tallied(p), NEW s \in SimSet, Nearer(p, s), p.units > 0,
         NEW q, q = TakeOff(p, plan.two, p.units, "target2"),
         NEW z, z = Book(s, plan.two, p.units, "target2")
  PROVE  Nearer(q, z)
<1>1. p.units \in Int /\ s.units \in Int /\ plan.two \in Int
  BY DEF TradeSet, SimSet, PlanTyped, PlanSet
<1>2. PICK x \in Int, u \in Int, why \in Reasons : x = plan.two /\ u = p.units /\ why = "target2"
  BY <1>1, ReasonsAre
<1>3. q = TakeOff(p, x, p.units, why) /\ z = Book(s, x, u, why)
  BY <1>2
<1>4. q.units = 0 /\ q.stop = p.stop /\ q.exits = Append(p.exits, [price |-> x, units |-> p.units, reason |-> why])
  BY <1>3, ClosesAll
<1>5. z.units = s.units - u /\ z.stop = s.stop /\ z.exits = Append(s.exits, [price |-> x, units |-> u, reason |-> why])
  BY <1>3, BooksExit
<1>6. p.units = s.units /\ p.exits = s.exits /\ Favours(p.stop, s.stop)
  BY DEF Nearer
<1>7. z.units = 0
  <2>1. \A i \in Int : i - i = 0
    OBVIOUS
  <2> QED BY <1>1, <1>2, <1>5, <1>6, <2>1
<1>8. q.exits = z.exits /\ Favours(q.stop, z.stop) /\ q.units = z.units
  BY <1>2, <1>4, <1>5, <1>6, <1>7, Zenon
<1>9. ~(q.units > 0)
  BY <1>4
<1> QED BY <1>8, <1>9 DEF Nearer

\* As long as no stop of the engine is hit the simulation takes the same exits, and
\* the engine's stop stays the nearer one.
LEMMA SimulationFollows ==
  ASSUME PlanTyped, SameTargets, Favours(plan.entry, 0), NEW p \in TradeSet, Tallied(p), p.units > 0,
         NEW s \in SimSet, NEW b \in Bars, NEW line \in Lines(b), NEW unwinds \in BOOLEAN,
         NEW q, q = ProcessBar(p, b, line, unwinds, FALSE), NoStopIn(q.exits)
  PROVE  NoStopIn(p.exits) /\ (Nearer(p, s) => Nearer(q, SimulateBar(s, b, line, FALSE)))
<1> DEFINE m == Marked(p, b)
           t == FirstTarget(m, b)
           v == Moves(t, b, line, unwinds)
           ts == SimFirst(s, b)
           vs == SimTrail(ts, line)
           z == SimulateBar(s, b, line, FALSE)
<1>0. SimTarget1 = plan.one /\ SimTarget2 = plan.two /\ SimAtFirst = AtFirst
  BY DEF SameTargets, SimAtFirst, AtFirst
<1>1. m \in TradeSet /\ m.st = p.st /\ m.units = p.units /\ m.exits = p.exits /\ m.stop = p.stop
  BY MarkIs
<1>2. Tallied(m) /\ m.units > 0 /\ m.st \in {"OPEN", "PARTIAL"}
  BY <1>1 DEF Tallied, TradeSet
<1>3. NoStopIn(p.exits)
  <2>1. CASE p.st = "OPEN"
    BY <2>1 DEF Tallied, NoStopIn
  <2>2. CASE p.st = "PARTIAL"
    <3>1. PICK a : a = AtFirst
      OBVIOUS
    <3>2. a.reason # "stop"
      BY <3>1 DEF AtFirst
    <3>3. p.exits = <<a>>
      BY <2>2, <3>1 DEF Tallied
    <3>4. DOMAIN <<a>> = {1} /\ <<a>>[1] = a
      OBVIOUS
    <3> QED BY <3>2, <3>3, <3>4 DEF NoStopIn
  <2> QED BY <1>1, <1>2, <2>1, <2>2
<1> SUFFICES ASSUME Nearer(p, s) PROVE Nearer(q, z)
  BY <1>3
<1>4. Nearer(m, s) /\ (m.st = "PARTIAL" <=> s.partial)
  BY <1>1, <1>2 DEF Nearer
<1>5. plan.one \in Int /\ plan.two \in Int /\ plan.entry \in Int /\ m.stop \in Int /\ s.stop \in Int /\ m.units \in Int
      /\ Against(b) \in Int
  BY <1>1, BarsFit DEF PlanTyped, PlanSet, TradeSet, SimSet
<1>6. ~Stopped(m, b)
  <2> SUFFICES ASSUME Stopped(m, b) PROVE FALSE
    OBVIOUS
  <2>1. q = TakeOff(m, m.stop, m.units, "stop")
    BY DEF ProcessBar, m
  <2> HIDE DEF m, t, v, ts, vs, z
  <2>2. ~NoStopIn(q.exits)
    BY <1>1, <1>2, <2>1, StopShows
  <2> QED BY <2>2
<1>7. ~Favours(s.stop, Against(b))
  BY <1>4, <1>5, <1>6, FavoursChains DEF Nearer, Stopped, PlanTyped
<1> HIDE DEF m
<1>8. t \in TradeSet /\ Tallied(t) /\ ts \in SimSet /\ Nearer(t, ts) /\ t.units > 0
  <2>1. CASE m.st = "OPEN" /\ Favours(Beyond(b), plan.one)
    <3>1. t # m => /\ t.st = "PARTIAL" /\ t.units = m.units - 1 /\ t.exits = Append(m.exits, AtFirst)
                   /\ t.stop = Better(m.stop, plan.entry)
      BY <1>1, <1>2, FirstIs
    <3>2. t \in TradeSet /\ Tallied(t)
      BY <1>1, <1>2, FirstIs
    <3>3. t.st = "PARTIAL"
      <4>1. t = Breakeven([TakeOff(m, plan.one, 1, "target1") EXCEPT !.st = "PARTIAL"])
        BY <2>1 DEF FirstTarget
      <4>2. TakeOff(m, plan.one, 1, "target1") \in TradeSet
        <5>1. plan.one \in Int /\ 1 \in Int /\ "target1" \in Reasons
          BY <1>5, ReasonsAre
        <5> QED BY <1>1, <5>1, TakenOffOnce, Zenon
      <4> QED BY <4>1, <4>2 DEF Breakeven, TradeSet
    <3>4. t # m
      BY <2>1, <3>3
    <3>5. /\ ts \in SimSet /\ ts.partial /\ ts.units = s.units - 1 /\ ts.exits = Append(s.exits, AtFirst)
          /\ ts.stop = Better(s.stop, 0)
      BY <1>0, <1>4, <2>1, SimFirstIs
    <3>6. t.units = 1
      BY <3>2, <3>3 DEF Tallied
    <3>7. Favours(Better(m.stop, plan.entry), Better(s.stop, 0))
      BY <1>4, <1>5, BetterStays DEF Nearer, PlanTyped
    <3> HIDE DEF t, ts
    <3>8. Nearer(t, ts)
      BY <1>4, <3>1, <3>3, <3>4, <3>5, <3>7 DEF Nearer
    <3> QED BY <3>2, <3>5, <3>6, <3>8
  <2>2. CASE ~(m.st = "OPEN" /\ Favours(Beyond(b), plan.one))
    <3>1. t = m
      BY <1>1, <1>2, <2>2, FirstIs
    <3>2. ts = s
      BY <1>0, <1>2, <1>4, <2>2, SimFirstIs
    <3> QED BY <1>1, <1>2, <1>4, <3>1, <3>2
  <2> QED BY <2>1, <2>2
<1> HIDE DEF t, ts
<1>9. (t.st = "PARTIAL" <=> ts.partial) /\ t.units = ts.units /\ t.exits = ts.exits /\ Favours(t.stop, ts.stop)
  BY <1>8 DEF Nearer
<1>10. t.stop \in Int /\ ts.stop \in Int /\ t.units \in Int /\ (line # None => line \in Int)
  BY <1>8, ParametersFit DEF TradeSet, SimSet, Lines
<1>11. CASE SecondTarget(t, b)
  <2>1. q = TakeOff(t, plan.two, t.units, "target2") /\ z = Book(ts, plan.two, t.units, "target2")
    BY <1>0, <1>6, <1>7, <1>9, <1>11 DEF ProcessBar, SimulateBar, SecondTarget, m, t, ts
  <2> HIDE DEF v, vs, z
  <2> QED BY <1>8, <2>1, SecondAgrees
<1>12. CASE ~SecondTarget(t, b)
  <2>1. q = v /\ z = vs
    BY <1>0, <1>6, <1>7, <1>9, <1>12 DEF ProcessBar, SimulateBar, SquaredAt, SimClose, SecondTarget, Moves, m, t, ts
  <2>2. /\ KeepsIt(v, t)
        /\ Favours(v.stop, IF t.st = "PARTIAL" /\ line # None THEN Better(t.stop, line) ELSE t.stop)
    BY <1>8, MovesHold, MovesBeyond
  <2>3. /\ vs.units = ts.units /\ vs.partial = ts.partial /\ vs.exits = ts.exits
        /\ vs.stop = IF ts.partial /\ line # None THEN Better(ts.stop, line) ELSE ts.stop
    BY <1>8, SimTrails
  <2> HIDE DEF v, vs, z
  <2>4. v.stop \in Int
    BY <2>2 DEF KeepsIt, TradeSet
  <2>5. CASE t.st = "PARTIAL" /\ line # None
    <3>1. Favours(Better(t.stop, line), Better(ts.stop, line)) /\ Better(t.stop, line) \in Int /\ Better(ts.stop, line) \in Int
      BY <1>9, <1>10, <2>5 DEF PlanTyped, Favours, Better
    <3>2. Favours(v.stop, Better(ts.stop, line))
      BY <2>2, <2>4, <2>5, <3>1, FavoursChains DEF PlanTyped
    <3> QED BY <1>9, <2>1, <2>2, <2>3, <2>5, <3>2 DEF Nearer, KeepsIt, z
  <2>6. CASE ~(t.st = "PARTIAL" /\ line # None)
    <3>1. Favours(v.stop, ts.stop)
      BY <1>9, <1>10, <2>2, <2>4, <2>6, FavoursChains DEF PlanTyped
    <3> QED BY <1>9, <2>1, <2>2, <2>3, <2>6, <3>1 DEF Nearer, KeepsIt, z
  <2> QED BY <2>5, <2>6
<1> QED BY <1>11, <1>12

-----------------------------------------------------------------------------
(* The walk                                                                *)

\* The plan of an entry has its second target beyond its first, whatever the walls are.
LEMMA PlanFits ==
  ASSUME WalkInit
  PROVE  StopInv
<1>1. dir \in {1, -1} /\ when = "day"
  BY DEF WalkInit
<1>2. PICK wall \in Behind(dir), opposing \in Ahead(dir), line \in Prices \cup {None}, fill \in {0, dir} :
       LET stop == PlannedStop(dir, StopCandidates(dir, wall, line))
           to == PlannedTargets(dir, opposing)
       IN \E levels \in {{}, {k \in Strikes : Between(k, stop, to[2])}} :
            /\ plan = [stop |-> stop, one |-> to[1], two |-> to[2], levels |-> levels, wall |-> wall, entry |-> fill]
            /\ trade = [st |-> "OPEN", stop |-> stop, units |-> 2, exits |-> <<>>, best |-> 0]
            /\ sim = [partial |-> FALSE, stop |-> SimStop, units |-> 2, exits |-> <<>>]
  BY DEF WalkInit
<1> DEFINE cands == StopCandidates(dir, wall, line)
           stop == PlannedStop(dir, cands)
           to == PlannedTargets(dir, opposing)
<1>3. wall \in Int /\ (line # None => line \in Int) /\ (opposing # None => opposing \in Int) /\ fill \in Int
  BY <1>1, ParametersFit DEF Behind, Ahead, None
<1>4. stop \in Int /\ SimStop \in Int /\ Favours(stop, SimStop)
  <2> DEFINE ok == {c \in cands : c * dir < -MinGap}
             x == -dir * HardStop
             y == wall - dir * Buffer
  <2>1. x \in Int /\ y \in Int /\ -dir * FallbackStop \in Int
    BY <1>1, <1>3, ParametersFit
  <2>2. cands \subseteq {x, y, line} /\ \A c \in cands : c \in Int
    BY <1>3, <2>1 DEF StopCandidates
  <2>3. IsFiniteSet({x, y, line})
    <3> HIDE DEF x, y
    <3> QED BY FewAreFinite
  <2> HIDE DEF x, y
  <2>4. IsFiniteSet(ok) /\ \A c \in ok : c \in Int
    <3>1. ok \subseteq {x, y, line}
      BY <2>2
    <3>2. IsFiniteSet(ok)
      <4> HIDE DEF ok
      <4> QED BY <2>3, <3>1, FS_Subset
    <3> QED BY <2>2, <3>2
  <2>5. stop = IF ok = {} THEN -dir * FallbackStop ELSE IF dir = 1 THEN Max(ok) ELSE Min(ok)
    BY DEF PlannedStop
  <2>6. x \in ok /\ SimStop = x
    <3>1. x \in cands
      BY DEF StopCandidates, x
    <3>2. x * dir < -MinGap
      BY <1>1, ParametersFit, StopWalkAssumption DEF x
    <3> QED BY <3>1, <3>2 DEF SimStop, x
  <2> HIDE DEF ok, stop
  <2>7. Max(ok) \in Int /\ Min(ok) \in Int /\ Max(ok) >= x /\ Min(ok) <= x
    BY <2>4, <2>6, MaxIsThere, MinIsThere DEF Max, Min
  <2> QED BY <1>1, <2>1, <2>5, <2>6, <2>7 DEF Favours
<1>5. to[1] \in Int /\ to[2] \in Int /\ (dir = 1 => to[2] > to[1]) /\ (dir = -1 => to[2] < to[1])
  <2>1. CASE Reaches(dir, opposing)
    <3>1. opposing \in Int /\ opposing * dir \in WallNear..WallFar
      BY <1>3, <2>1 DEF Reaches
    <3>2. to[1] = opposing /\ to[2] = 2 * opposing
      BY <2>1 DEF PlannedTargets
    <3>3. (dir = 1 => opposing > 0) /\ (dir = -1 => opposing < 0)
      BY <3>1, ParametersFit
    <3> HIDE DEF to
    <3> QED BY <3>1, <3>2, <3>3
  <2>2. CASE ~Reaches(dir, opposing)
    <3>1. to[1] = dir * FirstAt /\ to[2] = dir * SecondAt
      BY <2>2 DEF PlannedTargets
    <3> HIDE DEF to
    <3> QED BY <1>1, <3>1, ParametersFit
  <2> QED BY <2>1, <2>2
<1>6. PICK levels \in {{}, {k \in Strikes : Between(k, stop, to[2])}} :
         /\ plan = [stop |-> stop, one |-> to[1], two |-> to[2], levels |-> levels, wall |-> wall, entry |-> fill]
         /\ trade = [st |-> "OPEN", stop |-> stop, units |-> 2, exits |-> <<>>, best |-> 0]
         /\ sim = [partial |-> FALSE, stop |-> SimStop, units |-> 2, exits |-> <<>>]
  BY <1>2
<1>7. levels \in SUBSET Strikes
  OBVIOUS
<1> HIDE DEF stop, to
<1>8. plan \in PlanSet /\ Favours(plan.two, plan.one) /\ Favours(plan.entry, 0)
  BY <1>1, <1>3, <1>4, <1>5, <1>6, <1>7 DEF PlanSet, Favours
<1>9. trade \in TradeSet /\ sim \in SimSet
  <2>1. <<>> \in Seq(ExitRow)
    OBVIOUS
  <2> QED BY <1>4, <1>6, <2>1 DEF TradeSet, SimSet
<1>10. Tallied(trade) /\ Nearer(trade, sim) /\ (SamePlan => OnePath(trade, sim))
  BY <1>4, <1>6 DEF Tallied, Nearer, OnePath, SamePlan
<1>11. Graded(trade, sim)
  BY <1>10 DEF Graded
<1> QED BY <1>1, <1>8, <1>9, <1>10, <1>11 DEF StopInv

\* A bar leaves the two walks together and closes nothing at a loss that has booked target 1.
LEMMA BarsWalked ==
  ASSUME StopInv, NEW b \in Bars, NEW line \in Lines(b), NEW unwinds \in BOOLEAN, NEW at \in {"day", "square", "over"},
         Bar(b, line, unwinds, at)
  PROVE  StopInv' /\ (trade.st = "PARTIAL" /\ trade'.st = "CLOSED" => SafelyClosed(trade)')
<1>1. PlanTyped /\ Favours(plan.two, plan.one) /\ trade \in TradeSet /\ sim \in SimSet /\ Tallied(trade)
  BY DEF StopInv, PlanTyped
<1>2. plan' = plan /\ dir' = dir /\ when' = at
  BY DEF Bar
<1>3. \A p : /\ Tallied(p)' <=> Tallied(p)
             /\ SafelyClosed(p)' <=> SafelyClosed(p)
  BY <1>2 DEF Tallied, SafelyClosed, AtFirst, Favours
<1>4. trade' \in TradeSet /\ Tallied(trade') /\ (trade.st = "PARTIAL" /\ trade'.st = "CLOSED" => SafelyClosed(trade'))
  <2>1. CASE trade.units = 0
    BY <1>1, <2>1 DEF Bar, Tallied
  <2>2. CASE trade.units # 0
    <3>1. trade.units > 0
      BY <1>1, <2>2 DEF Tallied, TradeSet
    <3> DEFINE late == at # "day"
               q == ProcessBar(trade, b, line, unwinds, late)
    <3>2. trade' = q
      BY <2>2 DEF Bar
    <3>3. late \in BOOLEAN
      OBVIOUS
    <3> HIDE DEF late
    <3>4. q \in TradeSet /\ Tallied(q) /\ (trade.st = "PARTIAL" /\ q.st = "CLOSED" => SafelyClosed(q))
      BY <1>1, <3>1, <3>3, BarIsProcessed
    <3> HIDE DEF q
    <3> QED BY <3>2, <3>4
  <2> QED BY <2>1, <2>2
<1>5. sim' \in SimSet
  <2> DEFINE last == at = "over"
  <2>2. last \in BOOLEAN
    OBVIOUS
  <2>3. sim' = IF sim.units = 0 THEN sim ELSE SimulateBar(sim, b, line, last)
    BY DEF Bar
  <2> HIDE DEF last
  <2> QED BY <1>1, <2>2, <2>3, BarIsSimulated
<1>6. (when = "day" /\ SameTargets)' => Graded(trade', sim')
  <2> SUFFICES ASSUME SameTargets', when' = "day"
               PROVE  Graded(trade', sim')
    OBVIOUS
  <2>1. SameTargets
    BY <1>2 DEF SameTargets, SimTarget1, SimTarget2
  <2>2. at = "day" /\ when = "day"
    BY <1>2 DEF Bar, StopInv
  <2>3. (at # "day") = FALSE /\ (at = "over") = FALSE
    BY <2>2
  <2>4. /\ NoStopIn(trade.exits) => Nearer(trade, sim)
        /\ SamePlan => OnePath(trade, sim)
    BY <2>1, <2>2 DEF StopInv, Graded
  <2>5. /\ trade' = IF trade.units = 0 THEN trade ELSE ProcessBar(trade, b, line, unwinds, at # "day")
        /\ sim' = IF sim.units = 0 THEN sim ELSE SimulateBar(sim, b, line, at = "over")
    BY DEF Bar
  <2>6. /\ trade' = IF trade.units = 0 THEN trade ELSE ProcessBar(trade, b, line, unwinds, FALSE)
        /\ sim' = IF sim.units = 0 THEN sim ELSE SimulateBar(sim, b, line, FALSE)
    BY <2>3, <2>5, Zenon
  <2>7. CASE trade.units = 0
    <3>1. trade' = trade /\ (sim.units = 0 => sim' = sim)
      BY <2>6, <2>7
    <3>2. Nearer(trade, sim) \/ OnePath(trade, sim) => sim' = sim
      BY <2>7, <3>1 DEF Nearer, OnePath
    <3> QED BY <2>4, <3>1, <3>2 DEF Graded
  <2>8. CASE trade.units # 0
    <3>1. trade.units > 0
      BY <1>1, <2>8 DEF Tallied, TradeSet
    <3>2. trade' = ProcessBar(trade, b, line, unwinds, FALSE)
      BY <2>6, <2>8
    <3>3. Nearer(trade, sim) \/ OnePath(trade, sim) => sim' = SimulateBar(sim, b, line, FALSE)
      BY <2>6, <2>8 DEF Nearer, OnePath
    <3>4. ASSUME NoStopIn(trade'.exits) PROVE Nearer(trade', sim')
      <4>1. Favours(plan.entry, 0)
        BY DEF StopInv
      <4>2. NoStopIn(trade.exits) /\ (Nearer(trade, sim) => Nearer(trade', SimulateBar(sim, b, line, FALSE)))
        BY <1>1, <2>1, <3>1, <3>2, <3>4, <4>1, SimulationFollows
      <4> QED BY <2>4, <3>3, <4>2
    <3>5. ASSUME SamePlan PROVE OnePath(trade', sim')
      <4>1. plan.levels = {} /\ plan.wall = None /\ plan.entry = 0 /\ OnePath(trade, sim)
        BY <2>4, <3>5 DEF SamePlan
      <4>2. unwinds = FALSE
        BY <4>1 DEF Bar
      <4>3. trade' = ProcessBar(trade, b, line, FALSE, FALSE) /\ sim' = SimulateBar(sim, b, line, FALSE)
        BY <3>2, <3>3, <4>1, <4>2, Zenon
      <4> QED BY <1>1, <2>1, <3>1, <4>1, <4>3, SimulationMirrors
    <3> QED BY <3>4, <3>5 DEF Graded
  <2> QED BY <2>7, <2>8
<1>7. StopInv'
  <2>1. Tallied(trade)'
    BY <1>2, <1>4 DEF Tallied, AtFirst, Favours
  <2>2. dir' = dir /\ Favours(plan.entry, 0)
    BY <1>2 DEF StopInv
  <2>3. Graded(trade, sim)' <=> Graded(trade', sim')
    BY <1>2 DEF Graded, NoStopIn, Nearer, OnePath, Favours, SamePlan, SameTargets, SimStop, SimTarget1, SimTarget2
  <2>4. (Favours(plan.two, plan.one) /\ Favours(plan.entry, 0))'
    BY <1>1, <1>2, <2>2 DEF Favours
  <2> QED BY <1>1, <1>2, <1>4, <1>5, <1>6, <2>1, <2>3, <2>4 DEF StopInv, PlanTyped
<1>8. trade.st = "PARTIAL" /\ trade'.st = "CLOSED" => SafelyClosed(trade)'
  BY <1>2, <1>4 DEF SafelyClosed, AtFirst, Favours
<1> QED BY <1>7, <1>8

\* What two exits booked, in points.
LEMMA TwoExits ==
  ASSUME PlanTyped, NEW p \in TradeSet, SafelyClosed(p), Favours(plan.one, plan.entry)
  PROVE  Total(p) >= 0
<1> DEFINE f == [i \in DOMAIN p.exits |-> p.exits[i].units * dir * (p.exits[i].price - plan.entry)]
<1>1. p.exits \in Seq(ExitRow) /\ Len(p.exits) = 2
  BY DEF TradeSet, SafelyClosed
<1>2. DOMAIN f = {1, 2}
  BY <1>1
<1>3. p.exits[2] \in ExitRow /\ plan.one \in Int /\ plan.entry \in Int
  BY <1>1 DEF PlanTyped, PlanSet
<1>4. p.exits[1].units = 1 /\ p.exits[1].price = plan.one /\ p.exits[2].units = 1 /\ p.exits[2].price \in Int
  BY <1>3 DEF SafelyClosed, AtFirst, ExitRow
<1>5. f[1] = dir * (plan.one - plan.entry) /\ f[2] = dir * (p.exits[2].price - plan.entry)
  <2>1. f[1] = p.exits[1].units * dir * (p.exits[1].price - plan.entry)
    BY <1>2
  <2>2. f[2] = p.exits[2].units * dir * (p.exits[2].price - plan.entry)
    BY <1>2
  <2> HIDE DEF f
  <2> QED BY <1>3, <1>4, <2>1, <2>2 DEF PlanTyped
<1>6. Total(p) = SumFunctionOnSet(f, {1, 2})
  BY <1>2 DEF Total, SumFunction
<1> HIDE DEF f
<1>7. f[1] \in Int /\ f[1] >= 0 /\ f[2] \in Int /\ f[2] >= 0
  BY <1>3, <1>4, <1>5 DEF SafelyClosed, Favours, PlanTyped
<1>8. SumFunctionOnSet(f, {1, 2}) \in Nat
  <2>1. IsFiniteSet({1, 2})
    BY PairIsFinite
  <2>2. \A i \in {1, 2} : f[i] \in Nat
    BY <1>7
  <2> QED BY <2>1, <2>2, SumNonNegative
<1> QED BY <1>6, <1>8

\* So does every step of the day.
LEMMA WalkStep == StopInv /\ [WalkNext]_walkVars
                  => StopInv' /\ (trade.st = "PARTIAL" /\ trade'.st = "CLOSED" => SafelyClosed(trade)')
<1> SUFFICES ASSUME StopInv, [WalkNext]_walkVars
             PROVE  StopInv' /\ (trade.st = "PARTIAL" /\ trade'.st = "CLOSED" => SafelyClosed(trade)')
  OBVIOUS
<1>1. CASE WalkNext
  <2>1. PICK b \in Bars : \E line \in Lines(b), unwinds \in BOOLEAN, at \in {"day", "square", "over"} :
                            Bar(b, line, unwinds, at)
    BY <1>1 DEF WalkNext
  <2>2. PICK line \in Lines(b), unwinds \in BOOLEAN, at \in {"day", "square", "over"} : Bar(b, line, unwinds, at)
    BY <2>1
  <2> QED BY <2>2, BarsWalked
<1>2. CASE UNCHANGED walkVars
  BY <1>2 DEF walkVars, StopInv, Tallied, Graded, OnePath, Nearer, NoStopIn, SamePlan, SameTargets, SimStop, SimTarget1,
              SimTarget2, Favours, AtFirst
<1> QED BY <1>1, <1>2

\* simulate_position grades the day with the exits the engine takes, as long as
\* the engine aims at the targets of the ATR and until its stop is hit, which is
\* never the looser one; with a plan that is all of the ATR, to the end of the
\* day (src/engine/exits.py), for any prices and any number of bars.
THEOREM SimulationGrades == WalkSpec => []SimulationAgrees
<1>1. StopInv => SimulationAgrees
  <2> SUFFICES ASSUME StopInv, when = "day", SameTargets
               PROVE  /\ NotStopped => trade.exits = sim.exits /\ trade.units = sim.units /\ Favours(trade.stop, sim.stop)
                      /\ SamePlan => trade.exits = sim.exits /\ trade.units = sim.units /\ trade.stop = sim.stop
    BY DEF SimulationAgrees
  <2>1. (NoStopIn(trade.exits) => Nearer(trade, sim)) /\ (SamePlan => OnePath(trade, sim))
    BY DEF StopInv, Graded
  <2>2. NotStopped <=> NoStopIn(trade.exits)
    BY DEF NotStopped, NoStopIn
  <2> QED BY <2>1, <2>2 DEF OnePath, Nearer
<1> QED BY <1>1, PlanFits, WalkStep, PTL DEF WalkSpec

\* A position that has booked target 1 does not end in a loss.
THEOREM PartialsAreRiskFree == WalkSpec => RiskFree
<1>1. StopInv /\ [WalkNext]_walkVars
      => [trade.st = "PARTIAL" /\ trade'.st = "CLOSED" /\ Favours(plan.one, plan.entry) => Total(trade') >= 0]_walkVars
  <2> SUFFICES ASSUME StopInv, [WalkNext]_walkVars, trade.st = "PARTIAL", trade'.st = "CLOSED", Favours(plan.one, plan.entry)
               PROVE  Total(trade') >= 0
    OBVIOUS
  <2>1. plan' = plan /\ dir' = dir
    BY DEF WalkNext, Bar, walkVars
  <2>2. trade' \in TradeSet /\ PlanTyped /\ SafelyClosed(trade')
    BY <2>1, WalkStep DEF StopInv, PlanTyped, SafelyClosed, AtFirst, Favours
  <2> QED BY <2>2, TwoExits
<1> QED BY <1>1, PlanFits, WalkStep, PTL DEF WalkSpec, RiskFree

=============================================================================
