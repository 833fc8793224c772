------------------------ MODULE SessionLoop_proofs ------------------------
(***************************************************************************)
(* Theorems about SessionLoop for every set of contracts, every bound and  *)
(* every set of admitted faults.                                           *)
(*                                                                         *)
(* The inductive invariant adds to the type of the state where in the tick *)
(* each kind of order or journal write can be in progress, and how the     *)
(* quantity it carries relates to the position it is about.                *)
(***************************************************************************)
EXTENDS SessionLoop, TLAPS

Ordering == {"flatten", "loss", "exits"}

\* An order or a write in progress belongs to the loop the engine is in.
JobPlace ==
  /\ job.kind # "none" => up
  /\ job.kind \in {"exit", "partial", "partial2"} => pc \in Ordering
  /\ job.kind \in {"close", "close2"} => pc \in Ordering \cup {"reconcile"}
  /\ job.kind \in {"entry", "open"} => pc = "entries"

\* Its quantity fits the tracked position.
JobFits ==
  /\ job.kind = "exit" => IF job.full THEN job.qty = Abs(pos[job.sym])
                                      ELSE job.qty < Abs(pos[job.sym])
  /\ job.kind \in {"partial", "partial2"} => job.qty < Abs(pos[job.sym])
  /\ job.kind \in {"close", "close2"} => job.qty = Abs(pos[job.sym])
  /\ job.kind \in {"entry", "open"} => pos[job.sym] = 0

\* The exit loops visit held contracts, and none with a job again.
TodoHeld ==
  pc \in Ordering => /\ \A s \in todo : pos[s] # 0
                     /\ job.kind # "none" => job.sym \notin todo

Control == JobPlace /\ JobFits /\ TodoHeld
Inv == TypeOK /\ Control

\* What place() may answer, for a positive quantity.
LEMMA AnswersFit ==
  ASSUME NEW q \in Nat \ {0}, NEW o \in Answers(q)
  PROVE  /\ o.done \in Nat /\ o.left \in Nat /\ o.seen \in 0..q
         /\ o.status = "FILLED" => o.seen # 0
         /\ Slipped(o) => slips < MaxSlips
  BY DEF Answers, PaperAnswers, LiveAnswers, CleanAnswers, RestingAnswers,
         UnheardAnswers, Answer, Slipped

\* The Boolean variables stay Boolean.
LEMMA SwitchesStep ==
  ASSUME SwitchesOK, [Next]_vars PROVE SwitchesOK'
<1> USE DEF SwitchesOK, memory, config, journal, ghosts
<1>1. CASE TickBegin
  BY <1>1, Zenon DEF TickBegin
<1>2. ASSUME NEW s \in Sym, FlattenOne(s) PROVE SwitchesOK'
  BY <1>2, Zenon DEF FlattenOne
<1>3. CASE FlattenEnd
  BY <1>3, Zenon DEF FlattenEnd
<1>4. ASSUME NEW s \in Sym, ManageHold(s) PROVE SwitchesOK'
  BY <1>4, Zenon DEF ManageHold
<1>5. ASSUME NEW s \in Sym, ManagePartial(s) PROVE SwitchesOK'
  BY <1>5, Zenon DEF ManagePartial
<1>6. ASSUME NEW s \in Sym, ManageExit(s) PROVE SwitchesOK'
  BY <1>6, Zenon DEF ManageExit
<1>7. CASE PlaceExit
  BY <1>7, Zenon DEF PlaceExit
<1>8. CASE BookPartial
  BY <1>8, Zenon DEF BookPartial
<1>9. CASE ShrinkRow
  BY <1>9, Zenon DEF ShrinkRow
<1>10. CASE CloseRow
  BY <1>10, Zenon DEF CloseRow
<1>11. CASE BookClose
  BY <1>11, Zenon DEF BookClose
<1>12. CASE ExitsEnd
  BY <1>12, Zenon DEF ExitsEnd
<1>13. CASE RiskCheck
  BY <1>13, Zenon DEF RiskCheck
<1>14. CASE HaltRead
  BY <1>14, Zenon DEF HaltRead
<1>15. CASE PersistHalt
  BY <1>15, Zenon DEF PersistHalt
<1>16. CASE ScanAndGate
  BY <1>16, Zenon DEF ScanAndGate
<1>17. ASSUME NEW s \in Sym, EntryApprove(s) PROVE SwitchesOK'
  BY <1>17, Zenon DEF EntryApprove
<1>18. ASSUME NEW s \in Sym, EntryRefuse(s) PROVE SwitchesOK'
  BY <1>18, Zenon DEF EntryRefuse
<1>19. CASE PlaceEntry
  BY <1>19, Zenon DEF PlaceEntry
<1>20. CASE OpenRow
  BY <1>20, Zenon DEF OpenRow
<1>21. CASE EntriesEnd
  BY <1>21, Zenon DEF EntriesEnd
<1>22. CASE Start
  BY <1>22, Zenon DEF Start
<1>23. ASSUME NEW s \in Sym, ReconcileMatch(s) PROVE SwitchesOK'
  BY <1>23, Zenon DEF ReconcileMatch
<1>24. ASSUME NEW s \in Sym, ReconcileGhost(s) PROVE SwitchesOK'
  BY <1>24, Zenon DEF ReconcileGhost
<1>25. ASSUME NEW s \in Sym, ReconcileAdopt(s) PROVE SwitchesOK'
  BY <1>25, Zenon DEF ReconcileAdopt
<1>26. CASE ReconcileEnd
  BY <1>26, Zenon DEF ReconcileEnd
<1>27. CASE KillFlatten
  BY <1>27, Zenon DEF KillFlatten
<1>28. CASE KillHalt
  BY <1>28, Zenon DEF KillHalt
<1>29. CASE PauseFlatten
  BY <1>29, Zenon DEF PauseFlatten
<1>30. CASE ResumeHalt
  BY <1>30, Zenon DEF ResumeHalt
<1>31. CASE ResumeFlags
  BY <1>31, Zenon DEF ResumeFlags
<1>32. CASE Kill
  BY <1>32, Zenon DEF Kill
<1>33. CASE Pause
  BY <1>33, Zenon DEF Pause
<1>34. CASE Resume
  BY <1>34, Zenon DEF Resume
<1>35. CASE SetMode
  BY <1>35, Zenon DEF SetMode
<1>36. CASE SquareOff
  BY <1>36, Zenon DEF SquareOff
<1>37. CASE NextDay
  BY <1>37, Zenon DEF NextDay
<1>38. ASSUME NEW s \in Sym, RestFill(s) PROVE SwitchesOK'
  BY <1>38, Zenon DEF RestFill
<1>39. CASE Crash
  BY <1>39, Zenon DEF Crash
<1>40. CASE UNCHANGED vars
  BY <1>40, Zenon DEF vars
<1> QED
  BY <1>1, <1>2, <1>3, <1>4, <1>5, <1>6, <1>7, <1>8, <1>9, <1>10, <1>11, <1>12, <1>13, <1>14, <1>15, <1>16, <1>17, <1>18, <1>19, <1>20, <1>21, <1>22, <1>23, <1>24, <1>25, <1>26, <1>27, <1>28, <1>29, <1>30, <1>31, <1>32, <1>33, <1>34, <1>35, <1>36, <1>37, <1>38, <1>39, <1>40 DEF Next, Engine, Exits, Entering, Halting, StartUp, Handlers, Operator, Market

\* Every reachable state is typed, and every order or journal write in progress
\* sits in the loop that started it with a quantity the position covers.
THEOREM TypeCorrect == Spec => []Inv
<1>1. Init => Inv
  <2> SUFFICES ASSUME Init PROVE Inv
    OBVIOUS
  <2>1. SwitchesOK
    BY Zenon DEF Init, SwitchesOK
  <2> QED
    BY <2>1, ConstantsAssumption DEF Init, NoShares, Abs, NoJob, Inv, TypeOK, Control, JobPlace, JobFits, TodoHeld, Ordering, JobOK, JobKinds
<1>2. Inv /\ [Next]_vars => Inv'
  <2> SUFFICES ASSUME Inv, [Next]_vars PROVE Inv'
    OBVIOUS
  <2>0. SwitchesOK'
    BY SwitchesStep, Zenon DEF Inv, TypeOK
  <2> USE ConstantsAssumption DEF Inv, TypeOK, Control, JobPlace, JobFits, TodoHeld, Ordering, JobOK, JobKinds, NoJob, Idle,
             Abs, Sign, Held, SameSide, Serving, NoShares, ExitJob, WriteJob, MayHold,
             Rearm, RestoredHalt, RulesPass
  <2>1. CASE TickBegin
    <3>1. /\ pc' \in {"flatten", "exits"} /\ todo' = Held /\ job' = job /\ job = NoJob
          /\ UNCHANGED <<up, pos>>
      BY <2>1 DEF TickBegin
    <3>2. Control'
      BY <3>1
    <3>3. /\ engineDay' = day /\ tick' = phase
          /\ haltFlags' \in {haltFlags, {}} /\ sealed' \in {sealed, 0}
          /\ UNCHANGED <<row, booked, config, account, clock, book, api, opened, counts>>
      BY <2>1 DEF TickBegin
    <3>4. TypeOK'
      BY <2>0, <3>1, <3>3 DEF vars, memory, journal, config, account, clock, control, ghosts, counts
    <3> QED
      BY <3>2, <3>4
  <2>2. ASSUME NEW s \in Sym, FlattenOne(s) PROVE Inv'
    BY <2>0, <2>2 DEF FlattenOne, vars, memory, journal, config, account, clock, control, ghosts, counts
  <2>3. CASE FlattenEnd
    BY <2>0, <2>3 DEF FlattenEnd, vars, memory, journal, config, account, clock, control, ghosts, counts
  <2>4. ASSUME NEW s \in Sym, ManageHold(s) PROVE Inv'
    BY <2>0, <2>4 DEF ManageHold, vars, memory, journal, config, account, clock, control, ghosts, counts
  <2>5. ASSUME NEW s \in Sym, ManagePartial(s) PROVE Inv'
    BY <2>0, <2>5 DEF ManagePartial, vars, memory, journal, config, account, clock, control, ghosts, counts
  <2>6. ASSUME NEW s \in Sym, ManageExit(s) PROVE Inv'
    BY <2>0, <2>6 DEF ManageExit, vars, memory, journal, config, account, clock, control, ghosts, counts
  <2>7. CASE PlaceExit
    <3>1. PICK o \in Answers(job.qty) :
            /\ net' = [net EXCEPT ![job.sym] = @ - Sign(pos[job.sym]) * o.done]
            /\ restSell' = [restSell EXCEPT ![job.sym] = IF pos[job.sym] > 0 THEN @ + o.left ELSE @]
            /\ restBuy' = [restBuy EXCEPT ![job.sym] = IF pos[job.sym] > 0 THEN @ ELSE @ + o.left]
            /\ job' = AfterExit(job, o)
            /\ slips' = IF Slipped(o) THEN slips + 1 ELSE slips
      BY <2>7 DEF PlaceExit
    <3>2. /\ job.sym \in Sym /\ job.qty \in Nat \ {0} /\ pc \in Ordering /\ up
          /\ UNCHANGED <<memory, journal, config, clock, pc, tick, todo, book, api,
                         ghosts, entries, crashes, ops>>
      BY <2>7 DEF PlaceExit
    <3>3. /\ o.done \in Nat /\ o.left \in Nat /\ o.seen \in 0..job.qty
          /\ o.status = "FILLED" => o.seen # 0
          /\ Slipped(o) => slips < MaxSlips
      BY <3>1, <3>2, AnswersFit
    <3>4. \/ job' = NoJob
          \/ /\ job' = WriteJob("partial", job.sym, o.seen)
             /\ o.seen \in Nat \ {0} /\ o.seen < Abs(pos[job.sym])
          \/ job' = WriteJob("close", job.sym, job.qty) /\ job.qty = Abs(pos[job.sym])
      BY <2>7, <3>1, <3>2, <3>3 DEF AfterExit, PlaceExit
    <3>5. JobOK' /\ Control'
      BY <2>7, <3>2, <3>4 DEF PlaceExit, memory
    <3>6. /\ net' \in [Sym -> Int] /\ restBuy' \in [Sym -> Nat] /\ restSell' \in [Sym -> Nat]
          /\ slips' \in 0..MaxSlips
      BY <3>1, <3>2, <3>3
    <3> QED
      BY <2>0, <3>2, <3>5, <3>6 DEF vars, memory, journal, config, account, clock, control, ghosts, counts
  <2>8. CASE BookPartial
    BY <2>0, <2>8 DEF BookPartial, vars, memory, journal, config, account, clock, control, ghosts, counts
  <2>9. CASE ShrinkRow
    BY <2>0, <2>9 DEF ShrinkRow, vars, memory, journal, config, account, clock, control, ghosts, counts
  <2>10. CASE CloseRow
    BY <2>0, <2>10 DEF CloseRow, vars, memory, journal, config, account, clock, control, ghosts, counts
  <2>11. CASE BookClose
    BY <2>0, <2>11 DEF BookClose, vars, memory, journal, config, account, clock, control, ghosts, counts
  <2>12. CASE ExitsEnd
    BY <2>0, <2>12 DEF ExitsEnd, vars, memory, journal, config, account, clock, control, ghosts, counts
  <2>13. CASE RiskCheck
    BY <2>0, <2>13 DEF RiskCheck, vars, memory, journal, config, account, clock, control, ghosts, counts
  <2>14. CASE HaltRead
    BY <2>0, <2>14 DEF HaltRead, vars, memory, journal, config, account, clock, control, ghosts, counts
  <2>15. CASE PersistHalt
    BY <2>0, <2>15 DEF PersistHalt, vars, memory, journal, config, account, clock, control, ghosts, counts
  <2>16. CASE ScanAndGate
    BY <2>0, <2>16 DEF ScanAndGate, vars, memory, journal, config, account, clock, control, ghosts, counts
  <2>17. ASSUME NEW s \in Sym, EntryApprove(s) PROVE Inv'
    BY <2>0, <2>17 DEF EntryApprove, vars, memory, journal, config, account, clock, control, ghosts, counts
  <2>18. ASSUME NEW s \in Sym, EntryRefuse(s) PROVE Inv'
    BY <2>0, <2>18 DEF EntryRefuse, vars, memory, journal, config, account, clock, control, ghosts, counts
  <2>19. CASE PlaceEntry
    <3>1. PICK o \in Answers(job.qty) :
            /\ net' = [net EXCEPT ![job.sym] = @ + o.done]
            /\ restBuy' = [restBuy EXCEPT ![job.sym] = @ + o.left]
            /\ job' = AfterEntry(job, o)
            /\ slips' = IF Slipped(o) THEN slips + 1 ELSE slips
      BY <2>19 DEF PlaceEntry
    <3>2. /\ job.kind = "entry" /\ job.sym \in Sym /\ job.qty \in Nat \ {0} /\ up
          /\ UNCHANGED <<memory, journal, config, restSell, clock, pc, tick, todo,
                         book, api, ghosts, entries, crashes, ops>>
      BY <2>19 DEF PlaceEntry
    <3>3. /\ o.done \in Nat /\ o.left \in Nat /\ o.seen \in 0..job.qty
          /\ o.status = "FILLED" => o.seen # 0
          /\ Slipped(o) => slips < MaxSlips
      BY <3>1, <3>2, AnswersFit
    <3>4. \/ job' = NoJob
          \/ job' = WriteJob("open", job.sym, o.seen) /\ o.seen \in Nat \ {0}
      BY <3>1, <3>3 DEF AfterEntry
    <3>5. JobOK' /\ Control'
      BY <3>2, <3>4 DEF memory
    <3>6. /\ net' \in [Sym -> Int] /\ restBuy' \in [Sym -> Nat] /\ slips' \in 0..MaxSlips
      BY <3>1, <3>2, <3>3
    <3> QED
      BY <2>0, <3>2, <3>5, <3>6 DEF vars, memory, journal, config, account, clock, control, ghosts, counts
  <2>20. CASE OpenRow
    BY <2>0, <2>20 DEF OpenRow, vars, memory, journal, config, account, clock, control, ghosts, counts
  <2>21. CASE EntriesEnd
    BY <2>0, <2>21 DEF EntriesEnd, vars, memory, journal, config, account, clock, control, ghosts, counts
  <2>22. CASE Start
    BY <2>0, <2>22 DEF Start, vars, memory, journal, config, account, clock, control, ghosts, counts
  <2>23. ASSUME NEW s \in Sym, ReconcileMatch(s) PROVE Inv'
    BY <2>0, <2>23 DEF ReconcileMatch, vars, memory, journal, config, account, clock, control, ghosts, counts
  <2>24. ASSUME NEW s \in Sym, ReconcileGhost(s) PROVE Inv'
    BY <2>0, <2>24 DEF ReconcileGhost, vars, memory, journal, config, account, clock, control, ghosts, counts
  <2>25. ASSUME NEW s \in Sym, ReconcileAdopt(s) PROVE Inv'
    BY <2>0, <2>25 DEF ReconcileAdopt, vars, memory, journal, config, account, clock, control, ghosts, counts
  <2>26. CASE ReconcileEnd
    BY <2>0, <2>26 DEF ReconcileEnd, vars, memory, journal, config, account, clock, control, ghosts, counts
  <2>27. CASE KillFlatten
    BY <2>0, <2>27 DEF KillFlatten, vars, memory, journal, config, account, clock, control, ghosts, counts
  <2>28. CASE KillHalt
    BY <2>0, <2>28 DEF KillHalt, vars, memory, journal, config, account, clock, control, ghosts, counts
  <2>29. CASE PauseFlatten
    BY <2>0, <2>29 DEF PauseFlatten, vars, memory, journal, config, account, clock, control, ghosts, counts
  <2>30. CASE ResumeHalt
    BY <2>0, <2>30 DEF ResumeHalt, vars, memory, journal, config, account, clock, control, ghosts, counts
  <2>31. CASE ResumeFlags
    BY <2>0, <2>31 DEF ResumeFlags, vars, memory, journal, config, account, clock, control, ghosts, counts
  <2>32. CASE Kill
    BY <2>0, <2>32 DEF Kill, vars, memory, journal, config, account, clock, control, ghosts, counts
  <2>33. CASE Pause
    BY <2>0, <2>33 DEF Pause, vars, memory, journal, config, account, clock, control, ghosts, counts
  <2>34. CASE Resume
    BY <2>0, <2>34 DEF Resume, vars, memory, journal, config, account, clock, control, ghosts, counts
  <2>35. CASE SetMode
    BY <2>0, <2>35 DEF SetMode, vars, memory, journal, config, account, clock, control, ghosts, counts
  <2>36. CASE SquareOff
    BY <2>0, <2>36 DEF SquareOff, vars, memory, journal, config, account, clock, control, ghosts, counts
  <2>37. CASE NextDay
    BY <2>0, <2>37 DEF NextDay, vars, memory, journal, config, account, clock, control, ghosts, counts
  <2>38. ASSUME NEW s \in Sym, RestFill(s) PROVE Inv'
    BY <2>0, <2>38 DEF RestFill, vars, memory, journal, config, account, clock, control, ghosts, counts
  <2>39. CASE Crash
    BY <2>0, <2>39 DEF Crash, vars, memory, journal, config, account, clock, control, ghosts, counts
  <2>40. CASE UNCHANGED vars
    BY <2>0, <2>40 DEF vars, memory, journal, config, account, clock, control, ghosts, counts
  <2> QED
    BY <2>1, <2>2, <2>3, <2>4, <2>5, <2>6, <2>7, <2>8, <2>9, <2>10, <2>11, <2>12, <2>13, <2>14, <2>15, <2>16, <2>17, <2>18, <2>19, <2>20, <2>21, <2>22, <2>23, <2>24, <2>25, <2>26, <2>27, <2>28, <2>29, <2>30, <2>31, <2>32, <2>33, <2>34, <2>35, <2>36, <2>37, <2>38, <2>39, <2>40 DEF Next, Engine, Exits, Entering, Halting, StartUp, Handlers, Operator, Market
<1> QED
  BY <1>1, <1>2, PTL DEF Spec

-----------------------------------------------------------------------------
\* At every moment the journal would restore exactly what the engine manages
\* (SessionLoop, Store), for every fault of the broker link and every crash.
THEOREM JournalAlwaysMatches == Spec => []JournalMatchesTracked
<1>1. Init => JournalMatchesTracked
  BY DEF Init, JournalMatchesTracked
<1>2. Inv /\ JournalMatchesTracked /\ [Next]_vars => JournalMatchesTracked'
  <2> SUFFICES ASSUME Inv, JournalMatchesTracked, [Next]_vars
               PROVE  JournalMatchesTracked'
    OBVIOUS
  <2> USE DEF JournalMatchesTracked, Closing, memory, journal, control, Inv, TypeOK, JobOK,
              JobKinds, NoJob, Idle, WriteJob, ExitJob
  <2>1. ASSUME NEW s \in Sym, ManageHold(s) PROVE JournalMatchesTracked'
    BY <2>1 DEF ManageHold
  <2>2. CASE ShrinkRow
    BY <2>2 DEF ShrinkRow
  <2>3. CASE CloseRow
    BY <2>3 DEF CloseRow
  <2>4. CASE BookClose
    BY <2>4 DEF BookClose
  <2>5. CASE OpenRow
    BY <2>5 DEF OpenRow
  <2>6. CASE Start
    BY <2>6 DEF Start, Control, JobPlace
  <2>7. ASSUME NEW s \in Sym, ReconcileMatch(s) \/ ReconcileAdopt(s)
        PROVE  JournalMatchesTracked'
    <3>1. /\ UNCHANGED <<up, job>> /\ job = NoJob
          /\ pos' = [pos EXCEPT ![s] = book[s]] /\ row' = [row EXCEPT ![s] = book[s]]
      BY <2>7 DEF ReconcileMatch, ReconcileAdopt
    <3> QED
      BY <3>1
  <2>8. CASE Crash
    BY <2>8 DEF Crash
  <2>9. CASE PlaceExit
    BY <2>9 DEF PlaceExit, AfterExit
  <2>10. CASE PlaceEntry
    BY <2>10 DEF PlaceEntry, AfterEntry
  <2>11. ASSUME NEW s \in Sym,
               FlattenOne(s) \/ ManagePartial(s) \/ ManageExit(s) \/ EntryApprove(s)
               \/ EntryRefuse(s) \/ ReconcileGhost(s)
         PROVE JournalMatchesTracked'
    <3>1. UNCHANGED <<up, pos, row>> /\ job.kind = "none" /\ job'.kind # "close2"
      BY <2>11 DEF FlattenOne, ManagePartial, ManageExit, EntryApprove, EntryRefuse,
                   ReconcileGhost
    <3> QED
      BY <3>1
  <2>12. CASE \/ TickBegin \/ FlattenEnd \/ ExitsEnd \/ Halting
              \/ ScanAndGate \/ EntriesEnd \/ ReconcileEnd
    <3>1. UNCHANGED <<up, pos, row, job>>
      BY <2>12, Zenon DEF TickBegin, FlattenEnd, ExitsEnd, Halting, RiskCheck,
                   HaltRead, PersistHalt, ScanAndGate, EntriesEnd, ReconcileEnd
    <3> QED
      BY <3>1
  <2>13. CASE Handlers \/ Operator
    BY <2>13 DEF Handlers, Operator, KillFlatten, KillHalt, PauseFlatten, ResumeHalt,
                 ResumeFlags, Kill, Pause, Resume, SetMode
  <2>14. CASE Market
    BY <2>14 DEF Market, SquareOff, NextDay, RestFill
  <2>15. CASE UNCHANGED vars
    BY <2>15 DEF vars
  <2>16. CASE BookPartial
    BY <2>16 DEF BookPartial
  <2> QED
    BY <2>1, <2>2, <2>3, <2>4, <2>5, <2>6, <2>7, <2>8, <2>9, <2>10, <2>11, <2>12,
       <2>13, <2>14, <2>15, <2>16 DEF Next, Engine, Exits, Entering, StartUp
<1> QED
  BY <1>1, <1>2, TypeCorrect, PTL DEF Spec

-----------------------------------------------------------------------------
\* Every journalled share is on an OPEN row or booked once (Store.book_partial,
\* Store.close_position), until the process dies for the first time.
THEOREM LedgerAlwaysBalanced == Spec => []LedgerBalanced
<1> DEFINE Balance(s) == opened[s] - booked[s] - Abs(row[s]) = InFlight(s)
<1>1. Init => LedgerBalanced
  BY DEF Init, LedgerBalanced, InFlight, NoJob, Abs
<1>2. Inv /\ JournalMatchesTracked /\ LedgerBalanced /\ [Next]_vars => LedgerBalanced'
  <2> SUFFICES ASSUME Inv, JournalMatchesTracked, LedgerBalanced, [Next]_vars,
                      crashes' = 0, NEW t \in Sym
               PROVE  Balance(t)'
    BY DEF LedgerBalanced
  <2>0. crashes = 0 /\ Balance(t)
    <3>1. crashes = 0 \/ Crash
      BY Zenon DEF Next, vars, counts, Engine, Exits, Entering, Halting, StartUp,
         Handlers, Operator, Market,
         TickBegin, FlattenOne, FlattenEnd, ManageHold, ManagePartial, ManageExit,
         PlaceExit, BookPartial, ShrinkRow, CloseRow, BookClose, ExitsEnd, RiskCheck,
         HaltRead, PersistHalt, ScanAndGate, EntryApprove, EntryRefuse, PlaceEntry,
         OpenRow, EntriesEnd, Start, ReconcileMatch, ReconcileGhost, ReconcileAdopt,
         ReconcileEnd, KillFlatten, KillHalt, PauseFlatten, ResumeHalt, ResumeFlags,
         Kill, Pause, Resume, SetMode, SquareOff, NextDay, RestFill
    <3>2. ~Crash
      BY DEF Crash, Inv, TypeOK
    <3> QED
      BY <3>1, <3>2 DEF LedgerBalanced
  <2> USE DEF InFlight, Closing, memory, journal, control, Inv, TypeOK, JobOK,
              JobKinds, NoJob, Idle, WriteJob, ExitJob, ghosts
  <2>1. ASSUME NEW s \in Sym, ManageHold(s) PROVE Balance(t)'
    BY <2>0, <2>1 DEF ManageHold, JournalMatchesTracked
  <2>2. CASE BookPartial
    <3>1. /\ job.kind = "partial" /\ job.sym \in Sym /\ UNCHANGED <<opened, row>>
          /\ booked' = [booked EXCEPT ![job.sym] = @ + job.qty]
          /\ job' = [kind |-> "partial2", sym |-> job.sym, qty |-> job.qty]
      BY <2>2 DEF BookPartial
    <3>2. InFlight(t) = 0 /\ InFlight(t)' = IF t = job.sym THEN -job.qty ELSE 0
      BY <3>1
    <3> QED
      BY <2>0, <3>1, <3>2 DEF Abs
  <2>3. CASE ShrinkRow
    <3>1. job.kind = "partial2" /\ job.sym \in Sym /\ job.qty < Abs(pos[job.sym])
      BY <2>3 DEF ShrinkRow, Control, JobFits
    <3>2. row[job.sym] = pos[job.sym]
      BY <2>3, <3>1 DEF ShrinkRow, JournalMatchesTracked
    <3>3. /\ UNCHANGED <<opened, booked>> /\ job' = NoJob
          /\ row' = [row EXCEPT ![job.sym] =
                       Sign(pos[job.sym]) * (Abs(pos[job.sym]) - job.qty)]
      BY <2>3 DEF ShrinkRow
    <3>4. Abs(row'[job.sym]) = Abs(row[job.sym]) - job.qty
      BY <3>1, <3>2, <3>3 DEF Abs, Sign
    <3>5. InFlight(t) = (IF t = job.sym THEN -job.qty ELSE 0) /\ InFlight(t)' = 0
      BY <3>1, <3>3
    <3>6. CASE t = job.sym
      BY <2>0, <3>1, <3>3, <3>4, <3>5, <3>6 DEF Abs
    <3>7. CASE t # job.sym
      BY <2>0, <3>1, <3>3, <3>5, <3>7
    <3> QED
      BY <3>6, <3>7
  <2>4. CASE CloseRow
    <3>1. job.kind = "close" /\ job.sym \in Sym /\ job.qty = Abs(row[job.sym])
      BY <2>4 DEF CloseRow, JournalMatchesTracked, Control, JobFits
    <3> QED
      BY <2>0, <2>4, <3>1 DEF CloseRow, Abs
  <2>5. CASE BookClose
    <3>1. /\ job.kind = "close2" /\ job.sym \in Sym /\ UNCHANGED <<opened, row>>
          /\ booked' = [booked EXCEPT ![job.sym] = @ + job.qty] /\ job' = NoJob
      BY <2>5 DEF BookClose
    <3>2. InFlight(t) = (IF t = job.sym THEN job.qty ELSE 0) /\ InFlight(t)' = 0
      BY <3>1
    <3> QED
      BY <2>0, <3>1, <3>2 DEF Abs
  <2>6. CASE OpenRow
    <3>1. job.kind = "open" /\ job.sym \in Sym /\ row[job.sym] = 0
      BY <2>6 DEF OpenRow, JournalMatchesTracked, Control, JobFits
    <3>2. /\ UNCHANGED booked /\ job' = NoJob
          /\ row' = [row EXCEPT ![job.sym] = job.qty]
          /\ opened' = [opened EXCEPT ![job.sym] = @ + job.qty]
      BY <2>6 DEF OpenRow
    <3>3. InFlight(t) = 0 /\ InFlight(t)' = 0
      BY <3>1, <3>2
    <3>4. job.qty \in Nat /\ Abs(job.qty) = job.qty
      BY <3>1 DEF Abs
    <3>5. CASE t = job.sym
      <4>1. row'[t] = job.qty /\ opened'[t] = opened[t] + job.qty /\ Abs(row[t]) = 0
        BY <3>1, <3>2, <3>5 DEF Abs
      <4> QED
        BY <2>0, <3>2, <3>3, <3>4, <4>1
    <3>6. CASE t # job.sym
      BY <2>0, <3>2, <3>3, <3>6
    <3> QED
      BY <3>5, <3>6
  <2>7. ASSUME NEW s \in Sym, ReconcileMatch(s) \/ ReconcileAdopt(s)
        PROVE  Balance(t)'
    <3>1. row[s] = pos[s] /\ row[t] \in Int /\ book[s] \in Int
      BY <2>7 DEF ReconcileMatch, ReconcileAdopt, JournalMatchesTracked
    <3>2. /\ UNCHANGED <<booked, job>>
          /\ row' = [row EXCEPT ![s] = book[s]]
          /\ opened' = [opened EXCEPT ![s] = @ + Abs(book[s]) - Abs(row[s])]
      BY <2>7, <3>1 DEF ReconcileMatch, ReconcileAdopt, Abs
    <3> QED
      BY <2>0, <3>1, <3>2 DEF Abs
  <2>8. CASE Start
    BY <2>0, <2>8 DEF Start, Abs
  <2>9. CASE PlaceExit
    BY <2>0, <2>9 DEF PlaceExit, AfterExit, Abs
  <2>10. CASE PlaceEntry
    BY <2>0, <2>10 DEF PlaceEntry, AfterEntry, Abs
  <2>11. ASSUME NEW s \in Sym,
               FlattenOne(s) \/ ManagePartial(s) \/ ManageExit(s) \/ EntryApprove(s)
               \/ EntryRefuse(s) \/ ReconcileGhost(s)
         PROVE Balance(t)'
    <3>1. /\ UNCHANGED <<opened, booked, row>>
          /\ job.kind = "none" /\ job'.kind \notin {"partial2", "close2"}
      BY <2>11 DEF FlattenOne, ManagePartial, ManageExit, EntryApprove, EntryRefuse,
                   ReconcileGhost
    <3> QED
      BY <2>0, <3>1
  <2>12. CASE \/ TickBegin \/ FlattenEnd \/ ExitsEnd \/ Halting
              \/ ScanAndGate \/ EntriesEnd \/ ReconcileEnd
    <3>1. UNCHANGED <<opened, booked, row, job>>
      BY <2>12, Zenon DEF TickBegin, FlattenEnd, ExitsEnd, Halting, RiskCheck,
                   HaltRead, PersistHalt, ScanAndGate, EntriesEnd, ReconcileEnd
    <3> QED
      BY <2>0, <3>1
  <2>13. CASE Handlers \/ Operator \/ Market \/ UNCHANGED vars
    <3>1. UNCHANGED <<opened, booked, row, job>>
      BY <2>13, Zenon DEF Handlers, Operator, Market, KillFlatten, KillHalt,
         PauseFlatten, ResumeHalt, ResumeFlags, Kill, Pause, Resume, SetMode,
         SquareOff, NextDay, RestFill, vars
    <3> QED
      BY <2>0, <3>1
  <2>14. CASE Crash
    BY <2>0, <2>14 DEF Crash
  <2> QED
    BY <2>1, <2>2, <2>3, <2>4, <2>5, <2>6, <2>7, <2>8, <2>9, <2>10, <2>11, <2>12,
       <2>13, <2>14 DEF Next, Engine, Exits, Entering, StartUp
<1> QED
  BY <1>1, <1>2, TypeCorrect, JournalAlwaysMatches, PTL DEF Spec

-----------------------------------------------------------------------------
\* A halt that reached the journal is in the flags, and in the memory of any
\* process that has begun the day it was journalled for.
SealKept ==
  sealed # 0 => sealed \in haltFlags /\ (engineDay = sealed => halted)

LEMMA SealStep ==
  ASSUME Inv, SealKept, [Next]_vars PROVE SealKept'
<1> USE DEF SealKept, memory, journal, ghosts
<1>1. CASE TickBegin
  BY <1>1 DEF TickBegin, RestoredHalt, Inv, TypeOK
<1>2. CASE FlattenEnd
  BY <1>2 DEF FlattenEnd
<1>3. CASE PersistHalt
  BY <1>3 DEF PersistHalt
<1>4. CASE Start \/ Crash
  BY <1>4 DEF Start, Crash
<1>5. CASE KillHalt \/ ResumeHalt \/ ResumeFlags
  BY <1>5 DEF KillHalt, ResumeHalt, ResumeFlags
<1>6. ASSUME NEW s \in Sym,
             \/ FlattenOne(s) \/ ManageHold(s) \/ ManagePartial(s) \/ ManageExit(s)
             \/ EntryApprove(s) \/ EntryRefuse(s) \/ RestFill(s)
             \/ ReconcileMatch(s) \/ ReconcileGhost(s) \/ ReconcileAdopt(s)
      PROVE SealKept'
  <2>1. UNCHANGED <<sealed, haltFlags, engineDay, halted>>
    BY <1>6, Zenon DEF FlattenOne, ManageHold, ManagePartial, ManageExit, EntryApprove,
       EntryRefuse, RestFill, ReconcileMatch, ReconcileGhost, ReconcileAdopt
  <2> QED
    BY <2>1
<1>7. CASE \/ PlaceExit \/ BookPartial \/ ShrinkRow \/ CloseRow \/ BookClose \/ ExitsEnd
           \/ RiskCheck \/ HaltRead \/ ScanAndGate \/ PlaceEntry \/ OpenRow \/ EntriesEnd
           \/ ReconcileEnd \/ KillFlatten \/ PauseFlatten \/ Operator \/ SquareOff
           \/ NextDay \/ UNCHANGED vars
  <2>1. UNCHANGED <<sealed, haltFlags, engineDay, halted>>
    BY <1>7, Zenon DEF PlaceExit, BookPartial, ShrinkRow, CloseRow, BookClose, ExitsEnd,
       RiskCheck, HaltRead, ScanAndGate, PlaceEntry, OpenRow, EntriesEnd, ReconcileEnd,
       KillFlatten, PauseFlatten, Operator, Kill, Pause, Resume, SetMode, SquareOff,
       NextDay, vars
  <2> QED
    BY <2>1
<1> QED
  BY <1>1, <1>2, <1>3, <1>4, <1>5, <1>6, <1>7
     DEF Next, Engine, Exits, Entering, Halting, StartUp, Handlers, Market

\* Only EntryApprove hands an entry to the broker.
LEMMA EntryComesFromApprove ==
  ASSUME Inv, [Next]_vars, job.kind # "entry", job'.kind = "entry"
  PROVE  ~halted /\ ~paused /\ up
<1> USE DEF NoJob, WriteJob, ExitJob, control
<1>1. ASSUME NEW s \in Sym, EntryApprove(s) PROVE ~halted /\ ~paused /\ up
  BY <1>1 DEF EntryApprove, RulesPass
<1>2. ASSUME NEW s \in Sym,
             FlattenOne(s) \/ ManagePartial(s) \/ ManageExit(s) \/ ReconcileGhost(s)
      PROVE FALSE
  BY <1>2 DEF FlattenOne, ManagePartial, ManageExit, ReconcileGhost
<1>3. ASSUME NEW s \in Sym,
             \/ ManageHold(s) \/ EntryRefuse(s) \/ RestFill(s)
             \/ ReconcileMatch(s) \/ ReconcileAdopt(s)
      PROVE FALSE
  BY <1>3, Zenon DEF ManageHold, EntryRefuse, RestFill, ReconcileMatch, ReconcileAdopt
<1>4. CASE PlaceExit
  BY <1>4 DEF PlaceExit, AfterExit
<1>5. CASE PlaceEntry
  BY <1>5 DEF PlaceEntry
<1>6. CASE BookPartial \/ ShrinkRow \/ CloseRow \/ BookClose \/ OpenRow \/ Crash
  BY <1>6 DEF BookPartial, ShrinkRow, CloseRow, BookClose, OpenRow, Crash
<1>7. CASE \/ TickBegin \/ FlattenEnd \/ ExitsEnd \/ Halting \/ ScanAndGate \/ EntriesEnd
           \/ Start \/ ReconcileEnd \/ Handlers \/ Operator \/ SquareOff \/ NextDay
           \/ UNCHANGED vars
  BY <1>7, Zenon DEF TickBegin, FlattenEnd, ExitsEnd, Halting, RiskCheck, HaltRead,
     PersistHalt, ScanAndGate, EntriesEnd, Start, ReconcileEnd, Handlers, KillFlatten,
     KillHalt, PauseFlatten, ResumeHalt, ResumeFlags, Operator, Kill, Pause, Resume,
     SetMode, SquareOff, NextDay, vars
<1> QED
  BY <1>1, <1>2, <1>3, <1>4, <1>5, <1>6, <1>7
     DEF Next, Engine, Exits, Entering, StartUp, Market

\* No entry on a day whose halt was journalled, through any number of process
\* deaths and with any fault of the broker link (_persist_halt, _restore_halt).
THEOREM JournalledHaltHolds == Spec => NoEntryAfterJournalledHalt
<1> DEFINE Late == job.kind # "entry" /\ job'.kind = "entry" /\ sealed # 0 /\ sealed = engineDay
<1>1. Init => SealKept
  BY DEF Init, SealKept
<1>2. Inv /\ SealKept /\ [Next]_vars => SealKept'
  BY SealStep
<1>3. Inv /\ SealKept /\ [Next]_vars => [~Late]_vars
  BY EntryComesFromApprove DEF SealKept
<1> QED
  BY <1>1, <1>2, <1>3, TypeCorrect, PTL DEF Spec, NoEntryAfterJournalledHalt

-----------------------------------------------------------------------------
\* While the process lives, a kill that has answered keeps the halt raised.
KillKept == killed => up /\ halted

\* After a kill has answered no entry passes the rules (/api/kill,
\* RuleEngine.check), for as long as the process does not die.
THEOREM KilledAdmitsNoEntry ==
  ASSUME MaxCrashes = 0 PROVE Spec => NoEntryAfterKill
<1> DEFINE Late == job.kind # "entry" /\ job'.kind = "entry" /\ killed
<1>1. Init => KillKept
  BY DEF Init, KillKept
<1>2. Inv /\ KillKept /\ [Next]_vars => KillKept'
  <2> SUFFICES ASSUME Inv, KillKept, [Next]_vars PROVE KillKept'
    OBVIOUS
  <2> USE DEF KillKept, memory, ghosts
  <2>1. CASE TickBegin
    BY <2>1, Zenon DEF TickBegin
  <2>2. CASE FlattenEnd
    BY <2>2, Zenon DEF FlattenEnd
  <2>3. CASE Start
    BY <2>3, Zenon DEF Start
  <2>4. CASE Crash
    BY <2>4 DEF Crash, Inv, TypeOK
  <2>5. CASE KillHalt \/ ResumeHalt \/ ResumeFlags \/ NextDay \/ PersistHalt
    BY <2>5, Zenon DEF KillHalt, ResumeHalt, ResumeFlags, NextDay, PersistHalt
  <2>6. ASSUME NEW s \in Sym,
               \/ FlattenOne(s) \/ ManageHold(s) \/ ManagePartial(s) \/ ManageExit(s)
               \/ EntryApprove(s) \/ EntryRefuse(s) \/ RestFill(s)
               \/ ReconcileMatch(s) \/ ReconcileGhost(s) \/ ReconcileAdopt(s)
        PROVE KillKept'
    BY <2>6, Zenon DEF FlattenOne, ManageHold, ManagePartial, ManageExit, EntryApprove,
       EntryRefuse, RestFill, ReconcileMatch, ReconcileGhost, ReconcileAdopt
  <2>7. CASE \/ PlaceExit \/ BookPartial \/ ShrinkRow \/ CloseRow \/ BookClose
             \/ ExitsEnd \/ RiskCheck \/ HaltRead \/ ScanAndGate \/ PlaceEntry
             \/ OpenRow \/ EntriesEnd \/ ReconcileEnd \/ KillFlatten \/ PauseFlatten
             \/ Operator \/ SquareOff \/ UNCHANGED vars
    BY <2>7, Zenon DEF PlaceExit, BookPartial, ShrinkRow, CloseRow, BookClose, ExitsEnd,
       RiskCheck, HaltRead, ScanAndGate, PlaceEntry, OpenRow, EntriesEnd, ReconcileEnd,
       KillFlatten, PauseFlatten, Operator, Kill, Pause, Resume, SetMode, SquareOff, vars
  <2> QED
    BY <2>1, <2>2, <2>3, <2>4, <2>5, <2>6, <2>7
       DEF Next, Engine, Exits, Entering, Halting, StartUp, Handlers, Market
<1>3. Inv /\ KillKept /\ [Next]_vars => [~Late]_vars
  BY EntryComesFromApprove DEF KillKept
<1> QED
  BY <1>1, <1>2, <1>3, TypeCorrect, PTL DEF Spec, NoEntryAfterKill

-----------------------------------------------------------------------------
\* What the broker holds while an order's outcome is being journalled.
Expected(s) ==
  IF job.kind = "none" \/ job.sym # s THEN pos[s]
  ELSE CASE job.kind \in {"partial", "partial2"} -> pos[s] - job.qty
         [] job.kind \in {"close", "close2"} -> 0
         [] job.kind = "open" -> job.qty
         [] OTHER -> pos[s]

Reconciling ==
  /\ book = net
  /\ \A s \in Sym \ todo : pos[s] = net[s]
  /\ job.kind # "none" => job.sym \in todo

\* Nothing is ever short, and outside the start-up reconciliation the account
\* is what the engine expects it to be.
AccountKept ==
  /\ mode = "live"
  /\ \A s \in Sym : net[s] >= 0 /\ row[s] >= 0
  /\ up => \A s \in Sym : pos[s] >= 0
  /\ up /\ pc # "reconcile" => \A s \in Sym : net[s] = Expected(s)
  /\ up /\ pc = "reconcile" => Reconciling

\* With an honest broker link an answer reports what traded, and nothing rests.
LEMMA HonestAnswers ==
  ASSUME Faults = {}, mode = "live", NEW q \in Nat \ {0}, NEW o \in Answers(q)
  PROVE  /\ o.done = o.seen /\ o.left = 0 /\ o.seen \in 0..q
         /\ o.status = "FILLED" => o.seen # 0
         /\ o.status # "FILLED" => o.seen = 0
  BY DEF Answers, LiveAnswers, CleanAnswers, Answer

LEMMA AccountStep ==
  ASSUME Faults = {}, Inv, JournalMatchesTracked, AccountKept, [Next]_vars
  PROVE  AccountKept'
<1> USE DEF AccountKept, Inv, TypeOK, JobOK, JobKinds, NoJob, Idle, WriteJob, ExitJob,
            memory, journal, config, account, control
<1>1. CASE PlaceExit
  <2>1. PICK o \in Answers(job.qty) :
          /\ net' = [net EXCEPT ![job.sym] = @ - Sign(pos[job.sym]) * o.done]
          /\ job' = AfterExit(job, o)
    BY <1>1 DEF PlaceExit
  <2>2. /\ up /\ job.kind = "exit" /\ job.sym \in Sym /\ job.qty \in Nat \ {0}
        /\ pc # "reconcile"
        /\ UNCHANGED <<up, pos, row, mode, pc, todo, book>>
    BY <1>1 DEF PlaceExit, Control, JobPlace, Ordering
  <2>3. /\ o.done = o.seen /\ o.seen \in 0..job.qty
        /\ o.status = "FILLED" => o.seen # 0
        /\ o.status # "FILLED" => o.seen = 0
    BY <2>1, <2>2, HonestAnswers
  <2>4. /\ net[job.sym] = pos[job.sym] /\ job.qty <= pos[job.sym]
        /\ job.full => job.qty = pos[job.sym]
        /\ Sign(pos[job.sym]) = 1
    BY <2>2 DEF Expected, Control, JobFits, Abs, Sign
  <2>5. net' = [net EXCEPT ![job.sym] = @ - o.seen]
    <3>1. Sign(pos[job.sym]) * o.done = o.seen
      BY <2>2, <2>3, <2>4
    <3> QED
      BY <2>1, <3>1, Zenon
  <2>6. \/ job' = NoJob /\ o.seen = 0
        \/ job' = WriteJob("partial", job.sym, o.seen)
        \/ job' = WriteJob("close", job.sym, job.qty) /\ o.seen = job.qty /\ job.full
    BY <1>1, <2>1, <2>2, <2>3 DEF AfterExit
  <2>7. \A s \in Sym : net'[s] >= 0 /\ net'[s] = Expected(s)'
    <3> SUFFICES ASSUME NEW s \in Sym PROVE net'[s] >= 0 /\ net'[s] = Expected(s)'
      OBVIOUS
    <3>1. CASE s = job.sym
      BY <2>2, <2>3, <2>4, <2>5, <2>6, <3>1 DEF Expected
    <3>2. CASE s # job.sym
      BY <2>2, <2>5, <2>6, <3>2 DEF Expected
    <3> QED
      BY <3>1, <3>2
  <2> QED
    BY <2>2, <2>7
<1>2. CASE PlaceEntry
  <2>1. PICK o \in Answers(job.qty) :
          net' = [net EXCEPT ![job.sym] = @ + o.done] /\ job' = AfterEntry(job, o)
    BY <1>2 DEF PlaceEntry
  <2>2. /\ up /\ job.kind = "entry" /\ job.sym \in Sym /\ job.qty \in Nat \ {0}
        /\ pc = "entries" /\ pos[job.sym] = 0
        /\ UNCHANGED <<up, pos, row, mode, pc, todo, book>>
    BY <1>2 DEF PlaceEntry, Control, JobPlace, JobFits
  <2>3. /\ o.done = o.seen /\ o.seen \in 0..job.qty
        /\ o.status # "FILLED" => o.seen = 0
    BY <2>1, <2>2, HonestAnswers
  <2>4. \/ job' = NoJob /\ o.seen = 0
        \/ job' = WriteJob("open", job.sym, o.seen)
    BY <2>1, <2>3 DEF AfterEntry
  <2>5. \A s \in Sym : net'[s] >= 0 /\ net'[s] = Expected(s)'
    BY <2>1, <2>2, <2>3, <2>4 DEF Expected
  <2> QED
    BY <2>2, <2>5
<1>3. CASE BookPartial
  BY <1>3 DEF BookPartial, Control, JobPlace, Ordering, Expected
<1>4. CASE ShrinkRow
  BY <1>4 DEF ShrinkRow, Control, JobPlace, JobFits, Ordering, Expected, Abs, Sign
<1>5. CASE CloseRow
  BY <1>5 DEF CloseRow, Expected, Reconciling
<1>6. CASE BookClose
  BY <1>6 DEF BookClose, Expected, Reconciling
<1>7. CASE OpenRow
  BY <1>7 DEF OpenRow, Control, JobPlace, Expected
<1>8. CASE Start
  BY <1>8 DEF Start, Control, JobPlace, Reconciling
<1>9. CASE Crash
  <2>1. CASE job.kind \in {"entry", "exit"} /\ mode = "live"
    <3>1. /\ up /\ pc # "reconcile" /\ job.sym \in Sym /\ job.qty \in Nat
          /\ job.kind = "exit" => job.qty <= pos[job.sym]
          /\ net[job.sym] = pos[job.sym]
      BY <1>9, <2>1 DEF Crash, Control, JobPlace, JobFits, Ordering, Expected, Abs
    <3>2. PICK f \in 0..job.qty :
            net' = [net EXCEPT ![job.sym] =
                     IF job.kind = "entry" \/ pos[job.sym] < 0 THEN @ + f ELSE @ - f]
      BY <1>9, <2>1 DEF Crash
    <3>3. ~up' /\ UNCHANGED <<row, mode>>
      BY <1>9 DEF Crash
    <3> QED
      BY <2>1, <3>1, <3>2, <3>3
  <2>2. CASE ~(job.kind \in {"entry", "exit"} /\ mode = "live")
    BY <1>9, <2>2 DEF Crash
  <2> QED
    BY <2>1, <2>2
<1>10. ASSUME NEW t \in Sym, ReconcileMatch(t) \/ ReconcileAdopt(t) PROVE AccountKept'
  <2>1. /\ UNCHANGED <<up, pc, net, book, job, mode>> /\ job = NoJob
        /\ up /\ pc = "reconcile" /\ todo' = todo \ {t}
        /\ pos' = [pos EXCEPT ![t] = book[t]] /\ row' = [row EXCEPT ![t] = book[t]]
    BY <1>10 DEF ReconcileMatch, ReconcileAdopt
  <2> QED
    BY <2>1 DEF Reconciling
<1>11. ASSUME NEW t \in Sym, ReconcileGhost(t) PROVE AccountKept'
  BY <1>11 DEF ReconcileGhost, Reconciling
<1>12. CASE ReconcileEnd
  BY <1>12 DEF ReconcileEnd, Reconciling, Expected
<1>13. ASSUME NEW t \in Sym, ManageHold(t) PROVE AccountKept'
  BY <1>13 DEF ManageHold, Expected
<1>14. ASSUME NEW t \in Sym,
              FlattenOne(t) \/ ManagePartial(t) \/ ManageExit(t) \/ EntryApprove(t)
              \/ EntryRefuse(t)
       PROVE AccountKept'
  <2>1. /\ UNCHANGED <<up, pos, row, mode, net, pc>> /\ up /\ pc # "reconcile"
        /\ job = NoJob /\ job'.kind \in {"none", "exit", "entry"}
    BY <1>14 DEF FlattenOne, ManagePartial, ManageExit, EntryApprove, EntryRefuse
  <2> QED
    BY <2>1 DEF Expected
<1>15. CASE \/ TickBegin \/ FlattenEnd \/ ExitsEnd \/ Halting
            \/ ScanAndGate \/ EntriesEnd
  <2>1. /\ UNCHANGED <<up, pos, row, mode, net, job>> /\ up
        /\ pc # "reconcile" /\ pc' # "reconcile"
    BY <1>15, SMT DEF TickBegin, FlattenEnd, ExitsEnd, Halting, RiskCheck, HaltRead,
                      PersistHalt, ScanAndGate, EntriesEnd
  <2> QED
    BY <2>1 DEF Expected
<1>16. CASE Handlers \/ Kill \/ Pause \/ Resume \/ SquareOff \/ UNCHANGED vars
  <2>1. UNCHANGED <<up, pos, row, mode, net, job, pc, todo, book>>
    BY <1>16, Zenon DEF Handlers, KillFlatten, KillHalt, PauseFlatten, ResumeHalt,
       ResumeFlags, Kill, Pause, Resume, SquareOff, vars
  <2> QED
    BY <2>1 DEF Expected, Reconciling
<1>17. CASE NextDay
  <2>1. /\ UNCHANGED <<up, pos, row, mode, job, pc>> /\ net' = NoShares
        /\ up => pc = "idle" /\ net = NoShares
    BY <1>17 DEF NextDay
  <2> QED
    BY <2>1 DEF Expected, NoShares
<1>18. ~SetMode /\ \A s \in Sym : ~RestFill(s)
  BY DEF SetMode, RestFill
<1> QED
  BY <1>1, <1>2, <1>3, <1>4, <1>5, <1>6, <1>7, <1>8, <1>9, <1>10, <1>11, <1>12, <1>13,
     <1>14, <1>15, <1>16, <1>17, <1>18
     DEF Next, Engine, Exits, Entering, StartUp, Operator, Market

\* Between ticks the engine tracks the broker's net position, through any
\* number of process deaths with an order on its way, when the broker link
\* reports what it does (GatewayBroker.place, reconcile_with_broker).
THEOREM BrokerAlwaysMatches ==
  ASSUME Faults = {} PROVE Spec => []BrokerMatchesTracked
<1>1. Init => AccountKept
  BY DEF Init, AccountKept
<1>2. Inv /\ JournalMatchesTracked /\ AccountKept /\ [Next]_vars => AccountKept'
  BY AccountStep
<1>3. Inv /\ AccountKept => BrokerMatchesTracked
  BY DEF Inv, TypeOK, Control, JobPlace, Ordering, AccountKept, BrokerMatchesTracked,
         Expected, JobOK, JobKinds, NoJob
<1> QED
  BY <1>1, <1>2, <1>3, TypeCorrect, JournalAlwaysMatches, PTL DEF Spec

\* No exit, retried or sized at any moment, leaves the account short of an
\* option (SessionLoop._exit_order), under the same assumption.
THEOREM NeverShort ==
  ASSUME Faults = {} PROVE Spec => []NoReversal
<1>1. Init => AccountKept
  BY DEF Init, AccountKept
<1>2. Inv /\ JournalMatchesTracked /\ AccountKept /\ [Next]_vars => AccountKept'
  BY AccountStep
<1>3. AccountKept => NoReversal
  BY DEF AccountKept, NoReversal
<1> QED
  BY <1>1, <1>2, <1>3, TypeCorrect, JournalAlwaysMatches, PTL DEF Spec

=============================================================================
