-------------------------- MODULE Decisions_proofs --------------------------
(***************************************************************************)
(* Proofs about what the engines decide on: the sweeps that read the open  *)
(* interest, for any probes, tokens and frames; the risk desk, for any     *)
(* caps, prices, budgets and results; the walk that makes the signals, for *)
(* any bars, any limits and histories of any length; and the profit of a   *)
(* position and of its lots, for any prices, trades and number of days.    *)
(***************************************************************************)
EXTENDS SignalWalk, OiSweep, RiskDesk, DayPnl, SequenceTheorems, Totals_proofs, TLAPS

-----------------------------------------------------------------------------
(* The open interest of a sweep                                            *)

Frame == [leg : Tokens, named : BOOLEAN, of : Contracts]
Run == [at : {"idle", "loop", "settle", "done"}, kind : Kinds, asked : SUBSET Tokens, todo : SUBSET Tokens,
        chunk : SUBSET Tokens, acked : SUBSET Tokens, book : [Tokens -> Contracts \cup {Off}],
        counted : SUBSET Tokens]
SweepTypeOK ==
  /\ probe \in [Requests -> Run] /\ handler \in Requests \cup {NoRequest}
  /\ stream \in [Tokens -> Contracts \cup {Off}] /\ renewed \subseteq Tokens /\ wire \in Seq(Frame)
  /\ frames \in Nat /\ failures \in Nat /\ misnamed \subseteq Tokens

\* A frame of a leg says c, and says so by name.
Says(f, l, c) == f.leg = l /\ f.of = c
NamesIt(f, l, c) == Says(f, l, c) /\ f.named
\* Between two frames that name a leg the deltas speak of the contract the former
\* named: whoever hears a frame by one name, and later a delta of another contract,
\* hears the other name in between.  What streams has been named last.
WireTold ==
  \A i \in DOMAIN wire, l \in Tokens, c, d \in Contracts : NamesIt(wire[i], l, c) /\ c # d =>
    /\ \A j \in DOMAIN wire : i < j /\ Says(wire[j], l, d) => \E k \in DOMAIN wire : i < k /\ k <= j /\ NamesIt(wire[k], l, d)
    /\ stream[l] = d => \E k \in DOMAIN wire : i < k /\ NamesIt(wire[k], l, d)

\* A leg that has named itself rightly and not wrongly since: before a wrong delta a
\* wrong name is on its way.
LegTold(l) ==
  /\ \A j \in DOMAIN wire : Says(wire[j], l, "wrong") => \E k \in DOMAIN wire : k <= j /\ NamesIt(wire[k], l, "wrong")
  /\ stream[l] = "wrong" => \E k \in DOMAIN wire : NamesIt(wire[k], l, "wrong")
Hears(r) == handler = r /\ r # NoRequest /\ probe[r].kind = "sweep"
Told == \A r \in Requests : Hears(r) => \A l \in probe[r].acked \ misnamed : LegTold(l)

Identified(p, bad) ==
  /\ p.acked \subseteq p.asked
  /\ \A l \in Tokens \ bad : p.book[l] # Off => l \in p.asked /\ p.book[l] = "right"
  /\ \A l \in p.counted : p.book[l] # Off
AllIdentified == \A r \in Requests : probe[r].kind = "sweep" => Identified(probe[r], misnamed)

SweepInv == SweepTypeOK /\ WireTold /\ Told /\ AllIdentified

LEMMA SweepStarts == SweepInit => SweepInv
BY DEF SweepInit, SweepInv, SweepTypeOK, Run, Frame, Asleep, Kinds, Contracts, Off, WireTold, Told, Hears,
       AllIdentified, Identified, NoRequest

\* One run changes; what it has asked for and heard is kept, or forgotten.
LEMMA RunChanges ==
  ASSUME SweepInv, NEW r \in Requests, NEW p \in Run, probe' = [probe EXCEPT ![r] = p],
         p.kind = "sweep" => Identified(p, misnamed),
         wire' = wire, misnamed' = misnamed, frames' \in Nat, failures' \in Nat,
         handler' \in {handler, r, NoRequest}, handler' = r /\ r # NoRequest /\ p.kind = "sweep" => p.acked = {} \/ (Hears(r) /\ p.acked = probe[r].acked),
         renewed' \subseteq Tokens, stream' \in [Tokens -> Contracts \cup {Off}],
         \A l \in Tokens : stream'[l] \in {stream[l], Off}
  PROVE  SweepInv'
<1>1. probe'[r] = p /\ (\A q \in Requests \ {r} : probe'[q] = probe[q]) /\ probe' \in [Requests -> Run]
  BY DEF SweepInv, SweepTypeOK
<1>2. SweepTypeOK'
  BY <1>1 DEF SweepInv, SweepTypeOK
<1>3. WireTold'
  BY DEF SweepInv, WireTold, Contracts, Off
<1>4. \A l \in Tokens : LegTold(l) => LegTold(l)'
  BY DEF LegTold, Off
<1>5. Told'
  <2> SUFFICES ASSUME NEW q \in Requests, Hears(q)', NEW l \in probe'[q].acked \ misnamed PROVE LegTold(l)'
    BY DEF Told
  <2>1. Hears(q) /\ probe'[q].acked = probe[q].acked
    BY <1>1 DEF Hears
  <2>2. l \in Tokens
    BY <1>2 DEF SweepTypeOK, Run
  <2> QED BY <1>4, <2>1, <2>2 DEF SweepInv, Told
<1>6. AllIdentified'
  BY <1>1 DEF SweepInv, AllIdentified
<1> QED BY <1>2, <1>3, <1>5, <1>6 DEF SweepInv

\* The broker sends a frame of what it streams, or names a leg anew.
LEMMA BrokerSends ==
  ASSUME SweepInv, NEW l \in Tokens, Acknowledges(l) \/ Delta(l) PROVE SweepInv'
<1>1. PICK f \in Frame : /\ f.leg = l /\ wire' = Append(wire, f) /\ stream' = [stream EXCEPT ![l] = f.of]
                         /\ f.named \/ stream' = stream
  <2>1. CASE Acknowledges(l)
    <3>1. PICK c \in Contracts : stream' = [stream EXCEPT ![l] = c] /\ wire' = Append(wire, [leg |-> l, named |-> TRUE, of |-> c])
      BY <2>1 DEF Acknowledges
    <3>2. PICK f \in Frame : f = [leg |-> l, named |-> TRUE, of |-> c]
      BY DEF Frame
    <3> QED BY <3>1, <3>2
  <2>2. CASE Delta(l)
    <3>1. stream[l] \in Contracts
      BY <2>2 DEF Delta, SweepInv, SweepTypeOK, Contracts
    <3>2. PICK f \in Frame : f = [leg |-> l, named |-> FALSE, of |-> stream[l]]
      BY <3>1 DEF Frame
    <3>3. stream' = stream /\ stream = [stream EXCEPT ![l] = stream[l]]
      BY <2>2 DEF Delta, SweepInv, SweepTypeOK
    <3>4. wire' = Append(wire, f)
      BY <2>2, <3>2 DEF Delta
    <3> QED BY <3>2, <3>3, <3>4
  <2> QED BY <2>1, <2>2
<1>2. UNCHANGED <<handler, probe, failures, misnamed>> /\ frames' \in Nat /\ renewed' \subseteq Tokens
  BY DEF Acknowledges, Delta, SweepInv, SweepTypeOK
<1>3. /\ DOMAIN wire = 1..Len(wire) /\ DOMAIN wire' = 1..(Len(wire) + 1) /\ Len(wire) \in Nat /\ wire' \in Seq(Frame)
      /\ wire'[Len(wire) + 1] = f /\ \A i \in 1..Len(wire) : wire'[i] = wire[i]
  BY <1>1 DEF SweepInv, SweepTypeOK
<1>4. f.of \in Contracts /\ stream' \in [Tokens -> Contracts \cup {Off}] /\ stream'[l] = f.of
      /\ \A m \in Tokens \ {l} : stream'[m] = stream[m]
  BY <1>1 DEF SweepInv, SweepTypeOK, Frame
<1>5. SweepTypeOK'
  BY <1>2, <1>3, <1>4 DEF SweepInv, SweepTypeOK
<1>6. WireTold'
  <2> SUFFICES ASSUME NEW i \in 1..(Len(wire) + 1), NEW m \in Tokens, NEW c \in Contracts, NEW d \in Contracts,
                      NamesIt(wire'[i], m, c), c # d
      PROVE /\ \A j \in 1..(Len(wire) + 1) : i < j /\ Says(wire'[j], m, d)
                 => \E k \in 1..(Len(wire) + 1) : i < k /\ k <= j /\ NamesIt(wire'[k], m, d)
            /\ stream'[m] = d => \E k \in 1..(Len(wire) + 1) : i < k /\ NamesIt(wire'[k], m, d)
    <3>1. DOMAIN wire' = 1..(Len(wire) + 1)
      BY <1>3
    <3> QED BY <3>1, SMTT(30) DEF WireTold, NamesIt, Says
  <2>1. CASE i = Len(wire) + 1
    <3>1. m = l /\ f.of = c /\ stream'[m] = c
      BY <1>1, <1>3, <1>4, <2>1 DEF NamesIt, Says
    <3>2. \A j \in 1..(Len(wire) + 1) : ~(i < j)
      BY <1>3, <2>1
    <3> QED BY <3>1, <3>2
  <2>2. CASE i \in 1..Len(wire)
    <3>1. NamesIt(wire[i], m, c)
      BY <1>3, <2>2
    <3>2. \A j \in 1..Len(wire) : i < j /\ Says(wire[j], m, d) => \E k \in 1..Len(wire) : i < k /\ k <= j /\ NamesIt(wire[k], m, d)
      BY <1>3, <2>2, <3>1 DEF SweepInv, WireTold
    <3>3. stream[m] = d => \E k \in 1..Len(wire) : i < k /\ NamesIt(wire[k], m, d)
      BY <1>3, <2>2, <3>1 DEF SweepInv, WireTold
    <3>4. stream'[m] = d => \E k \in 1..(Len(wire) + 1) : i < k /\ NamesIt(wire'[k], m, d)
      <4>1. CASE stream[m] = d
        BY <1>3, <2>2, <3>3, <4>1
      <4>2. ASSUME stream[m] # d, stream'[m] = d PROVE \E k \in 1..(Len(wire) + 1) : i < k /\ NamesIt(wire'[k], m, d)
        <5>1. m = l /\ f.named /\ f.of = d
          BY <1>1, <1>4, <4>2
        <5>2. NamesIt(wire'[Len(wire) + 1], m, d)
          BY <1>1, <1>3, <5>1 DEF NamesIt, Says
        <5> QED BY <1>3, <2>2, <5>2
      <4> QED BY <4>1, <4>2
    <3>5. ASSUME NEW j \in 1..(Len(wire) + 1), i < j, Says(wire'[j], m, d)
          PROVE  \E k \in 1..(Len(wire) + 1) : i < k /\ k <= j /\ NamesIt(wire'[k], m, d)
      <4>1. CASE j \in 1..Len(wire)
        BY <1>3, <3>2, <3>5, <4>1
      <4>2. CASE j = Len(wire) + 1
        <5>1. stream'[m] = d
          BY <1>1, <1>3, <1>4, <3>5, <4>2 DEF Says
        <5> QED BY <1>3, <3>4, <4>2, <5>1
      <4> QED BY <4>1, <4>2
    <3> QED BY <3>4, <3>5
  <2> QED BY <2>1, <2>2
<1>7. ASSUME NEW m \in Tokens, LegTold(m) PROVE LegTold(m)'
  <2>1. stream'[m] = "wrong" => \E k \in 1..(Len(wire) + 1) : NamesIt(wire'[k], m, "wrong")
    <3>1. CASE stream[m] = "wrong"
      BY <1>3, <1>7, <3>1 DEF LegTold
    <3>2. ASSUME stream[m] # "wrong", stream'[m] = "wrong" PROVE NamesIt(wire'[Len(wire) + 1], m, "wrong")
      BY <1>1, <1>3, <1>4, <3>2 DEF NamesIt, Says
    <3> QED BY <1>3, <3>1, <3>2
  <2>2. ASSUME NEW j \in 1..(Len(wire) + 1), Says(wire'[j], m, "wrong")
        PROVE  \E k \in 1..(Len(wire) + 1) : k <= j /\ NamesIt(wire'[k], m, "wrong")
    <3>1. CASE j \in 1..Len(wire)
      BY <1>3, <1>7, <2>2, <3>1 DEF LegTold
    <3>2. CASE j = Len(wire) + 1
      <4>1. stream'[m] = "wrong"
        BY <1>1, <1>3, <1>4, <2>2, <3>2 DEF Says
      <4> QED BY <1>3, <2>1, <3>2, <4>1
    <3> QED BY <3>1, <3>2
  <2> QED BY <1>3, <2>1, <2>2 DEF LegTold, NamesIt, Says
<1>8. Told'
  <2>1. \A r \in Requests : \A m \in probe[r].acked : m \in Tokens
    BY DEF SweepInv, SweepTypeOK, Run
  <2> QED BY <1>2, <1>7, <2>1 DEF SweepInv, Told, Hears
<1>9. AllIdentified'
  BY <1>2 DEF SweepInv, AllIdentified
<1> QED BY <1>5, <1>6, <1>8, <1>9 DEF SweepInv

\* A frame is taken: what it says by name is heard by the sweep that listens, if any.
LEMMA FrameIsHeard == ASSUME SweepInv, FrameArrives PROVE SweepInv'
<1>1. /\ wire # <<>> /\ wire' = Tail(wire) /\ UNCHANGED <<handler, stream, renewed, frames, failures>>
  BY DEF FrameArrives
<1>2. PICK n \in Nat, f \in Frame :
        /\ n + 1 = Len(wire) /\ f = Head(wire) /\ f = wire[1] /\ DOMAIN wire = 1..(n + 1)
        /\ wire' \in Seq(Frame) /\ DOMAIN wire' = 1..n /\ \A i \in 1..n : wire'[i] = wire[i + 1]
  <2>1. wire \in Seq(Frame) /\ wire # <<>>
    BY <1>1 DEF SweepInv, SweepTypeOK
  <2>2. /\ Head(wire) \in Frame /\ Tail(wire) \in Seq(Frame) /\ Len(Tail(wire)) = Len(wire) - 1
        /\ \A i \in 1..Len(Tail(wire)) : Tail(wire)[i] = wire[i + 1]
    BY <2>1
  <2>3. Len(wire) \in Nat /\ Len(wire) # 0 /\ Head(wire) = wire[1] /\ DOMAIN wire = 1..Len(wire)
    BY <2>1
  <2>4. PICK n \in Nat : n + 1 = Len(wire) /\ n = Len(wire) - 1
    <3>1. PICK m : m = Len(wire)
      OBVIOUS
    <3>2. m \in Nat /\ m # 0
      BY <2>3, <3>1
    <3>3. m - 1 \in Nat /\ (m - 1) + 1 = m
      BY <3>2
    <3> QED BY <3>1, <3>3, Zenon
  <2>5. Len(wire') = n /\ wire' \in Seq(Frame)
    BY <1>1, <2>2, <2>4
  <2>6. DOMAIN wire' = 1..n
    BY <2>5
  <2>7. \A i \in 1..n : wire'[i] = wire[i + 1]
    BY <1>1, <2>2, <2>4
  <2>8. Head(wire) \in Frame /\ DOMAIN wire = 1..(n + 1)
    BY <2>2, <2>3, <2>4
  <2> QED BY <2>3, <2>4, <2>5, <2>6, <2>7, <2>8, Zenon
<1>3. WireTold'
  <2> SUFFICES ASSUME NEW i \in 1..n, NEW m \in Tokens, NEW c \in Contracts, NEW d \in Contracts,
                      NamesIt(wire'[i], m, c), c # d
      PROVE /\ \A j \in 1..n : i < j /\ Says(wire'[j], m, d) => \E k \in 1..n : i < k /\ k <= j /\ NamesIt(wire'[k], m, d)
            /\ stream'[m] = d => \E k \in 1..n : i < k /\ NamesIt(wire'[k], m, d)
    <3>1. DOMAIN wire' = 1..n
      BY <1>2
    <3> QED BY <3>1 DEF WireTold, NamesIt, Says
  <2>0. NamesIt(wire[i + 1], m, c) /\ stream' = stream
    BY <1>1, <1>2
  <2>1. i + 1 \in 1..(n + 1)
    BY <1>2
  <2>2. /\ \A j \in 1..(n + 1) : i + 1 < j /\ Says(wire[j], m, d) => \E k \in 1..(n + 1) : i + 1 < k /\ k <= j /\ NamesIt(wire[k], m, d)
        /\ stream[m] = d => \E k \in 1..(n + 1) : i + 1 < k /\ NamesIt(wire[k], m, d)
    BY <1>2, <2>0, <2>1 DEF SweepInv, WireTold
  <2>3. ASSUME NEW k \in 1..(n + 1), i + 1 < k PROVE k - 1 \in 1..n /\ i < k - 1 /\ wire'[k - 1] = wire[k]
    <3>1. k - 1 \in 1..n /\ i < k - 1 /\ (k - 1) + 1 = k
      BY <1>2, <2>3
    <3> QED BY <1>2, <3>1
  <2>4. ASSUME NEW j \in 1..n, i < j, Says(wire'[j], m, d) PROVE \E k \in 1..n : i < k /\ k <= j /\ NamesIt(wire'[k], m, d)
    <3>1. j + 1 \in 1..(n + 1) /\ i + 1 < j + 1 /\ Says(wire[j + 1], m, d)
      BY <1>2, <2>4
    <3>2. PICK k \in 1..(n + 1) : i + 1 < k /\ k <= j + 1 /\ NamesIt(wire[k], m, d)
      BY <2>2, <2>4, <3>1
    <3>3. k - 1 <= j
      BY <3>2
    <3> QED BY <2>3, <3>2, <3>3
  <2>5. ASSUME stream'[m] = d PROVE \E k \in 1..n : i < k /\ NamesIt(wire'[k], m, d)
    <3>1. PICK k \in 1..(n + 1) : i + 1 < k /\ NamesIt(wire[k], m, d)
      BY <2>0, <2>2, <2>5
    <3> QED BY <2>3, <3>1
  <2> QED BY <2>4, <2>5
\* What is left for a leg: the wrong names but the one just taken.
<1>4. ASSUME NEW l \in Tokens, ~NamesIt(f, l, "wrong"),
             \A j \in 2..(n + 1) : Says(wire[j], l, "wrong") => \E k \in 1..(n + 1) : k <= j /\ NamesIt(wire[k], l, "wrong"),
             stream[l] = "wrong" => \E k \in 1..(n + 1) : NamesIt(wire[k], l, "wrong")
      PROVE  LegTold(l)'
  <2>1. ASSUME NEW k \in 1..(n + 1), NamesIt(wire[k], l, "wrong") PROVE k - 1 \in 1..n /\ NamesIt(wire'[k - 1], l, "wrong")
    <3>1. k # 1
      BY <1>2, <1>4, <2>1
    <3>2. k - 1 \in 1..n /\ (k - 1) + 1 = k
      BY <1>2, <3>1
    <3> QED BY <1>2, <2>1, <3>2
  <2>2. ASSUME NEW j \in 1..n, Says(wire'[j], l, "wrong") PROVE \E k \in 1..n : k <= j /\ NamesIt(wire'[k], l, "wrong")
    <3>1. j + 1 \in 2..(n + 1) /\ Says(wire[j + 1], l, "wrong")
      BY <1>2, <2>2
    <3>2. PICK k \in 1..(n + 1) : k <= j + 1 /\ NamesIt(wire[k], l, "wrong")
      BY <1>4, <3>1
    <3>3. k - 1 <= j
      BY <3>2
    <3> QED BY <2>1, <3>2, <3>3
  <2>3. stream'[l] = "wrong" => \E k \in 1..n : NamesIt(wire'[k], l, "wrong")
    BY <1>1, <1>4, <2>1
  <2> QED BY <1>2, <2>2, <2>3 DEF LegTold, NamesIt, Says
<1>5. CASE handler = NoRequest \/ probe[handler].kind = "plain"
  <2>1. UNCHANGED <<probe, misnamed>>
    BY <1>5 DEF FrameArrives
  <2>2. SweepTypeOK'
    BY <1>1, <1>2, <2>1 DEF SweepInv, SweepTypeOK
  <2>3. Told'
    BY <1>1, <1>5, <2>1 DEF Told, Hears
  <2>4. AllIdentified'
    BY <2>1 DEF SweepInv, AllIdentified
  <2> QED BY <1>3, <2>2, <2>3, <2>4 DEF SweepInv
<1>6. CASE handler # NoRequest /\ probe[handler].kind # "plain"
  <2> DEFINE h == handler
  <2> DEFINE p == probe[h]
  <2>1. /\ h \in Requests /\ p \in Run /\ p.kind = "sweep" /\ Hears(h) /\ Identified(p, misnamed)
        /\ misnamed' = IF f.named /\ f.of = "wrong" THEN misnamed \cup {f.leg} ELSE misnamed
        /\ probe' = IF Merges(p, f) THEN [probe EXCEPT ![h] = Merged(p, f)] ELSE probe
    <3>1. h \in Requests /\ p \in Run /\ p.kind = "sweep" /\ Hears(h)
      BY <1>6 DEF SweepInv, SweepTypeOK, Run, Kinds, Hears
    <3>2. /\ misnamed' = IF f.named /\ f.of = "wrong" THEN misnamed \cup {f.leg} ELSE misnamed
          /\ probe' = IF Merges(p, f) THEN [probe EXCEPT ![h] = Merged(p, f)] ELSE probe
      BY <1>2, <1>6 DEF FrameArrives
    <3> QED BY <3>1, <3>2 DEF SweepInv, AllIdentified
  <2>2. /\ f.leg \in Tokens /\ f.of \in Contracts /\ f.named \in BOOLEAN /\ misnamed' \subseteq Tokens
        /\ misnamed \subseteq misnamed' /\ (NamesIt(f, f.leg, "wrong") => f.leg \in misnamed')
    BY <2>1 DEF Frame, SweepInv, SweepTypeOK, NamesIt, Says
  <2>3. PICK q \in Run :
          /\ probe'[h] = q /\ \A r \in Requests \ {h} : probe'[r] = probe[r]
          /\ q.kind = "sweep" /\ q.asked = p.asked /\ q.counted = p.counted
          /\ \/ q = p /\ ~Merges(p, f)
             \/ /\ Merges(p, f) /\ q.acked = IF f.named THEN p.acked \cup {f.leg} ELSE p.acked
                /\ q.book = [p.book EXCEPT ![f.leg] = f.of]
    <3>1. CASE Merges(p, f)
      <4>1. PICK q \in Run : /\ q = Merged(p, f) /\ q.kind = p.kind /\ q.asked = p.asked /\ q.counted = p.counted
                            /\ q.acked = (IF f.named THEN p.acked \cup {f.leg} ELSE p.acked)
                            /\ q.book = [p.book EXCEPT ![f.leg] = f.of]
        <5>1. PICK a \in SUBSET Tokens, b \in [Tokens -> Contracts \cup {Off}] :
                a = (IF f.named THEN p.acked \cup {f.leg} ELSE p.acked) /\ b = [p.book EXCEPT ![f.leg] = f.of]
          BY <2>1, <2>2 DEF Run
        <5>2. PICK q \in Run : q = [p EXCEPT !.acked = a, !.book = b] /\ q.acked = a /\ q.book = b
                              /\ q.kind = p.kind /\ q.asked = p.asked /\ q.counted = p.counted
          <6>1. PICK s \in Run : s = p
            BY <2>1, Zenon
          <6>2. PICK t : t = [s EXCEPT !.acked = a, !.book = b]
            OBVIOUS
          <6>3. /\ t \in Run /\ t.acked = a /\ t.book = b /\ t.kind = s.kind /\ t.asked = s.asked
                /\ t.counted = s.counted
            BY <6>2 DEF Run
          <6> QED BY <6>1, <6>2, <6>3, Zenon
        <5>3. Merged(p, f) = [p EXCEPT !.acked = a, !.book = b]
          BY <5>1 DEF Merged
        <5> QED BY <5>1, <5>2, <5>3
      <4>2. probe'[h] = q /\ \A r \in Requests \ {h} : probe'[r] = probe[r]
        BY <2>1, <3>1, <4>1 DEF SweepInv, SweepTypeOK
      <4> QED BY <2>1, <3>1, <4>1, <4>2
    <3>2. CASE ~Merges(p, f)
      BY <2>1, <3>2
    <3> QED BY <3>1, <3>2
  <2>4. SweepTypeOK'
    <3>1. probe' \in [Requests -> Run]
      BY <2>1, <2>3 DEF SweepInv, SweepTypeOK
    <3> QED BY <1>1, <1>2, <2>2, <3>1 DEF SweepInv, SweepTypeOK
  <2>5. \A l \in p.acked \ misnamed : l \in Tokens /\ LegTold(l)
    BY <2>1 DEF SweepInv, Told, Run
  <2>6. Told'
    <3> SUFFICES ASSUME NEW l \in q.acked \ misnamed' PROVE LegTold(l)'
      BY <1>1, <2>1, <2>3 DEF Told, Hears
    <3>1. l \in Tokens /\ ~NamesIt(f, l, "wrong")
      BY <2>2 DEF Run, NamesIt, Says
    <3>2. CASE l \in p.acked
      <4>1. LegTold(l)
        BY <2>2, <2>5, <3>2
      <4> QED BY <1>2, <1>4, <3>1, <4>1, SMTT(30) DEF LegTold
    <3>3. CASE l \notin p.acked
      <4>1. NamesIt(f, l, "right") /\ 1 \in 1..(n + 1)
        BY <1>2, <2>3, <3>3 DEF Merges, NamesIt, Says
      <4>2. /\ \A j \in 1..(n + 1) : 1 < j /\ Says(wire[j], l, "wrong") => \E k \in 1..(n + 1) : 1 < k /\ k <= j /\ NamesIt(wire[k], l, "wrong")
            /\ stream[l] = "wrong" => \E k \in 1..(n + 1) : 1 < k /\ NamesIt(wire[k], l, "wrong")
        BY <1>2, <3>1, <4>1 DEF SweepInv, WireTold, Contracts
      <4> QED BY <1>2, <1>4, <3>1, <4>2
    <3> QED BY <3>2, <3>3
  <2>7. Identified(q, misnamed')
    <3>1. CASE q = p
      BY <2>1, <2>2, <3>1 DEF Identified
    <3>2. CASE Merges(p, f) /\ q.acked = (IF f.named THEN p.acked \cup {f.leg} ELSE p.acked)
               /\ q.book = [p.book EXCEPT ![f.leg] = f.of]
      <4>1. q.acked \subseteq q.asked /\ f.leg \in q.asked
        BY <2>1, <2>3, <3>2 DEF Merges, Identified
      <4>2. q.book[f.leg] = f.of /\ \A l \in Tokens \ {f.leg} : q.book[l] = p.book[l]
        BY <2>1, <2>2, <3>2 DEF Run
      <4>3. f.leg \notin misnamed' => f.of = "right"
        <5>1. CASE f.named
          BY <3>2, <5>1 DEF Merges
        <5>2. ASSUME ~f.named, f.leg \notin misnamed', f.of # "right" PROVE FALSE
          <6>1. f.leg \in p.acked \ misnamed
            BY <2>2, <3>2, <5>2 DEF Merges
          <6>2. Says(wire[1], f.leg, "wrong") /\ 1 \in DOMAIN wire
            BY <1>2, <2>2, <5>2 DEF Says, Contracts
          <6>3. PICK k \in DOMAIN wire : k <= 1 /\ NamesIt(wire[k], f.leg, "wrong")
            BY <2>5, <6>1, <6>2 DEF LegTold
          <6> QED BY <1>2, <5>2, <6>3 DEF NamesIt
        <5> QED BY <5>1, <5>2
      <4>4. f.of # Off
        BY <2>2 DEF Contracts, Off
      <4>5. q.asked = p.asked /\ q.counted = p.counted /\ Identified(p, misnamed) /\ misnamed \subseteq misnamed'
        BY <2>1, <2>2, <2>3
      <4>6. ASSUME NEW l \in Tokens \ misnamed', q.book[l] # Off PROVE l \in q.asked /\ q.book[l] = "right"
        BY <4>1, <4>2, <4>3, <4>5, <4>6 DEF Identified
      <4>7. ASSUME NEW l \in q.counted PROVE q.book[l] # Off
        <5>1. l \in Tokens
          BY DEF Run
        <5> QED BY <4>2, <4>4, <4>5, <4>7, <5>1 DEF Identified
      <4> QED BY <4>1, <4>6, <4>7 DEF Identified
    <3> QED BY <2>3, <3>1, <3>2
  <2>8. AllIdentified'
    <3>1. ASSUME NEW r \in Requests \ {h}, probe'[r].kind = "sweep" PROVE Identified(probe'[r], misnamed')
      BY <2>2, <2>3, <3>1 DEF SweepInv, AllIdentified, Identified
    <3> QED BY <2>3, <2>7, <3>1 DEF AllIdentified
  <2> QED BY <1>3, <2>4, <2>6, <2>8 DEF SweepInv
<1> QED BY <1>5, <1>6

LEMMA SweepStep == SweepInv /\ [SweepNext]_sweepVars => SweepInv'
<1> SUFFICES ASSUME SweepInv, [SweepNext]_sweepVars PROVE SweepInv'
  OBVIOUS
<1>1. CASE FrameArrives
  BY <1>1, FrameIsHeard
<1>2. ASSUME NEW l \in Tokens, Acknowledges(l) \/ Delta(l) PROVE SweepInv'
  BY <1>2, BrokerSends
<1>3. ASSUME NEW r \in Requests, Begins(r) PROVE SweepInv'
  <2>1. PICK asked \in SUBSET Tokens \ {{}}, kind \in Kinds :
          probe' = [probe EXCEPT ![r] = [Asleep EXCEPT !.at = "loop", !.kind = kind, !.asked = asked, !.todo = asked]]
    BY <1>3 DEF Begins
  <2>2. PICK p : p = [Asleep EXCEPT !.at = "loop", !.kind = kind, !.asked = asked, !.todo = asked]
    OBVIOUS
  <2>3. p \in Run /\ p.acked = {} /\ p.counted = {} /\ \A l \in Tokens : p.book[l] = Off
    BY <2>1, <2>2 DEF Asleep, Run, Contracts
  <2>4. Identified(p, misnamed)
    BY <2>3 DEF Identified
  <2>5. probe' = [probe EXCEPT ![r] = p] /\ UNCHANGED <<stream, renewed, wire, frames, failures, misnamed>> /\ handler' = r
    BY <1>3, <2>1, <2>2 DEF Begins
  <2> QED BY <2>3, <2>4, <2>5, RunChanges DEF SweepInv, SweepTypeOK
<1>4. ASSUME NEW r \in Requests, Rotates(r) PROVE SweepInv'
  <2>0. probe[r] \in Run
    BY DEF SweepInv, SweepTypeOK
  <2>1. PICK chunk \in SUBSET probe[r].todo :
          /\ probe' = [probe EXCEPT ![r].at = "settle", ![r].chunk = chunk, ![r].todo = @ \ chunk]
          /\ renewed' = renewed \cup chunk
    BY <1>4 DEF Rotates
  <2>2. PICK p : p = [probe[r] EXCEPT !.at = "settle", !.chunk = chunk, !.todo = probe[r].todo \ chunk]
    OBVIOUS
  <2>3. /\ p \in Run /\ p.acked = probe[r].acked /\ p.asked = probe[r].asked /\ p.book = probe[r].book
        /\ p.counted = probe[r].counted /\ p.kind = probe[r].kind
    BY <2>0, <2>1, <2>2 DEF Run
  <2>4. p.kind = "sweep" => Identified(p, misnamed)
    BY <2>3 DEF Identified, SweepInv, AllIdentified
  <2>5. /\ probe' = [probe EXCEPT ![r] = p] /\ UNCHANGED <<handler, stream, wire, frames, failures, misnamed>>
        /\ renewed' \subseteq Tokens
    BY <1>4, <2>0, <2>1, <2>2 DEF Rotates, SweepInv, SweepTypeOK, Run
  <2>6. handler' = r /\ r # NoRequest /\ p.kind = "sweep" => Hears(r) /\ p.acked = probe[r].acked
    BY <2>3, <2>5 DEF Hears, SweepInv, SweepTypeOK
  <2> QED BY <2>3, <2>4, <2>5, <2>6, RunChanges DEF SweepInv, SweepTypeOK
<1>5. ASSUME NEW r \in Requests, Settles(r) PROVE SweepInv'
  <2>0. probe[r] \in Run
    BY DEF SweepInv, SweepTypeOK
  <2>2. PICK p : p = [probe[r] EXCEPT !.at = "loop", !.chunk = {}]
    OBVIOUS
  <2>3. /\ p \in Run /\ p.acked = probe[r].acked /\ p.asked = probe[r].asked /\ p.book = probe[r].book
        /\ p.counted = probe[r].counted /\ p.kind = probe[r].kind
    BY <2>0, <2>2 DEF Run
  <2>4. p.kind = "sweep" => Identified(p, misnamed)
    BY <2>3 DEF Identified, SweepInv, AllIdentified
  <2>5. /\ probe' = [probe EXCEPT ![r] = p] /\ UNCHANGED <<handler, wire, frames, misnamed>>
        /\ renewed' \subseteq Tokens /\ failures' \in Nat
    <3>1. probe' = [probe EXCEPT ![r].at = "loop", ![r].chunk = {}]
      BY <1>5 DEF Settles
    <3>2. probe' = [probe EXCEPT ![r] = p]
      BY <2>2, <3>1 DEF SweepInv, SweepTypeOK
    <3>3. UNCHANGED <<handler, wire, frames, misnamed>> /\ renewed' \subseteq renewed /\ failures' \in {failures, failures + 1}
      BY <1>5 DEF Settles
    <3> QED BY <3>2, <3>3 DEF SweepInv, SweepTypeOK
  <2>6. stream' \in [Tokens -> Contracts \cup {Off}] /\ \A l \in Tokens : stream'[l] \in {stream[l], Off}
    BY <1>5 DEF Settles, SweepInv, SweepTypeOK
  <2>7. handler' = r /\ r # NoRequest /\ p.kind = "sweep" => Hears(r) /\ p.acked = probe[r].acked
    BY <2>3, <2>5 DEF Hears, SweepInv, SweepTypeOK
  <2> QED BY <2>3, <2>4, <2>5, <2>6, <2>7, RunChanges DEF SweepInv, SweepTypeOK
<1>6. ASSUME NEW r \in Requests, Ends(r) PROVE SweepInv'
  <2>0. probe[r] \in Run /\ UNCHANGED <<stream, renewed, wire, frames, misnamed>> /\ handler' = NoRequest /\ failures' \in Nat
    BY <1>6 DEF Ends, SweepInv, SweepTypeOK
  <2>1. PICK p \in Run : probe' = [probe EXCEPT ![r] = p] /\ (p.kind = "sweep" => Identified(p, misnamed))
    <3>1. CASE \E p \in Tallies(probe[r]) : probe' = [probe EXCEPT ![r] = p]
      <4>1. PICK C \in SUBSET {l \in Tokens : probe[r].book[l] # Off} :
              probe' = [probe EXCEPT ![r] = [probe[r] EXCEPT !.at = "done", !.counted = C]]
        BY <3>1 DEF Tallies
      <4>2. PICK p : p = [probe[r] EXCEPT !.at = "done", !.counted = C]
        OBVIOUS
      <4>3. /\ p \in Run /\ p.acked = probe[r].acked /\ p.asked = probe[r].asked /\ p.book = probe[r].book
            /\ p.counted = C /\ p.kind = probe[r].kind
        BY <2>0, <4>1, <4>2 DEF Run
      <4>4. p.kind = "sweep" => Identified(p, misnamed)
        BY <4>1, <4>3 DEF Identified, SweepInv, AllIdentified
      <4> QED BY <4>1, <4>2, <4>3, <4>4
    <3>2. CASE probe' = [probe EXCEPT ![r] = [Asleep EXCEPT !.at = "done"]]
      <4>1. PICK p : p = [Asleep EXCEPT !.at = "done"]
        OBVIOUS
      <4>2. p \in Run /\ p.kind = "plain"
        BY <4>1 DEF Asleep, Run, Kinds, Contracts
      <4> QED BY <3>2, <4>1, <4>2
    <3> QED BY <1>6, <3>1, <3>2 DEF Ends
  <2>2. ~(handler' = r /\ r # NoRequest)
    BY <2>0
  <2> QED BY <2>0, <2>1, <2>2, RunChanges DEF SweepInv, SweepTypeOK
<1>7. CASE UNCHANGED sweepVars
  BY <1>7 DEF sweepVars, SweepInv, SweepTypeOK, WireTold, Told, LegTold, Hears, AllIdentified
<1> QED BY <1>1, <1>2, <1>3, <1>4, <1>5, <1>6, <1>7 DEF SweepNext

\* What a sweep counts is the open interest of the contract it asked for, unless the
\* broker named the leg wrongly after it had named it rightly, for every number of
\* probes, tokens, frames in flight and failed calls.
THEOREM OpenInterestIsIdentified == SweepSpec => []OiIsIdentified
<1>1. SweepInv => OiIsIdentified
  <2> SUFFICES ASSUME SweepInv, NEW r \in Requests, probe[r].kind = "sweep", NEW l \in probe[r].counted \ misnamed
      PROVE  l \in probe[r].asked /\ probe[r].book[l] = "right"
    BY DEF OiIsIdentified
  <2>1. l \in Tokens
    BY DEF SweepInv, SweepTypeOK, Run
  <2> QED BY <2>1 DEF SweepInv, AllIdentified, Identified
<1> QED BY <1>1, SweepStarts, SweepStep, PTL DEF SweepSpec

\* The listener is on its way, and what streams, or will, is of a batch that will
\* be unsubscribed, as long as no call has failed.
ListenerRuns == handler # NoRequest => probe[handler].at \in {"loop", "settle"}
Settling(l) == \E r \in Requests : probe[r].at = "settle" /\ l \in probe[r].chunk
StreamsSettle == failures = 0 => \A l \in Tokens : l \in renewed \/ stream[l] # Off => Settling(l)
CleanInv == ListenerRuns /\ StreamsSettle

LEMMA CleanStep == SweepInv /\ CleanInv /\ [SweepNext]_sweepVars => CleanInv'
<1> SUFFICES ASSUME SweepInv, CleanInv, [SweepNext]_sweepVars PROVE CleanInv'
  OBVIOUS
<1>0. probe \in [Requests -> Run] /\ handler \in Requests \cup {NoRequest} /\ failures \in Nat
  BY DEF SweepInv, SweepTypeOK
<1>1. CASE FrameArrives
  <2>1. UNCHANGED <<handler, renewed, stream, failures>>
    BY <1>1 DEF FrameArrives
  <2>2. \A r \in Requests : probe'[r].at = probe[r].at /\ probe'[r].chunk = probe[r].chunk
    <3>1. CASE handler = NoRequest \/ probe[handler].kind = "plain"
      BY <1>1, <3>1 DEF FrameArrives
    <3>2. CASE handler # NoRequest /\ probe[handler].kind # "plain"
      <4>1. PICK h \in Requests : h = handler
        BY <1>0, <3>2
      <4>2. probe' = probe \/ probe' = [probe EXCEPT ![h] = Merged(probe[h], Head(wire))]
        BY <1>1, <3>2, <4>1 DEF FrameArrives
      <4>3. PICK s \in Run : s = probe[h]
        BY <1>0
      <4>4. Merged(s, Head(wire)).at = s.at /\ Merged(s, Head(wire)).chunk = s.chunk
        BY DEF Merged, Run
      <4> QED BY <1>0, <4>2, <4>3, <4>4
    <3> QED BY <3>1, <3>2
  <2> QED BY <1>0, <2>1, <2>2 DEF CleanInv, ListenerRuns, StreamsSettle, Settling
<1>2. ASSUME NEW l \in Tokens, Acknowledges(l) \/ Delta(l) PROVE CleanInv'
  <2>1. /\ UNCHANGED <<handler, probe, failures>> /\ renewed' \subseteq renewed
        /\ \A m \in Tokens : m \in renewed' \/ stream'[m] # Off => m \in renewed \/ stream[m] # Off
    BY <1>2 DEF Acknowledges, Delta, SweepInv, SweepTypeOK
  <2> QED BY <2>1 DEF CleanInv, ListenerRuns, StreamsSettle, Settling
<1>3. ASSUME NEW r \in Requests, Begins(r) PROVE CleanInv'
  <2>1. /\ probe[r].at = "idle" /\ probe'[r].at = "loop" /\ \A q \in Requests \ {r} : probe'[q] = probe[q]
        /\ handler' = r /\ UNCHANGED <<stream, renewed, failures>>
    BY <1>0, <1>3 DEF Begins, Asleep
  <2> QED BY <2>1 DEF CleanInv, ListenerRuns, StreamsSettle, Settling
<1>4. ASSUME NEW r \in Requests, Rotates(r) PROVE CleanInv'
  <2>1. PICK chunk \in SUBSET probe[r].todo :
          /\ probe' = [probe EXCEPT ![r].at = "settle", ![r].chunk = chunk, ![r].todo = @ \ chunk]
          /\ renewed' = renewed \cup chunk
    BY <1>4 DEF Rotates
  <2>2. /\ probe[r].at = "loop" /\ probe'[r].at = "settle" /\ probe'[r].chunk = chunk
        /\ \A q \in Requests \ {r} : probe'[q] = probe[q]
    BY <1>0, <1>4, <2>1 DEF Rotates, Run
  <2>3. UNCHANGED <<handler, stream, failures>>
    BY <1>4 DEF Rotates
  <2>4. ListenerRuns'
    BY <1>0, <2>2, <2>3 DEF CleanInv, ListenerRuns
  <2>5. \A l \in Tokens : Settling(l) \/ l \in chunk => Settling(l)'
    BY <2>2 DEF Settling
  <2> QED BY <2>1, <2>3, <2>4, <2>5 DEF CleanInv, StreamsSettle
<1>5. ASSUME NEW r \in Requests, Settles(r) PROVE CleanInv'
  <2>1. /\ probe'[r].at = "loop" /\ \A q \in Requests \ {r} : probe'[q] = probe[q]
    BY <1>0, <1>5 DEF Settles, Run
  <2>2. ListenerRuns'
    BY <1>0, <1>5, <2>1 DEF Settles, CleanInv, ListenerRuns
  <2>3. CASE failures' = 0
    <3>1. /\ stream' = [l \in Tokens |-> IF l \in probe[r].chunk THEN Off ELSE stream[l]]
          /\ renewed' = renewed \ probe[r].chunk /\ failures = 0
      BY <1>0, <1>5, <2>3 DEF Settles
    <3>2. ASSUME NEW l \in Tokens, l \in renewed' \/ stream'[l] # Off PROVE Settling(l)'
      <4>1. l \notin probe[r].chunk /\ Settling(l)
        BY <3>1, <3>2 DEF CleanInv, StreamsSettle
      <4> QED BY <2>1, <4>1 DEF Settling
    <3> QED BY <2>2, <3>2 DEF CleanInv, StreamsSettle
  <2> QED BY <2>2, <2>3 DEF CleanInv, StreamsSettle
<1>6. ASSUME NEW r \in Requests, Ends(r) PROVE CleanInv'
  <2>1. /\ probe[r].at = "loop" /\ handler' = NoRequest /\ UNCHANGED <<stream, renewed>>
        /\ (failures' = 0 => failures = 0)
    BY <1>0, <1>6 DEF Ends
  <2>2. \A q \in Requests \ {r} : probe'[q] = probe[q]
    BY <1>0, <1>6 DEF Ends
  <2> QED BY <2>1, <2>2 DEF CleanInv, ListenerRuns, StreamsSettle, Settling
<1>7. CASE UNCHANGED sweepVars
  BY <1>7 DEF sweepVars, CleanInv, ListenerRuns, StreamsSettle, Settling
<1> QED BY <1>1, <1>2, <1>3, <1>4, <1>5, <1>6, <1>7 DEF SweepNext

\* When every probe has ended nobody listens to the raw frames, and the broker streams
\* nothing of theirs unless an unsubscription failed.
THEOREM SweepsEndClean == SweepSpec => []SweepsLeaveNothing
<1>1. SweepInit => CleanInv
  BY DEF SweepInit, CleanInv, ListenerRuns, StreamsSettle
<1>2. SweepInv /\ CleanInv => SweepsLeaveNothing
  BY DEF SweepInv, SweepTypeOK, CleanInv, ListenerRuns, StreamsSettle, Settling, SweepsLeaveNothing
<1> QED BY <1>1, <1>2, SweepStarts, SweepStep, CleanStep, PTL DEF SweepSpec

-----------------------------------------------------------------------------
(***************************************************************************)
(* The risk desk.  What an entry may cost is a sum over the whole book, so *)
(* the proof carries the sums along: each position adds its own part.      *)
(***************************************************************************)

(* What an entry costs                                                     *)

Tracked == [under : Names, right : {"CE", "PE", "FUT"}, long : BOOLEAN, qty : Nat, rps : Nat,
            px : Nat, quoted : Nat, adopted : BOOLEAN]
\* The positions are typed, and no point of the curve is above its peak.
DeskInv ==
  /\ book \in Seq(Tracked) /\ budget \in Nat /\ equity \in Nat
  /\ curve \in [points : 0..2, peak : Int, last : Int] /\ curve.last <= curve.peak
  /\ halted \in BOOLEAN /\ surprises \in Nat

\* A quotient is the most there is room for.
LEMMA Quotient ==
  ASSUME NEW a \in Int, NEW b \in Int, b > 0
  PROVE  a \div b \in Int /\ b * (a \div b) <= a /\ (a >= 0 => a \div b >= 0)
<1> DEFINE q == a \div b
<1>1. q \in Int /\ b * q <= a /\ a < b * q + b
  BY SMT
<1>2. a >= 0 => q >= 0
  <2>1. ASSUME q <= -1, a >= 0 PROVE FALSE
    <3>1. b * q <= b * (-1)
      BY <1>1, <2>1, SMT
    <3> QED BY <1>1, <2>1, <3>1
  <2> QED BY <1>1, <2>1
<1> QED BY <1>1, <1>2

\* A product grows with its factor.
LEMMA Scaled ==
  ASSUME NEW a \in Nat, NEW b \in Int, NEW c \in Int, b <= c
  PROVE  a * b <= a * c /\ a * b \in Int /\ a * c \in Int
BY SMT

\* The least of a finite set of numbers, and the most of one that has zero.
LEMMA LeastOf ==
  ASSUME NEW S, IsFiniteSet(S), S # {}, \A x \in S : x \in Int
  PROVE  Min(S) \in S /\ \A x \in S : Min(S) <= x
<1>1. \E x \in S : \A y \in S : x <= y
  BY MinIsThere
<1> QED BY <1>1 DEF Min

\* The most of a finite set of whole numbers bounds them, and is 0 or one of them.
LEMMA MostOf ==
  ASSUME NEW S, IsFiniteSet(S), \A x \in S : x \in Int
  PROVE  Most(S) \in S \cup {0} /\ Most(S) \in Nat /\ \A x \in S : x <= Most(S)
<1> DEFINE T == S \cup {0}
<1>1. IsFiniteSet(T) /\ T # {} /\ \A x \in T : x \in Int
  BY FS_AddElement
<1>2. \E x \in T : \A y \in T : x >= y
  <2> HIDE DEF T
  <2> QED BY <1>1, MaxIsThere
<1>3. Max(T) \in T /\ \A y \in T : Max(T) >= y
  BY <1>2 DEF Max
<1>4. Most(S) = Max(T)
  BY DEF Most
<1>5. 0 \in T /\ \A x \in S : x \in T
  OBVIOUS
<1> HIDE DEF T
<1>6. Max(T) \in Int /\ Max(T) >= 0 /\ \A x \in S : x <= Max(T)
  BY <1>1, <1>3, <1>5
<1> QED BY <1>3, <1>4, <1>6 DEF T

\* One more position.
LEMMA BookGrows ==
  ASSUME NEW b \in Seq(Tracked), NEW p \in Tracked
  PROVE  LET c == Append(b, p) IN
         /\ c \in Seq(Tracked) /\ Len(c) = Len(b) + 1 /\ DOMAIN c = DOMAIN b \cup {Len(b) + 1}
         /\ Last(c) = p /\ c[Len(b) + 1] = p /\ \A i \in DOMAIN b : c[i] = b[i]
         /\ IsFiniteSet(DOMAIN b) /\ Len(b) + 1 \notin DOMAIN b /\ Len(b) \in Nat
<1> DEFINE c == Append(b, p)
<1>1. Len(b) \in Nat /\ DOMAIN b = 1..Len(b)
  OBVIOUS
<1>2. IsFiniteSet(1..Len(b))
  BY <1>1, FS_Interval
<1>3. c \in Seq(Tracked) /\ Len(c) = Len(b) + 1 /\ DOMAIN c = 1..(Len(b) + 1)
  BY <1>1
<1>4. c[Len(b) + 1] = p /\ \A i \in 1..Len(b) : c[i] = b[i]
  BY <1>1
<1> QED BY <1>1, <1>2, <1>3, <1>4 DEF Last

\* A sum over the book takes the new position in.
LEMMA SumGrows ==
  ASSUME NEW f, NEW g, NEW x, IsFiniteSet(DOMAIN f), x \notin DOMAIN f, DOMAIN g = DOMAIN f \cup {x},
         \A y \in DOMAIN f : f[y] \in Int /\ g[y] = f[y], g[x] \in Int
  PROVE  /\ SumFunction(f) \in Int /\ SumFunction(g) = SumFunction(f) + g[x]
<1> DEFINE S == DOMAIN f
<1>1. SumFunctionOnSet(g, S \cup {x}) = g[x] + SumFunctionOnSet(g, S)
  <2>1. \A y \in S \cup {x} : g[y] \in Int
    OBVIOUS
  <2> QED BY <2>1, SumAdd
<1>2. SumFunctionOnSet(f, S) = SumFunctionOnSet(g, S)
  BY SumSame
<1>3. SumFunctionOnSet(f, S) \in Int
  BY SumIsInt
<1> QED BY <1>1, <1>2, <1>3 DEF SumFunction

\* What a position risks and what it took to open are whole and not negative.
LEMMA PositionsCount ==
  ASSUME NEW p \in Tracked
  PROVE  Risk(p) \in Nat /\ Committed(p) \in Nat /\ p.qty \div Lot \in Int
<1>1. p.qty \in Nat /\ p.rps \in Nat /\ p.px \in Nat
  BY DEF Tracked
<1>2. p.rps * p.qty \in Nat /\ p.px * p.qty \in Nat
  BY <1>1, SMT
<1>3. Lot \in Nat /\ Lot > 0
  BY RiskDeskAssumption
<1>4. p.qty \div Lot \in Int
  BY <1>1, <1>3, Quotient
<1> QED BY <1>2, <1>4 DEF Risk, Committed

\* A position that joins the book adds its own risk, premium and lots to the sums.
LEMMA DeskSums ==
  ASSUME NEW b \in Seq(Tracked), NEW p \in Tracked, NEW name
  PROVE  LET c == Append(b, p) IN
         /\ RiskOf(b) \in Int /\ RiskOf(c) = RiskOf(b) + Risk(p)
         /\ Deployed(b) \in Int /\ Deployed(c) = Deployed(b) + Committed(p)
         /\ LotsOf(name, b) \in Int
         /\ LotsOf(name, c) = LotsOf(name, b) + IF p.under = name THEN p.qty \div Lot ELSE 0
<1> DEFINE c == Append(b, p)
<1>1. PICK S, x : /\ S = DOMAIN b /\ x = Len(b) + 1 /\ IsFiniteSet(S) /\ x \notin S /\ DOMAIN c = S \cup {x} /\ c[x] = p
                  /\ \A i \in S : c[i] = b[i] /\ b[i] \in Tracked
  <2>1. \A i \in DOMAIN b : b[i] \in Tracked
    OBVIOUS
  <2>2. c = Append(b, p)
    OBVIOUS
  <2> HIDE DEF c
  <2>3. /\ DOMAIN c = DOMAIN b \cup {Len(b) + 1} /\ c[Len(b) + 1] = p /\ \A i \in DOMAIN b : c[i] = b[i]
        /\ IsFiniteSet(DOMAIN b) /\ Len(b) + 1 \notin DOMAIN b
    BY <2>2, BookGrows
  <2> QED BY <2>1, <2>3
<1> HIDE DEF c
<1>2. \A i \in S : Risk(b[i]) \in Int /\ Committed(b[i]) \in Int /\ b[i].qty \div Lot \in Int
  BY <1>1, PositionsCount
<1>3. Risk(p) \in Int /\ Committed(p) \in Int /\ p.qty \div Lot \in Int
  BY PositionsCount
<1>4. RiskOf(b) \in Int /\ RiskOf(c) = RiskOf(b) + Risk(p)
  <2> DEFINE f == [i \in DOMAIN b |-> Risk(b[i])]
             g == [i \in DOMAIN c |-> Risk(c[i])]
  <2>1. DOMAIN f = S /\ DOMAIN g = S \cup {x} /\ (\A y \in S : f[y] \in Int /\ g[y] = f[y]) /\ g[x] \in Int /\ g[x] = Risk(p)
    BY <1>1, <1>2, <1>3
  <2>2. RiskOf(b) = SumFunction(f) /\ RiskOf(c) = SumFunction(g)
    BY DEF RiskOf
  <2> HIDE DEF f, g
  <2>3. SumFunction(f) \in Int /\ SumFunction(g) = SumFunction(f) + g[x]
    BY <1>1, <2>1, SumGrows
  <2> QED BY <2>1, <2>2, <2>3
<1>5. Deployed(b) \in Int /\ Deployed(c) = Deployed(b) + Committed(p)
  <2> DEFINE f == [i \in DOMAIN b |-> Committed(b[i])]
             g == [i \in DOMAIN c |-> Committed(c[i])]
  <2>1. DOMAIN f = S /\ DOMAIN g = S \cup {x} /\ (\A y \in S : f[y] \in Int /\ g[y] = f[y]) /\ g[x] \in Int /\ g[x] = Committed(p)
    BY <1>1, <1>2, <1>3
  <2>2. Deployed(b) = SumFunction(f) /\ Deployed(c) = SumFunction(g)
    BY DEF Deployed
  <2> HIDE DEF f, g
  <2>3. SumFunction(f) \in Int /\ SumFunction(g) = SumFunction(f) + g[x]
    BY <1>1, <2>1, SumGrows
  <2> QED BY <2>1, <2>2, <2>3
<1>6. LotsOf(name, b) \in Int
      /\ LotsOf(name, c) = LotsOf(name, b) + IF p.under = name THEN p.qty \div Lot ELSE 0
  <2> DEFINE f == [i \in DOMAIN b |-> IF b[i].under = name THEN b[i].qty \div Lot ELSE 0]
             g == [i \in DOMAIN c |-> IF c[i].under = name THEN c[i].qty \div Lot ELSE 0]
  <2>1. DOMAIN f = S /\ DOMAIN g = S \cup {x} /\ (\A y \in S : f[y] \in Int /\ g[y] = f[y]) /\ g[x] \in Int
        /\ g[x] = IF p.under = name THEN p.qty \div Lot ELSE 0
    BY <1>1, <1>2, <1>3
  <2>2. LotsOf(name, b) = SumFunction(f) /\ LotsOf(name, c) = SumFunction(g)
    BY DEF LotsOf
  <2> HIDE DEF f, g
  <2>3. SumFunction(f) \in Int /\ SumFunction(g) = SumFunction(f) + g[x]
    BY <1>1, <2>1, SumGrows
  <2> QED BY <2>1, <2>2, <2>3
<1> QED BY <1>4, <1>5, <1>6 DEF c

\* The risk of a book is a whole number.
LEMMA RiskIsInt == ASSUME NEW b \in Seq(Tracked) PROVE RiskOf(b) \in Int
<1> DEFINE f == [i \in DOMAIN b |-> Risk(b[i])]
<1>1. \A i \in DOMAIN b : b[i] \in Tracked
  OBVIOUS
<1>2. DOMAIN f = 1..Len(b) /\ \A i \in DOMAIN f : f[i] \in Int
  BY <1>1, PositionsCount
<1>3. IsFiniteSet(DOMAIN f)
  BY <1>2, FS_Interval
<1>4. RiskOf(b) = SumFunctionOnSet(f, DOMAIN f)
  BY DEF RiskOf, SumFunction
<1> HIDE DEF f
<1> QED BY <1>2, <1>3, <1>4, SumIsInt

\* Whatever the stop and the kind of trade, a share risks something (rules.py's MinRisk floor).
LEMMA RiskIsPositive ==
  ASSUME NEW kind, NEW ask \in Nat, NEW sl \in Nat \ {0}, NEW worth \in Nat
  PROVE  RiskPerShare(kind, ask, sl, worth) \in Nat \ {0}
<1> USE RiskDeskAssumption
<1>1. CASE kind = "FUT"
  BY <1>1 DEF RiskPerShare
<1>2. CASE kind # "FUT"
  <2> DEFINE share == (ask * (100 - PremiumLossPct)) \div 100
             worthLeft == Most({worth, share})
  <2>1. PremiumLossPct \in 0..100 /\ MinRisk \in Nat \ {0}
    OBVIOUS
  <2>2. share \in Int
    <3>1. 100 - PremiumLossPct \in Int
      BY <2>1
    <3>2. ask * (100 - PremiumLossPct) \in Int
      BY <3>1, SMT
    <3> QED BY <3>2, Quotient
  <2>3. worthLeft \in Nat
    <3> HIDE DEF share
    <3>1. IsFiniteSet({worth, share})
      BY PairIsFinite
    <3>2. \A x \in {worth, share} : x \in Int
      BY <2>2
    <3> QED BY <3>1, <3>2, MostOf
  <2> HIDE DEF worthLeft
  <2>4. IsFiniteSet({ask - worthLeft, MinRisk}) /\ \A x \in {ask - worthLeft, MinRisk} : x \in Int
    <3>1. IsFiniteSet({ask - worthLeft, MinRisk})
      BY PairIsFinite
    <3>2. \A x \in {ask - worthLeft, MinRisk} : x \in Int
      BY <2>1, <2>3
    <3> QED BY <3>1, <3>2
  <2>5. Most({ask - worthLeft, MinRisk}) \in Nat /\ MinRisk <= Most({ask - worthLeft, MinRisk})
    BY <2>4, MostOf
  <2>6. RiskPerShare(kind, ask, sl, worth) = Most({ask - worthLeft, MinRisk})
    BY <1>2 DEF RiskPerShare, worthLeft
  <2> QED BY <2>1, <2>5, <2>6
<1> QED BY <1>1, <1>2

\* The lots of an entry fit the heat that is left, and after a drawdown of a
\* tenth half of what an entry may risk.
LEMMA LotsFit ==
  ASSUME DeskInv, NEW kind, NEW ask \in Nat, kind # "FUT" => ask > 0, NEW rps \in Nat \ {0}, NEW regime \in {2, 4},
         LotsFor(kind, ask, rps, regime) > 0
  PROVE  LET lots == LotsFor(kind, ask, rps, regime) IN
         /\ lots \in Nat /\ lots <= MaxLots
         /\ 100 * (OpenRisk + rps * (lots * Lot)) <= HeatPct * equity
         /\ curve.points = 2 /\ 10 * (curve.peak - curve.last) >= curve.peak
              => 200 * (rps * (lots * Lot)) <= RiskPct * equity
<1> DEFINE lots == LotsFor(kind, ask, rps, regime)
           byRisk == (equity * RiskPct * Throttle * regime) \div (1600 * rps * Lot)
           byHeat == HeatRoom \div (rps * Lot)
           byPremium == ((PremiumPct * equity) \div 100) \div (ask * Lot)
           T == {byRisk, byHeat, MaxLots} \cup IF kind = "FUT" THEN {} ELSE {byPremium}
<1>1. /\ RiskPct \in Nat /\ HeatPct \in Nat /\ PremiumPct \in Nat /\ MaxLots \in Nat /\ Lot \in Nat /\ Lot > 0
      /\ equity \in Nat /\ curve.peak \in Int /\ curve.last \in Int /\ curve.last <= curve.peak
  <2>1. RiskPct \in 0..100 /\ HeatPct \in 0..100 /\ PremiumPct \in 0..100 /\ MaxLots \in Nat \ {0} /\ Lot \in Nat \ {0}
    BY RiskDeskAssumption
  <2>2. equity \in Nat /\ curve.peak \in Int /\ curve.last \in Int /\ curve.last <= curve.peak
    BY DEF DeskInv
  <2> QED BY <2>1, <2>2
<1>2. Throttle \in {2, 3, 4}
      /\ (curve.points = 2 /\ 10 * (curve.peak - curve.last) >= curve.peak => Throttle = 2)
  BY <1>1 DEF Throttle
<1>3. rps * Lot \in Int /\ rps * Lot > 0 /\ 1600 * rps * Lot \in Int /\ 1600 * rps * Lot > 0
      /\ 1600 * rps * Lot = 1600 * (rps * Lot)
  BY <1>1, SMT
<1>4. OpenRisk \in Int /\ HeatPct * equity \in Int /\ (HeatPct * equity) \div 100 \in Int
      /\ 100 * ((HeatPct * equity) \div 100) <= HeatPct * equity
  <2>1. OpenRisk \in Int
    BY RiskIsInt DEF DeskInv, OpenRisk
  <2>2. HeatPct * equity \in Int
    BY <1>1, SMT
  <2> QED BY <2>1, <2>2, Quotient
<1>5. HeatRoom \in Nat /\ (HeatRoom = 0 \/ HeatRoom = (HeatPct * equity) \div 100 - OpenRisk)
  <2> DEFINE room == (HeatPct * equity) \div 100 - OpenRisk
  <2>1. room \in Int
    BY <1>4
  <2> HIDE DEF room
  <2>2. IsFiniteSet({room}) /\ \A x \in {room} : x \in Int
    BY <2>1, FS_EmptySet, FS_AddElement
  <2>3. Most({room}) \in Nat /\ Most({room}) \in {room} \cup {0}
    BY <2>2, MostOf
  <2> QED BY <2>3 DEF HeatRoom, room
<1>6. byHeat \in Int /\ (rps * Lot) * byHeat <= HeatRoom
  BY <1>3, <1>5, Quotient
<1>7. PICK allowed \in Int : allowed = equity * RiskPct * Throttle * regime
                 /\ (Throttle = 2 => allowed <= 8 * (RiskPct * equity)) /\ RiskPct * equity \in Int
  <2>1. equity * RiskPct \in Nat /\ RiskPct * equity = equity * RiskPct
    BY <1>1, SMT
  <2>2. PICK e \in Nat : e = equity * RiskPct
    BY <2>1
  <2>3. e * Throttle * regime \in Int /\ (Throttle = 2 => e * Throttle * regime <= 8 * e)
    <3>1. \A a \in {2, 3, 4}, c \in {2, 4} : e * a * c \in Int /\ (a = 2 => e * a * c <= 8 * e)
      BY <2>2, SMT
    <3> QED BY <1>2, <3>1
  <2> QED BY <2>1, <2>2, <2>3
<1>8. byRisk \in Int /\ (1600 * rps * Lot) * byRisk <= allowed
  <2>1. byRisk = allowed \div (1600 * rps * Lot)
    BY <1>7
  <2> QED BY <1>3, <1>7, <2>1, Quotient
<1>9. kind # "FUT" => byPremium \in Int
  <2> SUFFICES ASSUME kind # "FUT" PROVE byPremium \in Int
    OBVIOUS
  <2>1. ask * Lot \in Int /\ ask * Lot > 0
    BY <1>1, SMT
  <2>2. PremiumPct * equity \in Int
    BY <1>1, SMT
  <2>3. (PremiumPct * equity) \div 100 \in Int
    BY <2>2, Quotient
  <2> QED BY <2>1, <2>3, Quotient
<1> HIDE DEF byRisk, byHeat, byPremium
<1>10. IsFiniteSet(T) /\ T # {} /\ \A x \in T : x \in Int
  <2>1. IsFiniteSet({byRisk, byHeat, MaxLots}) /\ IsFiniteSet({byRisk, byHeat, MaxLots} \cup {byPremium})
    BY FewAreFinite
  <2>2. CASE kind = "FUT"
    <3>1. T = {byRisk, byHeat, MaxLots}
      BY <2>2
    <3> HIDE DEF T
    <3> QED BY <1>1, <1>6, <1>8, <2>1, <3>1
  <2>3. CASE kind # "FUT"
    <3>1. T = {byRisk, byHeat, MaxLots} \cup {byPremium}
      BY <2>3
    <3>2. byPremium \in Int
      BY <1>9, <2>3
    <3> HIDE DEF T
    <3>3. IsFiniteSet(T)
      BY <2>1, <3>1, Zenon
    <3>4. byRisk \in T /\ \A x \in T : x = byRisk \/ x = byHeat \/ x = MaxLots \/ x = byPremium
      BY <3>1
    <3> QED BY <1>1, <1>6, <1>8, <3>2, <3>3, <3>4
  <2> QED BY <2>2, <2>3
<1>11. byRisk \in T /\ byHeat \in T /\ MaxLots \in T
  OBVIOUS
<1>12. lots = Min(T)
  BY DEF LotsFor, T, byRisk, byHeat, byPremium
<1> HIDE DEF T, lots
<1>13. lots \in Int /\ lots <= byRisk /\ lots <= byHeat /\ lots <= MaxLots
  BY <1>10, <1>11, <1>12, LeastOf
<1>14. lots > 0 /\ lots \in Nat
  <2>1. lots > 0
    BY DEF lots
  <2> QED BY <1>13, <2>1
<1>15. PICK one \in Nat : one = rps * Lot
  BY <1>3
<1>16. rps * (lots * Lot) = one * lots /\ one * lots <= HeatRoom /\ one * lots \in Int /\ one * lots > 0
  <2>1. rps * (lots * Lot) = one * lots
    BY <1>1, <1>14, <1>15, SMT
  <2>2. one * lots <= one * byHeat /\ one * byHeat \in Int /\ one * lots \in Int
    BY <1>6, <1>13, Scaled
  <2>3. one * byHeat <= HeatRoom
    BY <1>6, <1>15
  <2>4. one * lots > 0
    BY <1>3, <1>14, <1>15, SMT
  <2> QED BY <1>5, <2>1, <2>2, <2>3, <2>4
<1>17. 100 * (OpenRisk + rps * (lots * Lot)) <= HeatPct * equity
  BY <1>4, <1>5, <1>16
<1>18. 1600 * (one * lots) <= allowed
  <2>1. (1600 * rps * Lot) * byRisk = 1600 * (one * byRisk) /\ one * byRisk \in Int
    BY <1>3, <1>8, <1>15, SMT
  <2>2. one * lots <= one * byRisk
    BY <1>8, <1>13, Scaled
  <2> QED BY <1>7, <1>8, <1>16, <2>1, <2>2
<1>19. curve.points = 2 /\ 10 * (curve.peak - curve.last) >= curve.peak
         => 200 * (rps * (lots * Lot)) <= RiskPct * equity
  BY <1>2, <1>7, <1>16, <1>18
<1> QED BY <1>13, <1>14, <1>17, <1>19 DEF lots

\* A mark changes the price of a position and nothing else.
LEMMA RequotedIs ==
  ASSUME NEW p \in Tracked
  PROVE  Quoted(p) = [under |-> p.under, right |-> p.right, long |-> p.long, qty |-> p.qty, rps |-> p.rps,
                      px |-> p.quoted, quoted |-> p.quoted, adopted |-> p.adopted]
BY DEF Quoted, Tracked

\* An entry joins the book for what it was sized by.
LEMMA EntryJoins ==
  ASSUME DeskInv, NEW name \in Names, NEW call \in BOOLEAN, NEW future \in BOOLEAN,
         NEW leg \in {NoLeg} \cup [ask : Prices], NEW sl \in Stops, NEW worth \in Reprices,
         NEW gate \in Gates, NEW regime \in {2, 4},
         Enter(name, call, leg, sl, worth, gate, future, regime)
  PROVE  DeskInv' /\ Covered
<1> DEFINE Opened(right, long, n, rps, px) ==
             [under |-> name, right |-> right, long |-> long, qty |-> n, rps |-> rps,
              px |-> px, quoted |-> leg.ask, adopted |-> FALSE]
<1>1. PICK kind \in Vehicles(gate, leg, future) \ {"SKIP"} :
        LET rps == RiskPerShare(kind, leg.ask, sl, worth)
            lots == LotsFor(kind, leg.ask, rps, regime)
            right == IF kind = "FUT" THEN "FUT" ELSE IF call THEN "CE" ELSE "PE"
            long == kind = "OPT" \/ call
        IN /\ kind = "OPT" => leg # NoLeg
           /\ lots > 0
           /\ CanOpen(IF kind = "FUT" THEN rps * (lots * Lot) ELSE leg.ask * (lots * Lot))
           /\ Allowed(Opened(right, long, lots * Lot, rps, leg.ask), lots)
           /\ \E n \in 1..lots, px \in {leg.ask, leg.ask + Slip} :
                book' = Append(book, Opened(right, long, n * Lot, rps, px))
  BY DEF Enter
<1>2. UNCHANGED <<budget, equity, curve, halted, surprises>>
  BY DEF Enter
<1>3. kind \in {"OPT", "FUT"}
  BY <1>1 DEF Vehicles
<1>4. leg.ask \in Nat /\ sl \in Nat \ {0} /\ worth \in Nat /\ (kind # "FUT" => leg.ask > 0)
      /\ Slip \in Nat /\ Lot \in Nat \ {0}
  <2>1. Prices \subseteq Nat \ {0} /\ Stops \subseteq Nat \ {0} /\ Reprices \subseteq Nat /\ Slip \in Nat /\ Lot \in Nat \ {0}
    BY RiskDeskAssumption
  <2>2. leg # NoLeg => leg.ask \in Nat /\ leg.ask > 0
    <3> SUFFICES ASSUME leg # NoLeg PROVE leg.ask \in Nat /\ leg.ask > 0
      OBVIOUS
    <3>1. leg \in [ask : Prices]
      OBVIOUS
    <3>2. leg.ask \in Prices
      BY <3>1
    <3>3. leg.ask \in Nat \ {0}
      BY <2>1, <3>2
    <3> QED BY <3>3
  <2>3. NoLeg.ask = 0
    BY DEF NoLeg
  <2>4. kind # "FUT" => leg # NoLeg
    BY <1>1, <1>3
  <2>5. leg.ask \in Nat
    BY <2>2, <2>3
  <2> QED BY <2>1, <2>2, <2>4, <2>5
<1> DEFINE rps == RiskPerShare(kind, leg.ask, sl, worth)
           lots == LotsFor(kind, leg.ask, rps, regime)
           right == IF kind = "FUT" THEN "FUT" ELSE IF call THEN "CE" ELSE "PE"
           long == kind = "OPT" \/ call
<1>7. right \in {"CE", "PE", "FUT"} /\ long \in BOOLEAN /\ (right = "FUT" <=> kind = "FUT")
      /\ (kind # "FUT" => long)
  BY <1>3
<1>8. /\ lots > 0
      /\ CanOpen(IF kind = "FUT" THEN rps * (lots * Lot) ELSE leg.ask * (lots * Lot))
      /\ Allowed(Opened(right, long, lots * Lot, rps, leg.ask), lots)
      /\ \E n \in 1..lots, px \in {leg.ask, leg.ask + Slip} :
                book' = Append(book, Opened(right, long, n * Lot, rps, px))
  BY <1>1
<1>5. rps \in Nat \ {0}
  BY <1>4, RiskIsPositive
<1> HIDE DEF rps, right, long
<1>6. /\ lots \in Nat \ {0} /\ lots <= MaxLots
      /\ 100 * (OpenRisk + rps * (lots * Lot)) <= HeatPct * equity
      /\ curve.points = 2 /\ 10 * (curve.peak - curve.last) >= curve.peak
           => 200 * (rps * (lots * Lot)) <= RiskPct * equity
  BY <1>4, <1>5, <1>8, LotsFit, SMTT(30)
<1> HIDE DEF lots
<1>9. PICK n \in 1..lots, px \in {leg.ask, leg.ask + Slip} :
                book' = Append(book, Opened(right, long, n * Lot, rps, px))
  BY <1>8
<1>10. PICK qty \in Nat : qty = n * Lot /\ qty <= lots * Lot /\ lots * Lot \in Nat /\ qty \div Lot = n
  <2>1. n \in Nat /\ n <= lots /\ lots \in Nat
    BY <1>6
  <2>2. Lot * n <= Lot * lots /\ Lot * n \in Int /\ Lot * lots \in Int
    BY <1>4, <2>1, Scaled
  <2>3. n * Lot = Lot * n /\ lots * Lot = Lot * lots /\ n * Lot >= 0
    BY <1>4, <2>1, SMT
  <2>4. (n * Lot) \div Lot = n
    BY <1>4, <2>1, SMT
  <2> QED BY <2>2, <2>3, <2>4
<1> DEFINE new == Opened(right, long, qty, rps, px)
           quoted == Opened(right, long, qty, rps, leg.ask)
           whole == lots * Lot
<1>11. new \in Tracked /\ quoted \in Tracked
  <2>1. px \in Nat
    BY <1>4
  <2> QED BY <1>4, <1>5, <1>7, <2>1 DEF Tracked
<1>12. book' = Append(book, new) /\ book \in Seq(Tracked)
  BY <1>9, <1>10 DEF DeskInv
<1>27. Quoted(new) = quoted
  BY <1>11, RequotedIs
<1>13. /\ new.under = name /\ new.qty = qty /\ new.rps = rps /\ Quoted(new) = quoted
       /\ new.right = right /\ new.long = long
       /\ quoted.right = right /\ quoted.long = long /\ quoted.px = leg.ask /\ quoted.qty = qty /\ quoted.rps = rps
  BY <1>27
<1>14. SameBet(Opened(right, long, lots * Lot, rps, leg.ask), new) /\
       \A q : SameBet(q, new) <=> SameBet(Opened(right, long, lots * Lot, rps, leg.ask), q)
  BY DEF SameBet
<1>15. /\ \A q \in Range(book) : ~SameBet(Opened(right, long, lots * Lot, rps, leg.ask), q)
       /\ LotsOf(name, book) + lots <= MaxLots
       /\ 100 * (Deployed(book) + (IF kind = "FUT" THEN rps * (lots * Lot) ELSE leg.ask * (lots * Lot)))
            < HardPct * budget
  BY <1>8 DEF Allowed, CanOpen
<1> HIDE DEF new, quoted, Opened
<1>16. /\ Append(book, new) \in Seq(Tracked) /\ Last(Append(book, new)) = new
       /\ DOMAIN book = 1..Len(book)
  BY <1>11, <1>12, BookGrows
<1>17. /\ RiskOf(book) \in Int /\ RiskOf(Append(book, new)) = RiskOf(book) + Risk(new)
       /\ LotsOf(name, book) \in Int
       /\ LotsOf(name, Append(book, new)) = LotsOf(name, book) + IF new.under = name THEN new.qty \div Lot ELSE 0
  BY <1>11, <1>12, DeskSums
<1>18. Deployed(book) \in Int /\ Deployed(Append(book, quoted)) = Deployed(book) + Committed(quoted)
  BY <1>11, <1>12, DeskSums
<1>19. Risk(new) = rps * qty /\ rps * qty <= rps * whole /\ rps * qty \in Int /\ rps * whole \in Int
       /\ leg.ask * qty <= leg.ask * whole /\ leg.ask * qty \in Int /\ leg.ask * whole \in Int
  <2>1. qty \in Int /\ whole \in Int /\ qty <= whole
    BY <1>10
  <2> HIDE DEF whole
  <2>2. rps * qty <= rps * whole /\ rps * qty \in Int /\ rps * whole \in Int
    BY <1>5, <2>1, Scaled
  <2>3. leg.ask * qty <= leg.ask * whole /\ leg.ask * qty \in Int /\ leg.ask * whole \in Int
    BY <1>4, <2>1, Scaled
  <2> QED BY <1>13, <2>2, <2>3 DEF Risk
<1>20. 100 * RiskOf(book') <= HeatPct * equity
  <2>1. HeatPct * equity \in Int
    <3>1. HeatPct \in 0..100
      BY RiskDeskAssumption
    <3>2. equity \in Nat
      BY DEF DeskInv
    <3> QED BY <3>1, <3>2, SMT
  <2> QED BY <1>6, <1>12, <1>17, <1>19, <2>1 DEF OpenRisk
<1>21. 100 * Deployed(Append(book, Quoted(new))) < HardPct * budget
  <2>1. Committed(quoted) <= (IF kind = "FUT" THEN rps * whole ELSE leg.ask * whole)
        /\ Committed(quoted) \in Int
    <3>1. CASE kind = "FUT"
      BY <1>7, <1>13, <1>19, <3>1 DEF Committed, Risk
    <3>2. CASE kind # "FUT"
      <4>1. right # "FUT" /\ long
        BY <1>7, <3>2
      <4> QED BY <1>13, <1>19, <3>2, <4>1 DEF Committed
    <3> QED BY <3>1, <3>2
  <2>2. HardPct * budget \in Int
    <3>1. HardPct \in 0..100
      BY RiskDeskAssumption
    <3>2. budget \in Nat
      BY DEF DeskInv
    <3> QED BY <3>1, <3>2, SMT
  <2> QED BY <1>13, <1>15, <1>18, <1>19, <2>1, <2>2
<1>22. LotsOf(new.under, book') <= MaxLots
  <2>1. MaxLots \in Nat
    BY RiskDeskAssumption
  <2> QED BY <1>6, <1>10, <1>12, <1>13, <1>15, <1>17, <2>1
<1>23. \A i \in DOMAIN book : ~SameBet(book[i], new)
  <2>1. \A i \in DOMAIN book : book[i] \in Range(book)
    BY DEF Range
  <2> QED BY <1>14, <1>15, <2>1
<1>24. curve.points = 2 /\ 10 * (curve.peak - curve.last) >= curve.peak => 200 * Risk(new) <= RiskPct * equity
  <2>1. RiskPct * equity \in Int
    <3>1. RiskPct \in 0..100
      BY RiskDeskAssumption
    <3>2. equity \in Nat
      BY DEF DeskInv
    <3> QED BY <3>1, <3>2, SMT
  <2> QED BY <1>6, <1>19, <2>1
<1>25. Covered
  BY <1>12, <1>16, <1>20, <1>21, <1>22, <1>23, <1>24 DEF Covered
<1>26. DeskInv'
  BY <1>2, <1>12, <1>16 DEF DeskInv
<1> QED BY <1>25, <1>26

\* Reductions, adoptions, ticks, edits and nights keep the book typed and enter nothing.
LEMMA BookIsEdited ==
  ASSUME DeskInv, NEW i \in DOMAIN book,
         \/ Reduce(i)
         \/ \E n \in FoundLots : Adjust(i, n)
  PROVE  DeskInv' /\ ~Opens
<1>1. book \in Seq(Tracked) /\ i \in 1..Len(book) /\ book[i] \in Tracked /\ Len(book) \in Nat
  BY DEF DeskInv
<1>2. ASSUME NEW n \in Nat
      PROVE  /\ [book EXCEPT ![i].qty = n] \in Seq(Tracked)
             /\ Len([book EXCEPT ![i].qty = n]) = Len(book)
  <2>1. [book[i] EXCEPT !.qty = n] \in Tracked
    BY <1>1 DEF Tracked
  <2>2. [book EXCEPT ![i].qty = n] = [book EXCEPT ![i] = [book[i] EXCEPT !.qty = n]]
    BY <1>1
  <2> QED BY <1>1, <2>1, <2>2, ExceptSeq
<1>3. RemoveAt(book, i) \in Seq(Tracked) /\ Len(RemoveAt(book, i)) = Len(book) - 1
  <2>1. /\ SubSeq(book, 1, i - 1) \in Seq(Tracked) /\ Len(SubSeq(book, 1, i - 1)) = i - 1
        /\ SubSeq(book, i + 1, Len(book)) \in Seq(Tracked) /\ Len(SubSeq(book, i + 1, Len(book))) = Len(book) - i
    BY <1>1, SubSeqProperties
  <2>2. PICK s \in Seq(Tracked), u \in Seq(Tracked) :
          s = SubSeq(book, 1, i - 1) /\ u = SubSeq(book, i + 1, Len(book))
    BY <2>1
  <2>3. s \o u \in Seq(Tracked) /\ Len(s \o u) = Len(s) + Len(u)
    BY ConcatProperties
  <2>4. RemoveAt(book, i) = s \o u
    BY <2>2 DEF RemoveAt
  <2>5. Len(s) = i - 1 /\ Len(u) = Len(book) - i
    BY <2>1, <2>2
  <2>6. i \in Int /\ Len(book) \in Int
    BY <1>1
  <2> QED BY <2>3, <2>4, <2>5, <2>6, SMTT(30)
<1>4. CASE Reduce(i)
  <2>1. PICK n \in 0..(book[i].qty - 1) :
          book' = IF n = 0 THEN RemoveAt(book, i) ELSE [book EXCEPT ![i].qty = n]
    BY <1>4 DEF Reduce
  <2>2. n \in Nat
    OBVIOUS
  <2>3. book' \in Seq(Tracked) /\ Len(book') <= Len(book)
    BY <1>1, <1>2, <1>3, <2>1, <2>2
  <2>4. ~Opens
    BY <1>1, <2>3 DEF Opens
  <2> QED BY <1>4, <2>3, <2>4 DEF Reduce, DeskInv
<1>5. CASE \E n \in FoundLots : Adjust(i, n)
  <2>1. PICK n \in FoundLots : Adjust(i, n)
    BY <1>5
  <2>2. n \in Nat /\ Lot \in Nat
    BY RiskDeskAssumption
  <2>3. n * Lot \in Nat
    BY <2>2, SMT
  <2>4. book' \in Seq(Tracked) /\ Len(book') = Len(book)
    BY <1>2, <2>1, <2>3 DEF Adjust
  <2>5. ~Opens
    BY <1>1, <2>4 DEF Opens
  <2> QED BY <2>1, <2>4, <2>5 DEF Adjust, DeskInv
<1> QED BY <1>4, <1>5

\* A holding found at start-up joins the book and opens nothing.
LEMMA AdoptionJoins ==
  ASSUME DeskInv, NEW name \in Names, NEW right \in {"CE", "FUT"}, NEW long \in BOOLEAN, NEW px \in Prices,
         NEW sl \in Stops, NEW n \in FoundLots, Adopt(name, right, long, px, sl, n)
  PROVE  DeskInv' /\ ~Opens
<1>1. px \in Nat /\ sl \in Nat /\ n \in Nat /\ Lot \in Nat /\ MinRisk \in Nat /\ PremiumLossPct \in 0..100
  <2>1. Prices \subseteq Nat \ {0} /\ Stops \subseteq Nat \ {0} /\ FoundLots \subseteq Nat \ {0}
        /\ Lot \in Nat /\ MinRisk \in Nat /\ PremiumLossPct \in 0..100
    BY RiskDeskAssumption
  <2> QED BY <2>1
<1> DEFINE share == (px * PremiumLossPct) \div 100
           rps == IF right = "FUT" THEN sl ELSE Most({share, MinRisk})
           new == [under |-> name, right |-> right, long |-> long, qty |-> n * Lot, rps |-> rps,
                   px |-> px, quoted |-> px, adopted |-> TRUE]
<1>2. share \in Int
  <2>1. px * PremiumLossPct \in Int
    BY <1>1, SMT
  <2> QED BY <2>1, Quotient
<1>3. rps \in Nat
  <2> HIDE DEF share
  <2>1. IsFiniteSet({share, MinRisk})
    BY PairIsFinite
  <2>2. \A x \in {share, MinRisk} : x \in Int
    BY <1>1, <1>2
  <2>3. Most({share, MinRisk}) \in Nat
    BY <2>1, <2>2, MostOf
  <2> QED BY <1>1, <2>3
<1>4. book' = Append(book, new) /\ UNCHANGED <<budget, equity, curve, halted>> /\ surprises' = surprises + 1
  BY DEF Adopt
<1>5. new \in Tracked /\ new.adopted
  <2>1. n * Lot \in Nat
    BY <1>1, SMT
  <2> HIDE DEF rps
  <2> QED BY <1>1, <1>3, <2>1 DEF Tracked
<1> HIDE DEF new
<1>6. book' \in Seq(Tracked) /\ Last(book') = new
  BY <1>4, <1>5, BookGrows DEF DeskInv
<1>7. ~Opens
  BY <1>5, <1>6 DEF Opens
<1>8. DeskInv'
  BY <1>4, <1>6 DEF DeskInv
<1> QED BY <1>7, <1>8

\* The sweep between entries keeps the curve below its peak and opens nothing.
LEMMA StepEnds ==
  ASSUME DeskInv, NEW pnl \in Results, Tick(pnl)
  PROVE  DeskInv' /\ ~Opens
<1>1. book \in Seq(Tracked) /\ Len(book) \in Nat /\ equity \in Nat /\ budget \in Nat /\ pnl \in Int
      /\ curve \in [points : 0..2, peak : Int, last : Int]
  BY RiskDeskAssumption DEF DeskInv
<1> DEFINE point == equity + pnl
           points == Min({curve.points + 1, 2})
           peak == IF curve.points = 0 THEN point ELSE Max({curve.peak, point})
<1>2. points \in 0..2
  <2>1. IsFiniteSet({curve.points + 1, 2})
    BY PairIsFinite
  <2>2. \A x \in {curve.points + 1, 2} : x \in Int
    BY <1>1
  <2>3. points \in {curve.points + 1, 2} /\ points <= 2
    BY <2>1, <2>2, LeastOf
  <2> QED BY <1>1, <2>3
<1>3. peak \in Int /\ point <= peak /\ point \in Int
  <2>1. \E x \in {curve.peak, point} : \A y \in {curve.peak, point} : x >= y
    BY <1>1
  <2>2. Max({curve.peak, point}) \in {curve.peak, point} /\ Max({curve.peak, point}) >= point
    BY <2>1 DEF Max
  <2> QED BY <1>1, <2>2
<1>4. curve' = [points |-> points, last |-> point, peak |-> peak]
  BY DEF Tick
<1>5. book' \in {<<>>, book} /\ equity' = budget /\ halted' \in {TRUE, halted} /\ UNCHANGED <<budget, surprises>>
  BY DEF Tick
<1> HIDE DEF points, point, peak
<1>6. curve' \in [points : 0..2, peak : Int, last : Int] /\ curve'.last <= curve'.peak
  BY <1>2, <1>3, <1>4
<1>7. book' \in Seq(Tracked) /\ Len(book') <= Len(book)
  <2>1. <<>> \in Seq(Tracked) /\ Len(<<>>) = 0
    BY EmptySeq
  <2>2. CASE book' = <<>>
    BY <1>1, <2>1, <2>2
  <2>3. CASE book' = book
    BY <1>1, <2>3
  <2> QED BY <1>5, <2>2, <2>3
<1>8. ~Opens
  BY <1>1, <1>7 DEF Opens
<1> QED BY <1>5, <1>6, <1>7, <1>8 DEF DeskInv

\* Every step of the desk keeps the book typed, and what opens is covered.
LEMMA DeskStep ==
  DeskInv /\ [DeskNext]_deskVars => DeskInv' /\ (Opens => Covered)
<1> SUFFICES ASSUME DeskInv, [DeskNext]_deskVars PROVE DeskInv' /\ (Opens => Covered)
  OBVIOUS
<1>1. ASSUME NEW name \in Names, NEW call \in BOOLEAN, NEW future \in BOOLEAN,
             NEW leg \in {NoLeg} \cup [ask : Prices], NEW sl \in Stops, NEW worth \in Reprices,
             NEW gate \in Gates, NEW regime \in {2, 4},
             Enter(name, call, leg, sl, worth, gate, future, regime)
      PROVE  DeskInv' /\ Covered
  BY <1>1, EntryJoins
<1>2. ASSUME NEW i \in DOMAIN book, Reduce(i) \/ \E n \in FoundLots : Adjust(i, n)
      PROVE  DeskInv' /\ ~Opens
  BY <1>2, BookIsEdited
<1>3. ASSUME NEW name \in Names, NEW right \in {"CE", "FUT"}, NEW long \in BOOLEAN, NEW px \in Prices,
             NEW sl \in Stops, NEW n \in FoundLots, Adopt(name, right, long, px, sl, n)
      PROVE  DeskInv' /\ ~Opens
  BY <1>3, AdoptionJoins
<1>4. ASSUME NEW pnl \in Results, Tick(pnl) PROVE DeskInv' /\ ~Opens
  BY <1>4, StepEnds
<1>5. ASSUME NEW b \in Budgets, EditBudget(b) PROVE DeskInv' /\ ~Opens
  <2>1. b \in Nat
    BY RiskDeskAssumption
  <2>2. Len(book) \in Nat
    BY DEF DeskInv
  <2> QED BY <1>5, <2>1, <2>2 DEF EditBudget, DeskInv, Opens
<1>6. ASSUME NewDay PROVE DeskInv' /\ ~Opens
  <2>1. Len(book) \in Nat
    BY DEF DeskInv
  <2>2. NoCurve \in [points : 0..2, peak : Int, last : Int] /\ NoCurve.last <= NoCurve.peak
    BY DEF NoCurve
  <2>3. curve' = NoCurve /\ UNCHANGED <<book, budget, equity, surprises>> /\ halted' = FALSE
    BY <1>6 DEF NewDay
  <2>4. ~Opens
    BY <2>1, <2>3 DEF Opens
  <2> QED BY <2>2, <2>3, <2>4 DEF DeskInv
<1>7. ASSUME UNCHANGED deskVars PROVE DeskInv' /\ ~Opens
  <2>1. Len(book) \in Nat
    BY DEF DeskInv
  <2> QED BY <1>7, <2>1 DEF deskVars, DeskInv, Opens
<1> QED BY <1>1, <1>2, <1>3, <1>4, <1>5, <1>6, <1>7 DEF DeskNext

\* Every entry is paid for by the whole book it joins: heat, hard cap, the lots
\* of its underlying, no doubled bet, and half the risk after a drawdown of a
\* tenth (Governor.size, can_open_new, RuleEngine, _enter), for any caps, prices,
\* budgets and results.
THEOREM EntriesStayCovered == DeskSpec => EntryIsCovered
<1>1. DeskInit => DeskInv
  <2>1. Budgets \subseteq Nat
    BY RiskDeskAssumption
  <2>2. NoCurve \in [points : 0..2, peak : Int, last : Int] /\ NoCurve.last <= NoCurve.peak
    BY DEF NoCurve
  <2>3. <<>> \in Seq(Tracked)
    BY EmptySeq
  <2>4. ASSUME DeskInit PROVE DeskInv
    <3>1. curve = NoCurve /\ book = <<>> /\ budget \in Nat /\ equity = budget /\ halted = FALSE /\ surprises = 0
      BY <2>1, <2>4 DEF DeskInit
    <3> QED BY <2>2, <2>3, <3>1 DEF DeskInv
  <2> QED BY <2>4
<1>2. DeskInv /\ [DeskNext]_deskVars => DeskInv'
  BY DeskStep
<1>3. DeskInv /\ [DeskNext]_deskVars => [Opens => Covered]_deskVars
  BY DeskStep
<1> QED BY <1>1, <1>2, <1>3, PTL DEF DeskSpec, EntryIsCovered

-----------------------------------------------------------------------------
(***************************************************************************)
(* The walk over two frames.  The invariant says what the short frame has  *)
(* drawn level with: the bar before from its first bar on, the regime from *)
(* the first extreme it sees, a band of the supertrend from the first turn *)
(* the two trends make together through it, and the leg from such a turn   *)
(* once both bands have met.  From then on the two walk alike.             *)
(***************************************************************************)

Memory ==
  [bars : Nat, bull : BOOLEAN, upper : Int, lower : Int, close : Int, rsi : Int, wr : Int, last : {"neutral", "Oversold", "Overbought"}, up : BOOLEAN, down : BOOLEAN,
   leg : Int, pull : Int, retracing : BOOLEAN, touched : Int, count : Int, rearmed : BOOLEAN,
   sinceSignal : Int, sinceFlip : Int, age : Int, bias : {"none", "BUY", "SELL"}]

\* The truth values by name, so that fields holding them compare as values.
Yes == TRUE
No == FALSE

\* What the two walks can have in common: the bar before, the regime, the leg.
SameBar(v, w) == v.close = w.close /\ v.rsi = w.rsi /\ v.wr = w.wr
SameTrend(v, w) == v.bull = w.bull /\ v.upper = w.upper /\ v.lower = w.lower
SameRegime(v, w) == v.last = w.last /\ v.up = w.up /\ v.down = w.down
SameLeg(v, w) ==
  /\ v.leg = w.leg /\ v.pull = w.pull /\ v.retracing = w.retracing /\ v.touched = w.touched
  /\ v.count = w.count /\ v.rearmed = w.rearmed
  /\ v.sinceSignal = w.sinceSignal /\ v.sinceFlip = w.sinceFlip
SameRest(v, w) ==
  /\ SameBar(v, w) /\ SameTrend(v, w) /\ SameRegime(v, w)
  /\ v.bars = w.bars /\ v.age = w.age /\ v.bias = w.bias

\* A bar as a frame reads it.
Reading ==
  [upper : Int, lower : Int, bull : BOOLEAN, touch : BOOLEAN, confirms : BOOLEAN,
   high : Int, low : Int, close : Int, atr : Int, rsi : Int, wr : Int]
\* The bands of the two walks have met, or their next bar begins them anew.
UppersMeet(v, w) == v.upper = w.upper \/ (2 * v.close > v.upper /\ 2 * w.close > w.upper)
LowersMeet(v, w) == v.lower = w.lower \/ (2 * v.close < v.lower /\ 2 * w.close < w.lower)

\* What the short frame holds of the long one.
Drawn(s, l) ==
  /\ s.bars <= l.bars
  /\ s.bars > 0 => SameBar(s, l)
  /\ s.last # "neutral" => s.last = l.last
  /\ s.bias = l.bias
  /\ ~opened => s.bars = 0 /\ s.last = "neutral" /\ ~kept.regime /\ ~kept.leg /\ kept.turned = {}
  /\ today => s.bars > 0
  /\ ~today => s.bias = "none"
  /\ kept.regime => s.bars > 0 /\ SameRegime(s, l)
  /\ kept.turned # {} => s.bars > 0
  /\ TRUE \in kept.turned => UppersMeet(s, l)
  /\ FALSE \in kept.turned => LowersMeet(s, l)
  /\ kept.turned = BOOLEAN => s.bull = l.bull
  /\ kept.leg => kept.turned = BOOLEAN /\ SameLeg(s, l) /\ s.age = l.age
WalkInv ==
  /\ walk \in [Frames -> Memory]
  /\ opened \in BOOLEAN /\ today \in BOOLEAN /\ kept \in [regime : BOOLEAN, turned : SUBSET BOOLEAN, leg : BOOLEAN]
  /\ Drawn(walk["short"], walk["long"])
  /\ FramesAgree

\* The least of two numbers.
LEMMA LeastOfTwo == ASSUME NEW m \in Int, NEW n \in Int
                    PROVE  /\ Min({m, n}) \in Int /\ Min({m, n}) <= n /\ Min({m, n}) = IF m <= n THEN m ELSE n
<1>1. \E x \in {m, n} : \A y \in {m, n} : x <= y
  OBVIOUS
<1>2. Min({m, n}) \in {m, n} /\ \A y \in {m, n} : Min({m, n}) <= y
  BY <1>1 DEF Min
<1> QED BY <1>2

\* The most of two numbers is a number.
LEMMA MostOfTwo == ASSUME NEW m \in Int, NEW n \in Int
                   PROVE  Max({m, n}) \in Int
<1>1. \E x \in {m, n} : \A y \in {m, n} : x >= y
  OBVIOUS
<1>2. Max({m, n}) \in {m, n}
  BY <1>1 DEF Max
<1> QED BY <1>2

\* A capped count is the lesser of the two.
LEMMA CappedIs == ASSUME NEW m \in Int, NEW n \in Int
                  PROVE  Capped(m, n) \in Int /\ Capped(m, n) = IF m <= n THEN m ELSE n
  BY LeastOfTwo DEF Capped

\* The limits of the walk are whole numbers.
LEMMA LimitsAre == Untouched \in Int /\ MinFlipBars \in Int /\ Cooldown \in Int /\ MinFlipAge \in Int /\ Warm \in Nat /\ MinFlipBars > 0 /\ Cooldown > 0
  BY SignalWalkAssumption DEF Untouched

\* What a frame reads in a bar is typed.
LEMMA ReadIs == ASSUME NEW w \in Memory, NEW b \in Bars
                PROVE  /\ Read(w, b) \in Reading
                       /\ Read(w, b).rsi = b.rsi /\ Read(w, b).wr = b.wr /\ Read(w, b).close = b.close
                       /\ Read(w, b).upper = Upper(w, b) /\ Read(w, b).lower = Lower(w, b)
                       /\ Read(w, b).bull = Bull(w, b)
<1>1. /\ b.high \in Int /\ b.low \in Int /\ b.close \in Int /\ b.atr \in Int /\ b.rsi \in Int /\ b.wr \in Int
      /\ Band \in Int
  BY SignalWalkAssumption
<1>2. w.upper \in Int /\ w.lower \in Int /\ w.bull \in BOOLEAN
  BY DEF Memory
<1> DEFINE u == Upper(w, b)
           d == Lower(w, b)
           g == Bull(w, b)
           t == Touches(w, b)
           c == Confirms(w, b)
<1>3. u \in Int /\ d \in Int
  BY <1>1, <1>2 DEF Upper, Lower
<1>4. g \in BOOLEAN /\ t \in BOOLEAN /\ c \in BOOLEAN
  <2>1. g \in BOOLEAN
    BY DEF Bull
  <2>2. t \in BOOLEAN
    BY DEF Touches
  <2>3. c \in BOOLEAN
    BY DEF Confirms
  <2> QED BY <2>1, <2>2, <2>3
<1>5. Read(w, b) = [upper |-> u, lower |-> d, bull |-> g, touch |-> t, confirms |-> c, high |-> b.high, low |-> b.low,
                    close |-> b.close, atr |-> b.atr, rsi |-> b.rsi, wr |-> b.wr]
  BY DEF Read
<1> HIDE DEF u, d, g, t, c
<1>6. Read(w, b) \in Reading
  BY <1>1, <1>3, <1>4, <1>5 DEF Reading
<1>7. /\ Read(w, b).rsi = b.rsi /\ Read(w, b).wr = b.wr /\ Read(w, b).close = b.close
      /\ Read(w, b).upper = u /\ Read(w, b).lower = d /\ Read(w, b).bull = g
  BY <1>5
<1> QED BY <1>6, <1>7 DEF u, d, g

\* The deepest point of a pullback is a price.
LEMMA DeepestIs == ASSUME NEW w \in Memory, NEW b \in Reading
                   PROVE  Deepest(w, b) \in Int
<1>1. w.pull \in Int /\ b.low \in Int /\ b.high \in Int
  BY DEF Reading, Memory
<1> QED BY <1>1, LeastOfTwo, MostOfTwo DEF Deepest

\* What a new extreme leaves in the memory of the leg.
LEMMA StartsLeg == ASSUME NEW w \in Memory, NEW b \in Reading
                   PROVE  /\ Started(w, b) \in Memory /\ SameRest(Started(w, b), w)
                          /\ Started(w, b).leg = (IF b.bull THEN b.high ELSE b.low) /\ Started(w, b).pull = Unset
                          /\ Started(w, b).retracing = No /\ Started(w, b).touched = Untouched /\ Started(w, b).rearmed = Yes
                          /\ Started(w, b).count = w.count
                          /\ Started(w, b).sinceSignal = w.sinceSignal /\ Started(w, b).sinceFlip = w.sinceFlip
<1>1. b.low \in Int /\ b.high \in Int /\ b.bull \in BOOLEAN
  BY DEF Reading
<1>2. Untouched \in Int /\ Unset \in Int
  BY LimitsAre DEF Unset
<1>3. Started(w, b) \in Memory
  BY <1>1, <1>2 DEF Started, Memory
<1>4. SameRest(Started(w, b), w)
  BY DEF Started, Memory, SameRest, SameBar, SameTrend, SameRegime
<1>5. Started(w, b).retracing = No /\ Started(w, b).rearmed = Yes
  BY DEF Started, Memory, No, Yes
<1> QED BY <1>3, <1>4, <1>5 DEF Started, Memory

\* What a flip leaves: the same, and no entries counted.
LEMMA BeginsLeg == ASSUME NEW w \in Memory, NEW b \in Reading
                   PROVE  /\ StartLeg(w, b) \in Memory /\ SameRest(StartLeg(w, b), w) /\ StartLeg(w, b).count = 0
                          /\ StartLeg(w, b).leg = Started(w, b).leg /\ StartLeg(w, b).pull = Started(w, b).pull
                          /\ StartLeg(w, b).retracing = Started(w, b).retracing
                          /\ StartLeg(w, b).touched = Started(w, b).touched
                          /\ StartLeg(w, b).rearmed = Started(w, b).rearmed
<1> DEFINE m == Started(w, b)
<1>1. m \in Memory /\ SameRest(m, w)
  BY StartsLeg
<1>2. StartLeg(w, b) = [m EXCEPT !.count = 0]
  BY DEF StartLeg
<1> HIDE DEF m
<1>3. [m EXCEPT !.count = 0] \in Memory
  BY <1>1 DEF Memory
<1>4. /\ StartLeg(w, b).count = 0 /\ StartLeg(w, b).leg = m.leg /\ StartLeg(w, b).pull = m.pull
      /\ StartLeg(w, b).retracing = m.retracing /\ StartLeg(w, b).touched = m.touched /\ StartLeg(w, b).rearmed = m.rearmed
  BY <1>1, <1>2 DEF Memory
<1>5. SameRest(StartLeg(w, b), m)
  BY <1>1, <1>2 DEF Memory, SameRest, SameBar, SameTrend, SameRegime
<1>6. SameRest(StartLeg(w, b), w)
  BY <1>1, <1>5, ZenonT(20) DEF SameRest, SameBar, SameTrend, SameRegime
<1> QED BY <1>2, <1>3, <1>4, <1>6 DEF m

\* What a bar inside the leg leaves.
LEMMA Retraces == ASSUME NEW w \in Memory, NEW b \in Reading
                  PROVE  /\ Retraced(w, b) \in Memory /\ SameRest(Retraced(w, b), w)
                         /\ Retraced(w, b).leg = w.leg /\ Retraced(w, b).pull = Deepest(w, b)
                         /\ Retraced(w, b).retracing = Yes
                         /\ Retraced(w, b).touched = (IF b.touch THEN 0 ELSE Capped(w.touched + 1, Untouched))
                         /\ Retraced(w, b).rearmed = w.rearmed /\ Retraced(w, b).count = w.count
                         /\ Retraced(w, b).sinceSignal = w.sinceSignal /\ Retraced(w, b).sinceFlip = w.sinceFlip
<1> DEFINE t == w.touched + 1
<1>1. t \in Int /\ Untouched \in Int
  BY LimitsAre DEF Memory
<1> HIDE DEF t
<1>2. (IF b.touch THEN 0 ELSE Capped(t, Untouched)) \in Int
  BY <1>1, CappedIs
<1> USE DEF t
<1>3. Deepest(w, b) \in Int
  BY DeepestIs
<1>4. Retraced(w, b) \in Memory
  BY <1>2, <1>3 DEF Retraced, Memory
<1>5. SameRest(Retraced(w, b), w)
  BY DEF Retraced, Memory, SameRest, SameBar, SameTrend, SameRegime
<1>6. Retraced(w, b).retracing = Yes
  BY DEF Retraced, Memory, Yes
<1> QED BY <1>4, <1>5, <1>6 DEF Retraced, Memory

\* The leg the bar moves to, before it is counted.
Moved(w, b) == IF Flips(w, b) THEN StartLeg(w, b) ELSE IF NewExtreme(w, b) THEN Started(w, b) ELSE Retraced(w, b)

\* However the leg moves, the regime and the bar before stay.
LEMMA MovesLeg == ASSUME NEW w \in Memory, NEW b \in Reading
                  PROVE  Moved(w, b) \in Memory /\ SameRest(Moved(w, b), w)
<1> QED BY BeginsLeg, StartsLeg, Retraces DEF Moved

\* The leg after the bar is the moved one with its clocks a bar older.
LEMMA LegIs == ASSUME NEW w \in Memory, NEW b \in Reading
               PROVE  /\ Leg(w, b) \in Memory /\ SameRest(Leg(w, b), w)
                      /\ Leg(w, b).leg = Moved(w, b).leg /\ Leg(w, b).pull = Moved(w, b).pull
                      /\ Leg(w, b).retracing = Moved(w, b).retracing /\ Leg(w, b).touched = Moved(w, b).touched
                      /\ Leg(w, b).count = Moved(w, b).count /\ Leg(w, b).rearmed = Moved(w, b).rearmed
                      /\ Leg(w, b).sinceFlip = (IF Flips(w, b) THEN 0 ELSE Capped(w.sinceFlip + 1, MinFlipBars))
                      /\ Leg(w, b).sinceSignal = Capped(w.sinceSignal + 1, Cooldown)
<1> DEFINE f == w.sinceFlip + 1
           t == w.sinceSignal + 1
           flips == IF Flips(w, b) THEN 0 ELSE Capped(f, MinFlipBars)
           waits == Capped(t, Cooldown)
<1>1. f \in Int /\ t \in Int /\ MinFlipBars \in Int /\ Cooldown \in Int
  BY LimitsAre DEF Memory
<1> HIDE DEF f, t
<1>2. flips \in Int /\ waits \in Int
  BY <1>1, CappedIs
<1>3. Moved(w, b) \in Memory /\ SameRest(Moved(w, b), w)
  BY MovesLeg
<1>4. Leg(w, b) = [Moved(w, b) EXCEPT !.sinceFlip = flips, !.sinceSignal = waits]
  BY DEF Leg, Moved, f, t
<1> HIDE DEF flips, waits
<1>5. \A m \in Memory : [m EXCEPT !.sinceFlip = flips, !.sinceSignal = waits] \in Memory
  BY <1>2, ZenonT(20) DEF Memory
<1>6. \A m \in Memory : \A e : e = [m EXCEPT !.sinceFlip = flips, !.sinceSignal = waits]
                        => /\ e.leg = m.leg /\ e.pull = m.pull /\ e.retracing = m.retracing
                           /\ e.touched = m.touched /\ e.count = m.count /\ e.rearmed = m.rearmed
                           /\ e.sinceFlip = flips /\ e.sinceSignal = waits
  BY <1>2 DEF Memory
<1>7. \A m \in Memory : \A e : e = [m EXCEPT !.sinceFlip = flips, !.sinceSignal = waits] => SameRest(e, m)
  BY <1>2 DEF Memory, SameRest, SameBar, SameTrend, SameRegime
<1>8. SameRest(Leg(w, b), Moved(w, b))
  BY <1>3, <1>4, <1>7
<1>9. SameRest(Leg(w, b), w)
  BY <1>3, <1>8, ZenonT(20) DEF SameRest, SameBar, SameTrend, SameRegime
<1> QED BY <1>3, <1>4, <1>5, <1>6, <1>9, ZenonT(40) DEF flips, waits, f, t

\* Two walks that begin a leg on one bar begin it alike, whatever they remember.
LEMMA BegunAlike == ASSUME NEW s \in Memory, NEW l \in Memory, NEW b \in Reading, NEW c \in Reading,
                           b.bull = c.bull, b.high = c.high, b.low = c.low
                    PROVE  /\ StartLeg(s, b).leg = StartLeg(l, c).leg /\ StartLeg(s, b).pull = StartLeg(l, c).pull
                           /\ StartLeg(s, b).retracing = StartLeg(l, c).retracing /\ StartLeg(s, b).retracing = No
                           /\ StartLeg(s, b).touched = StartLeg(l, c).touched
                           /\ StartLeg(s, b).rearmed = StartLeg(l, c).rearmed /\ StartLeg(s, b).count = StartLeg(l, c).count
<1>1. /\ Started(s, b).leg = Started(l, c).leg /\ Started(s, b).pull = Started(l, c).pull
      /\ Started(s, b).retracing = Started(l, c).retracing /\ Started(s, b).touched = Started(l, c).touched
      /\ Started(s, b).rearmed = Started(l, c).rearmed /\ Started(s, b).retracing = No
  BY StartsLeg
<1>2. /\ StartLeg(s, b).leg = Started(s, b).leg /\ StartLeg(s, b).pull = Started(s, b).pull /\ StartLeg(s, b).count = 0
      /\ StartLeg(s, b).retracing = Started(s, b).retracing /\ StartLeg(s, b).touched = Started(s, b).touched
      /\ StartLeg(s, b).rearmed = Started(s, b).rearmed
  BY BeginsLeg
<1>3. /\ StartLeg(l, c).leg = Started(l, c).leg /\ StartLeg(l, c).pull = Started(l, c).pull /\ StartLeg(l, c).count = 0
      /\ StartLeg(l, c).retracing = Started(l, c).retracing /\ StartLeg(l, c).touched = Started(l, c).touched
      /\ StartLeg(l, c).rearmed = Started(l, c).rearmed
  BY BeginsLeg
<1> QED BY <1>1, <1>2, <1>3, Zenon

\* Frames that agree on the leg move it alike.
LEMMA LegsMoveAlike == ASSUME NEW s \in Memory, NEW l \in Memory, NEW b \in Reading, SameLeg(s, l), s.bull = l.bull
                       PROVE  SameLeg(Leg(s, b), Leg(l, b))
<1>1. Flips(s, b) = Flips(l, b) /\ NewExtreme(s, b) = NewExtreme(l, b) /\ Deepest(s, b) = Deepest(l, b)
  BY DEF Flips, NewExtreme, Deepest, SameLeg
<1>2. CASE Flips(s, b)
  <2>1. Moved(s, b) = StartLeg(s, b) /\ Moved(l, b) = StartLeg(l, b)
    BY <1>1, <1>2 DEF Moved
  <2>2. s.count = l.count /\ s.sinceSignal = l.sinceSignal /\ s.sinceFlip = l.sinceFlip
    BY DEF SameLeg
  <2>3. /\ Moved(s, b).leg = Moved(l, b).leg /\ Moved(s, b).pull = Moved(l, b).pull
        /\ Moved(s, b).retracing = Moved(l, b).retracing /\ Moved(s, b).touched = Moved(l, b).touched
        /\ Moved(s, b).count = Moved(l, b).count /\ Moved(s, b).rearmed = Moved(l, b).rearmed
    BY <2>1, BegunAlike
  <2>4. Leg(s, b).sinceFlip = Leg(l, b).sinceFlip
    BY <1>1, <1>2, LegIs, ZenonT(40)
  <2>5. Leg(s, b).sinceSignal = Leg(l, b).sinceSignal
    BY <2>2, LegIs
  <2> QED BY <2>3, <2>4, <2>5, LegIs DEF SameLeg
<1>3. CASE ~Flips(s, b) /\ NewExtreme(s, b)
  <2>1. Moved(s, b) = Started(s, b) /\ Moved(l, b) = Started(l, b)
    BY <1>1, <1>3 DEF Moved
  <2>2. SameLeg(Moved(s, b), Moved(l, b))
    BY <2>1, StartsLeg DEF SameLeg
  <2> QED BY <1>1, <1>3, <2>2, LegIs DEF SameLeg
<1>4. CASE ~Flips(s, b) /\ ~NewExtreme(s, b)
  <2>1. Moved(s, b) = Retraced(s, b) /\ Moved(l, b) = Retraced(l, b)
    BY <1>1, <1>4 DEF Moved
  <2>2. SameLeg(Moved(s, b), Moved(l, b))
    BY <1>1, <2>1, Retraces DEF SameLeg
  <2> QED BY <1>1, <1>4, <2>2, LegIs DEF SameLeg
<1> QED BY <1>2, <1>3, <1>4

\* A flip that no earlier signal holds back begins the same leg in both.
LEMMA LegsBeginAlike == ASSUME NEW s \in Memory, NEW l \in Memory, NEW b \in Reading, NEW c \in Reading,
                               b.bull = c.bull, b.high = c.high, b.low = c.low, Flips(s, b), Flips(l, c),
                               Leg(s, b).sinceSignal >= Cooldown, Leg(l, c).sinceSignal >= Cooldown
                        PROVE  /\ SameLeg(Leg(s, b), Leg(l, c))
                               /\ Leg(s, b).retracing = No /\ Leg(l, c).retracing = No
<1>1. Moved(s, b) = StartLeg(s, b) /\ Moved(l, c) = StartLeg(l, c)
  BY DEF Moved
<1>2. \A w \in Memory, r \in Reading : Leg(w, r).sinceSignal >= Cooldown => Leg(w, r).sinceSignal = Cooldown
  <2> SUFFICES ASSUME NEW w \in Memory, NEW r \in Reading, Leg(w, r).sinceSignal >= Cooldown
               PROVE  Leg(w, r).sinceSignal = Cooldown
    OBVIOUS
  <2> DEFINE t == w.sinceSignal + 1
  <2>1. t \in Int /\ Cooldown \in Int
    BY LimitsAre DEF Memory
  <2>2. Leg(w, r).sinceSignal = Capped(t, Cooldown)
    BY LegIs
  <2> HIDE DEF t
  <2> QED BY <2>1, <2>2, CappedIs
<1>3. Leg(s, b).sinceSignal = Leg(l, c).sinceSignal /\ Leg(s, b).sinceFlip = 0 /\ Leg(l, c).sinceFlip = 0
  BY <1>2, LegIs
<1>4. /\ Moved(s, b).leg = Moved(l, c).leg /\ Moved(s, b).pull = Moved(l, c).pull
      /\ Moved(s, b).retracing = Moved(l, c).retracing /\ Moved(s, b).retracing = No
      /\ Moved(s, b).touched = Moved(l, c).touched
      /\ Moved(s, b).rearmed = Moved(l, c).rearmed /\ Moved(s, b).count = Moved(l, c).count
  BY <1>1, BegunAlike
<1> QED BY <1>3, <1>4, LegIs DEF SameLeg

\* The walk after the bar, apart from its frame count and the bar itself.
Done(w, b) == IF Enters(Leg(w, b), b) THEN Signalled(Leg(w, b)) ELSE Leg(w, b)

\* What a signal leaves in the memory of the leg.
LEMMA SignalIs == ASSUME NEW w \in Memory
                  PROVE  /\ Signalled(w) \in Memory /\ SameRest(Signalled(w), w)
                         /\ Signalled(w).leg = w.leg /\ Signalled(w).pull = w.pull /\ Signalled(w).retracing = w.retracing
                         /\ Signalled(w).count = w.count + 1 /\ Signalled(w).sinceSignal = 0
                         /\ Signalled(w).touched = Untouched /\ Signalled(w).rearmed = No /\ Signalled(w).sinceFlip = w.sinceFlip
<1> DEFINE c == w.count + 1
<1>1. Untouched \in Int /\ c \in Int /\ 0 \in Int
  BY LimitsAre DEF Memory
<1> HIDE DEF c
<1>2. \A m \in Memory : [m EXCEPT !.count = c, !.sinceSignal = 0, !.touched = Untouched, !.rearmed = FALSE] \in Memory
  BY <1>1, ZenonT(30) DEF Memory
<1>5. Signalled(w) \in Memory
  BY <1>2 DEF Signalled, c
<1>3. SameRest(Signalled(w), w)
  BY DEF Signalled, Memory, SameRest, SameBar, SameTrend, SameRegime
<1>4. Signalled(w).rearmed = No
  BY DEF Signalled, Memory, No
<1> QED BY <1>3, <1>4, <1>5 DEF Signalled, Memory

\* The leg after the bar, signal or not, leaves the regime alone.
LEMMA DoneIs == ASSUME NEW w \in Memory, NEW b \in Reading
                PROVE  Done(w, b) \in Memory /\ SameRest(Done(w, b), w)
<1>1. Leg(w, b) \in Memory /\ SameRest(Leg(w, b), w)
  BY LegIs
<1>2. Signalled(Leg(w, b)) \in Memory /\ SameRest(Signalled(Leg(w, b)), Leg(w, b))
  BY <1>1, SignalIs
<1> QED BY <1>1, <1>2 DEF Done, SameRest, SameBar, SameTrend, SameRegime

\* Two walks with one leg see the same entry.
LEMMA EntersAlike == ASSUME NEW v, NEW w, NEW b, SameLeg(v, w) PROVE Enters(v, b) = Enters(w, b)
  BY DEF SameLeg, Enters, Depth

\* Two walks with one leg after the bar signal alike and stay alike.
LEMMA DoneAlike == ASSUME NEW s \in Memory, NEW l \in Memory, NEW b \in Reading, NEW c \in Reading, b.bull = c.bull,
                          SameLeg(Leg(s, b), Leg(l, c)), Enters(Leg(s, b), b) = Enters(Leg(l, c), c)
                   PROVE  SameLeg(Done(s, b), Done(l, c)) /\ EntryOf(s, b) = EntryOf(l, c)
<1>1. Leg(s, b) \in Memory /\ Leg(l, c) \in Memory
  BY LegIs
<1>2. SameLeg(Signalled(Leg(s, b)), Signalled(Leg(l, c)))
  BY <1>1, SignalIs DEF SameLeg
<1> QED BY <1>2 DEF Done, EntryOf

\* What a bar leaves in the memory of the regime.
LEMMA RegimeIs == ASSUME NEW w \in Memory, NEW b \in Reading
                  PROVE  /\ Regime(w, b) \in Memory /\ SameLeg(Regime(w, b), w)
                         /\ Regime(w, b).last = Extreme(w, b) /\ Regime(w, b).rsi = b.rsi /\ Regime(w, b).wr = b.wr
                         /\ Regime(w, b).up = (UpTrend(w, b) /\ b.rsi > OS)
                         /\ Regime(w, b).down = (DownTrend(w, b) /\ b.rsi < OB)
<1>1. b.rsi \in Int /\ b.wr \in Int
  BY DEF Reading
<1>2. Extreme(w, b) \in {"neutral", "Oversold", "Overbought"}
  BY DEF Extreme, Memory
<1> DEFINE up == UpTrend(w, b) /\ b.rsi > OS
           down == DownTrend(w, b) /\ b.rsi < OB
<1>3. up \in BOOLEAN /\ down \in BOOLEAN
  OBVIOUS
<1>4. Regime(w, b) = [w EXCEPT !.last = Extreme(w, b), !.rsi = b.rsi, !.wr = b.wr, !.up = up, !.down = down]
  BY DEF Regime
<1> HIDE DEF up, down
<1>5. /\ Regime(w, b) \in Memory /\ SameLeg(Regime(w, b), w)
      /\ Regime(w, b).last = Extreme(w, b) /\ Regime(w, b).rsi = b.rsi /\ Regime(w, b).wr = b.wr
      /\ Regime(w, b).up = up /\ Regime(w, b).down = down
  BY <1>1, <1>2, <1>3, <1>4, ZenonT(40) DEF Memory, SameLeg
<1> QED BY <1>5 DEF up, down

\* What a bar leaves in the memory of a walk: the leg, the regime, its age.
LEMMA WalkedIs == ASSUME NEW w \in Memory, NEW b \in Reading
                  PROVE  /\ Walked(w, b) \in Memory /\ SameLeg(Walked(w, b), Done(w, b))
                         /\ Walked(w, b).last = Extreme(w, b) /\ Walked(w, b).rsi = b.rsi /\ Walked(w, b).wr = b.wr
                         /\ Walked(w, b).up = (UpTrend(w, b) /\ b.rsi > OS)
                         /\ Walked(w, b).down = (DownTrend(w, b) /\ b.rsi < OB)
                         /\ Walked(w, b).bars = Capped(w.bars + 1, Warm + 1) /\ Walked(w, b).bull = b.bull
                         /\ Walked(w, b).upper = b.upper /\ Walked(w, b).lower = b.lower /\ Walked(w, b).close = b.close
                         /\ Walked(w, b).age = Age(w, b) /\ Walked(w, b).bias = Bias(w, b)
<1> DEFINE d == Done(w, b)
           n == Capped(w.bars + 1, Warm + 1)
<1>1. d \in Memory /\ SameRest(d, w)
  BY DoneIs
<1>2. Walked(w, b) = [Regime(d, b) EXCEPT !.bars = n, !.bull = b.bull, !.upper = b.upper, !.lower = b.lower, !.close = b.close, !.age = Age(w, b), !.bias = Bias(w, b)]
  BY DEF Walked, Done
<1>3. n \in Nat
  <2> DEFINE m == w.bars + 1
             k == Warm + 1
  <2>1. m \in Nat /\ k \in Nat
    BY LimitsAre DEF Memory
  <2> HIDE DEF m, k
  <2>2. Capped(m, k) \in Nat
    BY <2>1, CappedIs, k \in Int, m \in Int
  <2> QED BY <2>2 DEF m, k
<1>4. Age(w, b) \in Int
  <2> DEFINE m == w.age + 1
  <2>1. m \in Int /\ MinFlipAge \in Int
    BY LimitsAre DEF Memory
  <2> HIDE DEF m
  <2>2. Capped(m, MinFlipAge) \in Int
    BY <2>1, CappedIs
  <2> QED BY <2>2 DEF m, Age
<1>5. Bias(w, b) \in {"none", "BUY", "SELL"} /\ b.bull \in BOOLEAN /\ b.upper \in Int /\ b.lower \in Int /\ b.close \in Int
  BY DEF Bias, Memory, Reading
<1>6. Extreme(d, b) = Extreme(w, b) /\ UpTrend(d, b) = UpTrend(w, b) /\ DownTrend(d, b) = DownTrend(w, b)
  BY <1>1 DEF SameRest, SameRegime, Extreme, UpTrend, DownTrend, Dips, Tops
<1> HIDE DEF n, d
<1>7. Regime(d, b) \in Memory
  BY <1>1, RegimeIs
<1>8. \A r \in Memory : [r EXCEPT !.bars = n, !.bull = b.bull, !.upper = b.upper, !.lower = b.lower, !.close = b.close, !.age = Age(w, b), !.bias = Bias(w, b)] \in Memory
  BY <1>3, <1>4, <1>5, ZenonT(20) DEF Memory
<1>11. \A r \in Memory : \A e : e = [r EXCEPT !.bars = n, !.bull = b.bull, !.upper = b.upper, !.lower = b.lower, !.close = b.close, !.age = Age(w, b), !.bias = Bias(w, b)] => SameLeg(e, r)
  BY <1>3, <1>4, <1>5 DEF Memory, SameLeg
<1>12. \A r \in Memory : \A e : e = [r EXCEPT !.bars = n, !.bull = b.bull, !.upper = b.upper, !.lower = b.lower, !.close = b.close, !.age = Age(w, b), !.bias = Bias(w, b)]
                        => /\ e.last = r.last /\ e.rsi = r.rsi /\ e.wr = r.wr /\ e.up = r.up
                           /\ e.down = r.down /\ e.bars = n /\ e.bull = b.bull
                           /\ e.upper = b.upper /\ e.lower = b.lower /\ e.close = b.close /\ e.age = Age(w, b) /\ e.bias = Bias(w, b)
  BY <1>3, <1>4, <1>5 DEF Memory
<1>9. /\ SameLeg(Regime(d, b), d) /\ Regime(d, b).last = Extreme(w, b) /\ Regime(d, b).rsi = b.rsi /\ Regime(d, b).wr = b.wr
      /\ Regime(d, b).up = (UpTrend(w, b) /\ b.rsi > OS) /\ Regime(d, b).down = (DownTrend(w, b) /\ b.rsi < OB)
  BY <1>1, <1>6, RegimeIs
<1>10. SameLeg(Walked(w, b), Regime(d, b))
  BY <1>2, <1>7, <1>11
<1>13. SameLeg(Walked(w, b), d)
  BY <1>9, <1>10, ZenonT(20) DEF SameLeg
<1> QED BY <1>2, <1>7, <1>8, <1>9, <1>12, <1>13, ZenonT(40) DEF n, d

-----------------------------------------------------------------------------
\* A walk begins with a memory.
LEMMA FreshIs == Fresh \in Memory
<1>1. Cooldown \in Int /\ MinFlipBars \in Int /\ Untouched \in Int /\ Unset \in Int /\ 0 \in Int
  BY LimitsAre DEF Unset
<1> QED BY <1>1 DEF Fresh, Memory

\* Two walks that read one trend in a bar remember one trend.
LEMMA TrendsMeet ==
  ASSUME NEW s \in Memory, NEW l \in Memory, NEW b \in Reading, NEW c \in Reading, b.rsi = c.rsi, b.wr = c.wr,
         UpTrend(s, b) = UpTrend(l, c), DownTrend(s, b) = DownTrend(l, c)
  PROVE  Walked(s, b).up = Walked(l, c).up /\ Walked(s, b).down = Walked(l, c).down
<1>1. \A w \in Memory, r \in Reading : Walked(w, r).up = (UpTrend(w, r) /\ r.rsi > OS)
  BY WalkedIs
<1>2. \A w \in Memory, r \in Reading : Walked(w, r).down = (DownTrend(w, r) /\ r.rsi < OB)
  BY WalkedIs
<1>3. Walked(s, b).up = (UpTrend(l, c) /\ c.rsi > OS) /\ Walked(s, b).down = (DownTrend(l, c) /\ c.rsi < OB)
  BY <1>1, <1>2
<1>4. Walked(l, c).up = (UpTrend(l, c) /\ c.rsi > OS) /\ Walked(l, c).down = (DownTrend(l, c) /\ c.rsi < OB)
  BY <1>1, <1>2, Zenon
<1> QED BY <1>3, <1>4, Zenon

\* Both frames walk one bar: what the short one has of the long one it keeps.
LEMMA RegimesAgree ==
  ASSUME NEW s \in Memory, NEW l \in Memory, NEW b \in Reading, NEW c \in Reading, b.rsi = c.rsi, b.wr = c.wr,
         s.last # "neutral" => s.last = l.last,
         SameRegime(s, l) \/ Dips(s, b) \/ Tops(s, b)
  PROVE  /\ Extreme(s, b) = Extreme(l, c) /\ UpTrend(s, b) = UpTrend(l, c) /\ DownTrend(s, b) = DownTrend(l, c)
         /\ Walked(s, b).last = Walked(l, c).last
         /\ Walked(s, b).up = Walked(l, c).up /\ Walked(s, b).down = Walked(l, c).down
<1>1. CASE SameRegime(s, l)
  <2>1. Extreme(s, b) = Extreme(l, c)
    BY <1>1 DEF SameRegime, Extreme
  <2>2. Dips(s, b) = Dips(l, c) /\ Tops(s, b) = Tops(l, c)
    BY <2>1 DEF Dips, Tops
  <2>3. UpTrend(s, b) = UpTrend(l, c) /\ DownTrend(s, b) = DownTrend(l, c)
    BY <2>2, <1>1, Zenon DEF UpTrend, DownTrend, SameRegime
  <2>4. Walked(s, b).last = Walked(l, c).last
    BY <2>1, WalkedIs
  <2>5. Walked(s, b).up = Walked(l, c).up /\ Walked(s, b).down = Walked(l, c).down
    BY <2>3, TrendsMeet
  <2> QED BY <2>1, <2>3, <2>4, <2>5
<1>2. CASE Dips(s, b)
  <2>1. Extreme(s, b) = "Overbought" /\ Extreme(l, c) = "Overbought"
    BY <1>2 DEF Dips, Extreme
  <2>2. /\ UpTrend(s, b) = TRUE /\ UpTrend(l, c) = TRUE
        /\ DownTrend(s, b) = FALSE /\ DownTrend(l, c) = FALSE
    BY <1>2, <2>1 DEF UpTrend, DownTrend, Dips
  <2>3. UpTrend(s, b) = UpTrend(l, c) /\ DownTrend(s, b) = DownTrend(l, c)
    BY <2>2, Zenon
  <2>4. Walked(s, b).last = Walked(l, c).last
    BY <2>1, WalkedIs
  <2>5. Walked(s, b).up = Walked(l, c).up /\ Walked(s, b).down = Walked(l, c).down
    BY <2>3, TrendsMeet
  <2> QED BY <2>1, <2>3, <2>4, <2>5
<1>3. CASE Tops(s, b)
  <2>1. Extreme(s, b) = "Oversold" /\ Extreme(l, c) = "Oversold"
    BY <1>3 DEF Tops, Extreme
  <2>2. /\ UpTrend(s, b) = FALSE /\ UpTrend(l, c) = FALSE
        /\ DownTrend(s, b) = TRUE /\ DownTrend(l, c) = TRUE
    BY <1>3, <2>1 DEF UpTrend, DownTrend, Dips, Tops
  <2>3. UpTrend(s, b) = UpTrend(l, c) /\ DownTrend(s, b) = DownTrend(l, c)
    BY <2>2, Zenon
  <2>4. Walked(s, b).last = Walked(l, c).last
    BY <2>1, WalkedIs
  <2>5. Walked(s, b).up = Walked(l, c).up /\ Walked(s, b).down = Walked(l, c).down
    BY <2>3, TrendsMeet
  <2> QED BY <2>1, <2>3, <2>4, <2>5
<1> QED BY <1>1, <1>2, <1>3

\* Two walks whose trend is as old, or turns on this bar, agree on its age.
LEMMA AgesAgree ==
  ASSUME NEW s \in Memory, NEW l \in Memory, NEW b \in Reading, s.bars > 0, s.bars <= l.bars, s.bull = l.bull,
         s.age = l.age \/ Flips(s, b)
  PROVE  Age(s, b) = Age(l, b)
<1>1. l.bars > 0
  BY DEF Memory
<1> QED BY <1>1 DEF Age, Flips

\* A band that has met stays one band,
LEMMA BandsMeet ==
  ASSUME NEW s \in Memory, NEW l \in Memory, NEW b \in Bars, s.bars > 0, l.bars > 0, s.close = l.close
  PROVE  /\ UppersMeet(s, l) => Upper(s, b) = Upper(l, b)
         /\ LowersMeet(s, l) => Lower(s, b) = Lower(l, b)
<1>1. s.bars # 0 /\ l.bars # 0
  BY DEF Memory
<1>2. ASSUME UppersMeet(s, l) PROVE Upper(s, b) = Upper(l, b)
  BY <1>1, <1>2 DEF UppersMeet, Upper
<1>3. ASSUME LowersMeet(s, l) PROVE Lower(s, b) = Lower(l, b)
  BY <1>1, <1>3 DEF LowersMeet, Lower
<1> QED BY <1>2, <1>3

\* and two walks with both bands and one trend read one bar.
LEMMA ReadAlike ==
  ASSUME NEW s \in Memory, NEW l \in Memory, NEW b \in Bars, s.bars > 0, l.bars > 0, s.close = l.close,
         UppersMeet(s, l), LowersMeet(s, l), s.bull = l.bull
  PROVE  Read(s, b) = Read(l, b)
<1>1. Upper(s, b) = Upper(l, b) /\ Lower(s, b) = Lower(l, b)
  BY BandsMeet
<1>2. s.bars # 0 /\ l.bars # 0
  BY DEF Memory
<1>3. Bull(s, b) = Bull(l, b)
  BY <1>1, <1>2 DEF Bull
<1>4. Touches(s, b) = Touches(l, b) /\ Confirms(s, b) = Confirms(l, b)
  BY <1>1, <1>3 DEF Touches, Confirms
<1> QED BY <1>1, <1>3, <1>4, Zenon DEF Read

\* Where a trend turns the bar closes beyond its band.
LEMMA TurnsBeyond ==
  ASSUME NEW w \in Memory, NEW b \in Bars, w.bars > 0, Bull(w, b) # w.bull
  PROVE  IF Bull(w, b) THEN 2 * b.close > Upper(w, b) ELSE 2 * b.close < Lower(w, b)
<1>1. w.bars # 0 /\ w.bull \in BOOLEAN
  BY DEF Memory
<1>2. Lower(w, b) \in Int /\ b.close \in Int
  <2>1. Read(w, b) \in Reading /\ Read(w, b).lower = Lower(w, b) /\ Read(w, b).close = b.close
    BY ReadIs
  <2> QED BY <2>1 DEF Reading
<1> QED BY <1>1, <1>2 DEF Bull

\* A turn both trends make through a band lets the next bar begin it anew.
LEMMA TurnsMeet ==
  ASSUME NEW s \in Memory, NEW l \in Memory, NEW b \in Bars, s.bars > 0, l.bars > 0, NEW g \in BOOLEAN,
         Bull(s, b) = g, Bull(l, b) = g, s.bull # g, l.bull # g
  PROVE  /\ g => 2 * b.close > Upper(s, b) /\ 2 * b.close > Upper(l, b)
         /\ ~g => 2 * b.close < Lower(s, b) /\ 2 * b.close < Lower(l, b)
<1>1. Bull(s, b) # s.bull /\ Bull(l, b) # l.bull
  OBVIOUS
<1> QED BY <1>1, TurnsBeyond

\* The short frame after the bar, if it is open.
LEMMA BarDraws ==
  ASSUME WalkInv, NEW b \in Bars, CloseBar(b), opened
  PROVE  Drawn(walk["short"], walk["long"])' /\ FramesAgree'
<1>s. PICK s : s = walk["short"]
  OBVIOUS
<1>l. PICK l : l = walk["long"]
  OBVIOUS
<1>q. PICK q : q = Read(s, b)
  OBVIOUS
<1>r. PICK r : r = Read(l, b)
  OBVIOUS
<1> DEFINE s2 == Walked(s, q)
           l2 == Walked(l, r)
<1>1. s \in Memory /\ l \in Memory
  BY <1>s, <1>l DEF WalkInv, Frames
<1>2. /\ walk' = [f \in Frames |-> Walked(walk[f], Read(walk[f], b))]
      /\ says' = [f \in Frames |-> DaySignal(walk[f], Read(walk[f], b))]
  BY DEF CloseBar, Holds
<1>3. walk'["short"] = s2 /\ walk'["long"] = l2 /\ says'["short"] = DaySignal(s, q) /\ says'["long"] = DaySignal(l, r)
  BY <1>s, <1>l, <1>q, <1>r, <1>2 DEF Frames
<1>4. opened' = opened /\ today' = today /\ kept' = Sees(b)
  BY DEF CloseBar
<1>5. Drawn(s, l)
  BY <1>s, <1>l DEF WalkInv
<1>a. /\ q \in Reading /\ q.rsi = b.rsi /\ q.wr = b.wr /\ q.close = b.close
      /\ q.upper = Upper(s, b) /\ q.lower = Lower(s, b) /\ q.bull = Bull(s, b)
  BY <1>1, <1>q, ReadIs
<1>b. /\ r \in Reading /\ r.rsi = b.rsi /\ r.wr = b.wr /\ r.close = b.close
      /\ r.upper = Upper(l, b) /\ r.lower = Lower(l, b) /\ r.bull = Bull(l, b)
  BY <1>1, <1>r, ReadIs
<1> DEFINE turn == IF s.bars > 0 THEN {g \in BOOLEAN : s.bull # g /\ q.bull = g /\ l.bull # g /\ r.bull = g} ELSE {}
<1>6. /\ kept'.regime = (kept.regime \/ Dips(s, b) \/ Tops(s, b))
      /\ kept'.turned = kept.turned \cup turn
      /\ kept'.leg = (kept.leg \/ (turn # {} /\ kept'.turned = BOOLEAN /\ Calm(b)))
  <2>1. Turn(b) = {g \in BOOLEAN : s.bull # g /\ q.bull = g /\ l.bull # g /\ r.bull = g}
    BY <1>s, <1>l, <1>a, <1>b DEF Turn, Frames
  <2>2. (IF opened /\ walk["short"].bars > 0 THEN Turn(b) ELSE {}) = turn
    BY <1>s, <2>1
  <2> HIDE DEF turn
  <2> QED BY <1>s, <1>4, <2>2 DEF Sees
<1>7. Calm(b) => Leg(s, q).sinceSignal >= Cooldown /\ Leg(l, r).sinceSignal >= Cooldown
  BY <1>s, <1>l, <1>q, <1>r DEF Calm, Frames
<1>8. s2.bars > 0 /\ s2.bars <= l2.bars /\ (s2.bars > Warm => s.bars >= Warm)
  <2>1. s.bars \in Nat /\ l.bars \in Nat /\ s.bars <= l.bars /\ Warm \in Nat
    BY <1>1, <1>5, LimitsAre DEF Memory, Drawn
  <2> DEFINE m == s.bars + 1
             n == l.bars + 1
             k == Warm + 1
  <2>2. m \in Int /\ n \in Int /\ k \in Int /\ m <= n /\ m > 0 /\ k > 0 /\ (m > Warm => s.bars >= Warm)
    BY <2>1
  <2>3. s2.bars = Capped(m, k) /\ l2.bars = Capped(n, k)
    BY <1>1, <1>a, <1>b, WalkedIs
  <2> HIDE DEF m, n, s2, l2
  <2>4. k > Warm
    BY <2>1
  <2> HIDE DEF k
  <2>5. Capped(m, k) = IF m <= k THEN m ELSE k
    BY <2>2, CappedIs
  <2>6. Capped(n, k) = IF n <= k THEN n ELSE k
    BY <2>2, CappedIs
  <2>7. s2.bars > 0 /\ (s2.bars > Warm => s.bars >= Warm)
    BY <2>1, <2>2, <2>3, <2>4, <2>5
  <2>8. s2.bars <= l2.bars
    BY <2>2, <2>3, <2>5, <2>6
  <2> QED BY <2>7, <2>8
<1>9. /\ SameBar(s2, l2) /\ s2.close = b.close /\ l2.close = b.close
      /\ s2.bull = q.bull /\ s2.upper = q.upper /\ s2.lower = q.lower
      /\ l2.bull = r.bull /\ l2.upper = r.upper /\ l2.lower = r.lower
  BY <1>1, <1>a, <1>b, WalkedIs DEF SameBar
<1>10. s2.last # "neutral" => s2.last = l2.last
  <2>1. s2.last = Extreme(s, q) /\ l2.last = Extreme(l, r)
    BY <1>1, <1>a, <1>b, WalkedIs
  <2>2. q.rsi = r.rsi
    BY <1>a, <1>b
  <2>3. s.last # "neutral" => s.last = l.last
    BY <1>5 DEF Drawn
  <2> QED BY <2>1, <2>2, <2>3 DEF Extreme
<1>11. s2.bias = l2.bias /\ Bias(s, q) = Bias(l, r) /\ (~today => s2.bias = "none")
  <2>1. s2.bias = Bias(s, q) /\ l2.bias = Bias(l, r)
    BY <1>1, <1>a, <1>b, WalkedIs
  <2>2. CASE ~today
    BY <2>1, <2>2 DEF Bias
  <2>3. CASE today
    <3>1. SameBar(s, l) /\ s.bias = l.bias
      BY <1>5, <2>3 DEF Drawn
    <3>2. Bias(s, q) = Bias(l, r)
      BY <1>a, <1>b, <3>1 DEF Bias, SameBar, LabelSell, LabelBuy
    <3> QED BY <2>1, <2>3, <3>2
  <2> QED BY <2>2, <2>3
<1>12. ASSUME kept'.regime
       PROVE  SameRegime(s2, l2) /\ UpTrend(s, q) = UpTrend(l, r) /\ DownTrend(s, q) = DownTrend(l, r)
  <2>1. Dips(s, b) = Dips(s, q) /\ Tops(s, b) = Tops(s, q)
    BY <1>a DEF Dips, Tops, Extreme
  <2>2. SameRegime(s, l) \/ Dips(s, q) \/ Tops(s, q)
    BY <1>5, <1>6, <1>12, <2>1 DEF Drawn
  <2>3. (s.last # "neutral" => s.last = l.last) /\ q.rsi = r.rsi /\ q.wr = r.wr
    BY <1>5, <1>a, <1>b DEF Drawn
  <2> HIDE DEF s2, l2
  <2> QED BY <1>1, <1>a, <1>b, <2>2, <2>3, RegimesAgree DEF SameRegime, s2, l2
<1>18. s.bars > 0 => l.bars > 0 /\ s.close = l.close
  BY <1>1, <1>5 DEF Drawn, SameBar, Memory
<1>19. ASSUME NEW g \in turn
       PROVE  s.bars > 0 /\ g \in BOOLEAN /\ s.bull # g /\ l.bull # g /\ q.bull = g /\ r.bull = g
  BY <1>19
<1>20. kept'.turned # {} => s.bars > 0
  BY <1>5, <1>6, <1>19 DEF Drawn
<1>21. TRUE \in kept'.turned => UppersMeet(s2, l2)
  <2>1. CASE TRUE \in kept.turned
    <3>1. UppersMeet(s, l) /\ s.bars > 0
      BY <1>5, <2>1 DEF Drawn
    <3>2. Upper(s, b) = Upper(l, b)
      BY <1>1, <1>18, <3>1, BandsMeet
    <3> QED BY <1>9, <1>a, <1>b, <3>2 DEF UppersMeet
  <2>2. CASE TRUE \in turn
    <3>1. Bull(s, b) = TRUE /\ Bull(l, b) = TRUE /\ s.bull # TRUE /\ l.bull # TRUE /\ s.bars > 0
      BY <1>19, <1>a, <1>b, <2>2
    <3>2. 2 * b.close > Upper(s, b) /\ 2 * b.close > Upper(l, b)
      BY <1>1, <1>18, <3>1, TurnsMeet
    <3> HIDE DEF s2, l2
    <3> QED BY <1>9, <1>a, <1>b, <3>2 DEF UppersMeet
  <2> QED BY <1>6, <2>1, <2>2
<1>22. FALSE \in kept'.turned => LowersMeet(s2, l2)
  <2>1. CASE FALSE \in kept.turned
    <3>1. LowersMeet(s, l) /\ s.bars > 0
      BY <1>5, <2>1 DEF Drawn
    <3>2. Lower(s, b) = Lower(l, b)
      BY <1>1, <1>18, <3>1, BandsMeet
    <3> QED BY <1>9, <1>a, <1>b, <3>2 DEF LowersMeet
  <2>2. CASE FALSE \in turn
    <3>1. Bull(s, b) = FALSE /\ Bull(l, b) = FALSE /\ s.bull # FALSE /\ l.bull # FALSE /\ s.bars > 0
      BY <1>19, <1>a, <1>b, <2>2
    <3>2. 2 * b.close < Lower(s, b) /\ 2 * b.close < Lower(l, b)
      BY <1>1, <1>18, <3>1, TurnsMeet
    <3> HIDE DEF s2, l2
    <3> QED BY <1>9, <1>a, <1>b, <3>2 DEF LowersMeet
  <2> QED BY <1>6, <2>1, <2>2
<1>23. ASSUME kept.turned = BOOLEAN
       PROVE  q = r /\ s.bull = l.bull /\ s.bars > 0
  <2>1. /\ s.bars > 0 /\ s.bull = l.bull /\ UppersMeet(s, l) /\ LowersMeet(s, l)
    BY <1>5, <1>23 DEF Drawn
  <2> QED BY <1>1, <1>18, <1>q, <1>r, <2>1, ReadAlike
<1>24. kept'.turned = BOOLEAN => s2.bull = l2.bull
  <2>1. CASE kept.turned = BOOLEAN
    BY <1>9, <1>23, <2>1
  <2>2. CASE kept'.turned = BOOLEAN /\ kept.turned # BOOLEAN
    <3>1. PICK g \in turn : TRUE
      BY <1>6, <2>2
    <3> QED BY <1>9, <1>19, <3>1
  <2> QED BY <2>1, <2>2
<1>13. ASSUME kept'.leg
       PROVE  /\ s.bars > 0 /\ kept'.turned = BOOLEAN /\ q.bull = r.bull
              /\ SameLeg(Leg(s, q), Leg(l, r)) /\ Age(s, q) = Age(l, r)
              /\ Enters(Leg(s, q), q) = Enters(Leg(l, r), r)
  <2>0. s.bars <= l.bars
    BY <1>5 DEF Drawn
  <2>1. CASE kept.leg
    <3>1. kept.turned = BOOLEAN /\ SameLeg(s, l) /\ s.age = l.age
      BY <1>5, <2>1 DEF Drawn
    <3>2. q = r /\ s.bull = l.bull /\ s.bars > 0
      BY <1>23, <3>1
    <3>3. kept'.turned = BOOLEAN
      <4>1. kept'.turned = BOOLEAN \cup turn /\ turn \subseteq BOOLEAN
        BY <1>6, <1>19, <3>1
      <4> HIDE DEF turn
      <4> QED BY <4>1
    <3>4. SameLeg(Leg(s, q), Leg(l, q)) /\ Age(s, q) = Age(l, q)
      BY <1>1, <1>a, <2>0, <3>1, <3>2, LegsMoveAlike, AgesAgree
    <3> QED BY <3>2, <3>3, <3>4, EntersAlike
  <2>2. CASE turn # {} /\ kept'.turned = BOOLEAN /\ Calm(b)
    <3>1. PICK g \in turn : TRUE
      BY <2>2
    <3>2. s.bars > 0 /\ g \in BOOLEAN /\ s.bull # g /\ l.bull # g /\ q.bull = g /\ r.bull = g
      BY <1>19, <3>1
    <3> HIDE DEF turn
    <3>3. Flips(s, q) /\ Flips(l, r) /\ s.bull = l.bull
      BY <1>1, <3>2 DEF Flips, Memory
    <3>4. Leg(s, q).sinceSignal >= Cooldown /\ Leg(l, r).sinceSignal >= Cooldown
      BY <1>7, <2>2
    <3>5. q.high = r.high /\ q.low = r.low /\ q.bull = r.bull
      BY <1>q, <1>r, <3>2 DEF Read
    <3>6. SameLeg(Leg(s, q), Leg(l, r)) /\ ~Leg(s, q).retracing /\ ~Leg(l, r).retracing
      BY <1>1, <1>a, <1>b, <3>3, <3>4, <3>5, LegsBeginAlike DEF No
    <3>7. Age(s, q) = Age(l, r)
      BY <3>3, <3>5 DEF Age, Flips
    <3> QED BY <2>2, <3>2, <3>5, <3>6, <3>7 DEF Enters
  <2> QED BY <1>6, <1>13, <2>1, <2>2
<1>14. ASSUME kept'.leg
       PROVE  SameLeg(s2, l2) /\ s2.age = l2.age /\ EntryOf(s, q) = EntryOf(l, r)
  <2>1. SameLeg(Done(s, q), Done(l, r)) /\ EntryOf(s, q) = EntryOf(l, r)
    BY <1>1, <1>13, <1>14, <1>a, <1>b, DoneAlike
  <2>2. SameLeg(s2, Done(s, q)) /\ SameLeg(l2, Done(l, r)) /\ s2.age = Age(s, q) /\ l2.age = Age(l, r)
    BY <1>1, <1>a, <1>b, WalkedIs
  <2>3. s2.age = l2.age
    BY <1>13, <1>14, <2>2
  <2>4. SameLeg(s2, l2)
    BY <2>1, <2>2, ZenonT(20) DEF SameLeg
  <2> QED BY <2>1, <2>3, <2>4
<1>15. Drawn(walk["short"], walk["long"])'
  <2>1. walk'["short"] = s2 /\ walk'["long"] = l2
    BY <1>3
  <2>2. /\ ~opened' => /\ s2.bars = 0 /\ s2.last = "neutral" /\ ~kept'.regime /\ ~kept'.leg
                       /\ kept'.turned = {}
        /\ (today' => s2.bars > 0) /\ (~today' => s2.bias = "none")
    BY <1>4, <1>8, <1>11
  <2>3. kept'.leg => kept'.turned = BOOLEAN
    BY <1>13
  <2> HIDE DEF s2, l2, turn
  <2> QED BY <1>8, <1>9, <1>10, <1>11, <1>12, <1>14, <1>21, <1>22, <1>24, <2>1, <2>2, <2>3 DEF Drawn
<1>16. ASSUME kept'.regime, kept'.leg, s2.bars > Warm
       PROVE  DaySignal(s, q) = DaySignal(l, r)
  <2>1. EntryOf(s, q) = EntryOf(l, r) /\ q.bull = r.bull
    BY <1>13, <1>14, <1>16
  <2>2. CASE ~today
    BY <2>1, <2>2 DEF DaySignal
  <2>3. CASE today
    <3>1. SameBar(s, l) /\ s.bars <= l.bars /\ q.wr = r.wr
      BY <1>5, <1>a, <1>b, <2>3 DEF Drawn
    <3>2. ~(s.bars < Warm) /\ ~(l.bars < Warm)
      BY <1>1, <1>8, <1>16, <3>1, LimitsAre DEF Memory
    <3>3. Age(s, q) = Age(l, r) /\ Bias(s, q) = Bias(l, r)
      BY <1>11, <1>13, <1>16
    <3>4. UpTrend(s, q) = UpTrend(l, r) /\ DownTrend(s, q) = DownTrend(l, r)
      BY <1>12, <1>16
    <3>5. BuyTriangle(s, q) = BuyTriangle(l, r) /\ SellTriangle(s, q) = SellTriangle(l, r)
      BY <3>1, <3>4, Zenon DEF BuyTriangle, SellTriangle, SameBar
    <3>6. TriangleOf(s, q) = TriangleOf(l, r)
      BY <2>1, <3>3, <3>5 DEF TriangleOf
    <3> HIDE DEF s2, l2, turn
    <3> QED BY <2>1, <3>2, <3>3, <3>6 DEF DaySignal
  <2> QED BY <2>2, <2>3
<1>17. FramesAgree'
  BY <1>3, <1>16 DEF FramesAgree
<1> QED BY <1>15, <1>17

\* The long frame alone, while the history request still starts before the
\* short one.
LEMMA LongAlone ==
  ASSUME WalkInv, NEW b \in Bars, CloseBar(b), ~opened
  PROVE  Drawn(walk["short"], walk["long"])' /\ FramesAgree'
<1>s. PICK s : s = walk["short"]
  OBVIOUS
<1>l. PICK l : l = walk["long"]
  OBVIOUS
<1>1. s \in Memory /\ l \in Memory /\ Drawn(s, l)
  BY <1>s, <1>l DEF WalkInv, Frames
<1>r. PICK r \in Reading : r = Read(l, b)
  BY <1>1, ReadIs
<1>2. walk'["short"] = s /\ walk'["long"] = Walked(l, r)
  BY <1>s, <1>l, <1>r DEF CloseBar, Holds, Frames
<1>3. opened' = opened /\ today' = today /\ kept' = Sees(b)
  BY DEF CloseBar
<1>4. ~kept'.regime /\ ~kept'.leg /\ kept'.turned = {}
  BY <1>1, <1>3 DEF Sees, Drawn
<1>5. s.bars = 0 /\ s.last = "neutral" /\ ~today /\ s.bias = "none"
  BY <1>1 DEF Drawn, Memory
<1>6. Walked(l, r).bias = "none" /\ Walked(l, r).bars \in Nat
  <2>1. Walked(l, r).bars \in Nat
    BY <1>1, WalkedIs DEF Memory
  <2> QED BY <1>1, <1>5, <2>1, WalkedIs DEF Bias
<1>7. Drawn(walk["short"], walk["long"])'
  <2>1. TRUE \notin kept'.turned /\ FALSE \notin kept'.turned /\ kept'.turned # BOOLEAN
    BY <1>4
  <2>2. ~(s.bars > 0) /\ s.bars <= Walked(l, r).bars
    BY <1>5, <1>6
  <2> QED BY <1>2, <1>3, <1>4, <1>5, <1>6, <2>1, <2>2 DEF Drawn
<1> QED BY <1>4, <1>7 DEF FramesAgree

\* A closed bar keeps what the short frame holds of the long one.
LEMMA BarIsWalked == ASSUME WalkInv, NEW b \in Bars, CloseBar(b) PROVE WalkInv'
<1>1. walk' \in [Frames -> Memory]
  <2>1. \A f \in Frames : walk[f] \in Memory
    BY DEF WalkInv
  <2>2. \A f \in Frames : (IF Holds(f) THEN Walked(walk[f], Read(walk[f], b)) ELSE walk[f]) \in Memory
    BY <2>1, ReadIs, WalkedIs
  <2> QED BY <2>2, Zenon DEF CloseBar
<1>2. kept' \in [regime : BOOLEAN, turned : SUBSET BOOLEAN, leg : BOOLEAN]
  <2> DEFINE r == kept.regime \/ (opened /\ (Dips(walk["short"], b) \/ Tops(walk["short"], b)))
             n == IF opened /\ walk["short"].bars > 0 THEN Turn(b) ELSE {}
             t == kept.turned \cup n
             g == kept.leg \/ (n # {} /\ t = BOOLEAN /\ Calm(b))
  <2>0. Turn(b) \subseteq BOOLEAN /\ kept.turned \subseteq BOOLEAN
    BY DEF Turn, WalkInv
  <2>1. r \in BOOLEAN /\ g \in BOOLEAN /\ t \in SUBSET BOOLEAN
    BY <2>0 DEF WalkInv
  <2>2. kept' = [regime |-> r, turned |-> t, leg |-> g]
    BY DEF CloseBar, Sees
  <2> HIDE DEF r, g, t
  <2> QED BY <2>1, <2>2
<1>3. opened' \in BOOLEAN /\ today' \in BOOLEAN
  BY DEF CloseBar, WalkInv
<1>4. Drawn(walk["short"], walk["long"])' /\ FramesAgree'
  <2>1. CASE opened
    BY <2>1, BarDraws
  <2>2. CASE ~opened
    BY <2>2, LongAlone
  <2> QED BY <2>1, <2>2
<1> QED BY <1>1, <1>2, <1>3, <1>4 DEF WalkInv

\* Live sweeps and the replay of the day cannot drift apart, however long the
\* histories and whatever the market prints (src/signals/engine.py).
THEOREM SweepsAgree == SignalSpec => []FramesAgree
<1>1. SignalInit => WalkInv
  <2> SUFFICES ASSUME SignalInit PROVE WalkInv
    OBVIOUS
  <2>1. walk \in [Frames -> Memory] /\ walk["short"] = Fresh /\ walk["long"] = Fresh
    BY FreshIs DEF SignalInit, Frames
  <2>2. /\ kept \in [regime : BOOLEAN, turned : SUBSET BOOLEAN, leg : BOOLEAN]
        /\ ~kept.regime /\ ~kept.leg /\ kept.turned = {}
        /\ opened = FALSE /\ today = FALSE
    BY DEF SignalInit
  <2>3. Fresh.bars = 0 /\ Fresh.last = "neutral" /\ Fresh.bias = "none"
    BY DEF Fresh
  <2>4. Drawn(walk["short"], walk["long"]) /\ FramesAgree
    BY <2>1, <2>2, <2>3 DEF Drawn, FramesAgree
  <2> QED BY <2>1, <2>2, <2>4 DEF WalkInv
<1>2. WalkInv /\ [SignalNext]_signalVars => WalkInv'
  <2> SUFFICES ASSUME WalkInv, [SignalNext]_signalVars PROVE WalkInv'
    OBVIOUS
  <2>1. CASE FrameOpens
    <3>1. Drawn(walk["short"], walk["long"])'
      BY <2>1 DEF FrameOpens, WalkInv, Drawn
    <3> QED BY <2>1, <3>1 DEF FrameOpens, WalkInv, FramesAgree
  <2>2. CASE SessionOpens
    <3>1. Drawn(walk["short"], walk["long"])'
      BY <2>2 DEF SessionOpens, WalkInv, Drawn
    <3> QED BY <2>2, <3>1 DEF SessionOpens, WalkInv, FramesAgree
  <2>3. ASSUME NEW b \in Bars, CloseBar(b) PROVE WalkInv'
    BY <2>3, BarIsWalked
  <2>4. CASE UNCHANGED signalVars
    BY <2>4 DEF signalVars, WalkInv, Drawn, FramesAgree
  <2> QED BY <2>1, <2>2, <2>3, <2>4 DEF SignalNext
<1>3. WalkInv => FramesAgree
  BY DEF WalkInv
<1> QED BY <1>1, <1>2, <1>3, PTL DEF SignalSpec

-----------------------------------------------------------------------------
(* DayPnl: what a position and its lots have made                          *)

DayLot == [buy : BOOLEAN, open : Nat, entry : Int, realized : Int, fresh : BOOLEAN]
Side(buy) == IF buy THEN 1 ELSE -1

LEMMA FactorIsWhole == Factor \in Int /\ Factor > 0
  BY DayPnlAssumption

\* Three factors: what n units that leave at p make of a lot opened at e, at price q.
LEMMA MovedWorth ==
  ASSUME NEW r \in Int, NEW e \in Int, NEW s \in Int, NEW t \in Int, NEW f \in Int, NEW p \in Int, NEW q \in Int
  PROVE  /\ (q - e) * s * f \in Int /\ (p - e) * t * f \in Int /\ (q - p) * t * f \in Int
         /\ r + (p - e) * t * f + (q - e) * (s - t) * f = r + (q - e) * s * f - (q - p) * t * f
  BY SMT

LEMMA LotWorth ==
  ASSUME NEW lot \in DayLot, NEW q \in Int
  PROVE  /\ Signed(lot) \in Int /\ Signed(lot) = Side(lot.buy) * lot.open
         /\ LotPnl(lot, q) \in Int /\ LotPnl(lot, q) = lot.realized + (q - lot.entry) * Signed(lot) * Factor
<1>1. lot.buy \in BOOLEAN /\ lot.open \in Nat /\ lot.entry \in Int /\ lot.realized \in Int
  BY DEF DayLot
<1>2. Signed(lot) \in Int /\ Signed(lot) = Side(lot.buy) * lot.open /\ (lot.open = 0 => Signed(lot) = 0)
  BY <1>1 DEF Signed, Side
<1>3. (q - lot.entry) * Signed(lot) * Factor \in Int
  BY <1>1, <1>2, FactorIsWhole, SMT
<1>4. lot.open = 0 => (q - lot.entry) * Signed(lot) * Factor = 0
  <2>1. (q - lot.entry) * 0 * Factor = 0
    BY <1>1, FactorIsWhole
  <2> QED BY <1>2, <2>1
<1> QED BY <1>1, <1>2, <1>3, <1>4 DEF LotPnl

\* A lot of which n units leave at a price.
LEMMA LotShrinks ==
  ASSUME NEW lot \in DayLot, NEW n \in Nat, n <= lot.open, NEW price \in Int, NEW q \in Int,
         NEW rest, rest = LessOf(lot, n, price)
  PROVE  /\ rest \in DayLot /\ rest.buy = lot.buy /\ Side(lot.buy) * n \in Int
         /\ Signed(rest) = Signed(lot) - Side(lot.buy) * n
         /\ LotPnl(rest, q) = LotPnl(lot, q) - (q - price) * (Side(lot.buy) * n) * Factor
<1> DEFINE t == Side(lot.buy) * n
<1>1. /\ lot.buy \in BOOLEAN /\ lot.open \in Nat /\ lot.entry \in Int /\ lot.realized \in Int /\ lot.fresh \in BOOLEAN
      /\ lot = [buy |-> lot.buy, open |-> lot.open, entry |-> lot.entry, realized |-> lot.realized, fresh |-> lot.fresh]
  BY DEF DayLot
<1>2. t \in Int /\ t = IF lot.buy THEN n ELSE -n
  BY <1>1 DEF Side
<1>3. (price - lot.entry) * t * Factor \in Int
  BY <1>1, <1>2, FactorIsWhole, SMT
<1>4. rest = [lot EXCEPT !.open = @ - n, !.realized = @ + (price - lot.entry) * t * Factor]
  BY <1>2 DEF LessOf
<1> HIDE DEF t
<1>5. lot.open - n \in Nat /\ lot.realized + (price - lot.entry) * t * Factor \in Int
  BY <1>1, <1>3
<1>6. /\ rest \in DayLot /\ rest.buy = lot.buy /\ rest.open = lot.open - n /\ rest.entry = lot.entry
      /\ rest.realized = lot.realized + (price - lot.entry) * t * Factor
  BY <1>1, <1>4, <1>5 DEF DayLot
<1>7. Signed(rest) = Signed(lot) - t /\ Signed(lot) \in Int
  BY <1>1, <1>2, <1>6 DEF Signed
<1>8. LotPnl(rest, q) = rest.realized + (q - rest.entry) * Signed(rest) * Factor
  BY <1>6, LotWorth
<1>9. LotPnl(lot, q) = lot.realized + (q - lot.entry) * Signed(lot) * Factor
  BY LotWorth
<1>10. LotPnl(rest, q) = LotPnl(lot, q) - (q - price) * t * Factor
  <2>1. LotPnl(rest, q) = lot.realized + (price - lot.entry) * t * Factor + (q - lot.entry) * (Signed(lot) - t) * Factor
    BY <1>6, <1>7, <1>8
  <2>2. PICK r \in Int, e \in Int, s \in Int, f \in Int :
          r = lot.realized /\ e = lot.entry /\ s = Signed(lot) /\ f = Factor
    BY <1>1, <1>7, FactorIsWhole
  <2>3. LotPnl(rest, q) = r + (price - e) * t * f + (q - e) * (s - t) * f /\ LotPnl(lot, q) = r + (q - e) * s * f
    BY <1>9, <2>1, <2>2
  <2>4. LotPnl(rest, q) = LotPnl(lot, q) - (q - price) * t * f
    BY <1>2, <2>3, MovedWorth
  <2> QED BY <2>2, <2>4
<1> QED BY <1>2, <1>6, <1>7, <1>10 DEF t

LEMMA NewLotWorth ==
  ASSUME NEW buy \in BOOLEAN, NEW n \in Nat, NEW price \in Int, NEW q \in Int, NEW lot, lot = NewLotAt(buy, n, price)
  PROVE  /\ lot \in DayLot /\ Signed(lot) = Side(buy) * n
         /\ LotPnl(lot, q) = (q - price) * (Side(buy) * n) * Factor
<1>1. lot \in DayLot /\ lot.buy = buy /\ lot.open = n /\ lot.entry = price /\ lot.realized = 0
  BY DEF NewLotAt, DayLot
<1>2. Signed(lot) = Side(buy) * n /\ LotPnl(lot, q) \in Int /\ LotPnl(lot, q) = 0 + (q - price) * Signed(lot) * Factor
  BY <1>1, LotWorth
<1>3. Signed(lot) \in Int
  BY <1>1, LotWorth
<1>4. (q - price) * Signed(lot) * Factor \in Int
  BY <1>3, FactorIsWhole, SMT
<1> QED BY <1>1, <1>2, <1>4

-----------------------------------------------------------------------------
(* Sums over the lots                                                      *)

LEMMA BookSums ==
  ASSUME NEW ls \in Seq(DayLot), NEW q \in Int
  PROVE  /\ IsFiniteSet(DOMAIN ls) /\ NetOf(ls) \in Int /\ PnlOf(ls, q) \in Int
         /\ NetOf(ls) = SumFunctionOnSet([i \in DOMAIN ls |-> Signed(ls[i])], DOMAIN ls)
         /\ PnlOf(ls, q) = SumFunctionOnSet([i \in DOMAIN ls |-> LotPnl(ls[i], q)], DOMAIN ls)
<1>1. DOMAIN ls = 1..Len(ls) /\ Len(ls) \in Nat /\ \A i \in DOMAIN ls : ls[i] \in DayLot
  OBVIOUS
<1>2. IsFiniteSet(DOMAIN ls)
  BY <1>1, FS_Interval
<1>3. \A i \in DOMAIN ls : Signed(ls[i]) \in Int /\ LotPnl(ls[i], q) \in Int
  BY <1>1, LotWorth
<1>4. NetOf(ls) = SumFunctionOnSet([i \in DOMAIN ls |-> Signed(ls[i])], DOMAIN ls)
  BY DEF NetOf, SumFunction
<1>5. PnlOf(ls, q) = SumFunctionOnSet([i \in DOMAIN ls |-> LotPnl(ls[i], q)], DOMAIN ls)
  BY DEF PnlOf, SumFunction
<1>6. SumFunctionOnSet([i \in DOMAIN ls |-> Signed(ls[i])], DOMAIN ls) \in Int
  BY <1>2, <1>3, SumIsInt
<1>7. SumFunctionOnSet([i \in DOMAIN ls |-> LotPnl(ls[i], q)], DOMAIN ls) \in Int
  BY <1>2, <1>3, SumIsInt
<1> QED BY <1>2, <1>4, <1>5, <1>6, <1>7

\* No lots.
LEMMA EmptyBook ==
  ASSUME NEW q
  PROVE  NetOf(<<>>) = 0 /\ PnlOf(<<>>, q) = 0
<1>1. \A f : SumFunctionOnSet(f, {}) = 0
  BY SumEmpty
<1>2. NetOf(<<>>) = SumFunction([i \in DOMAIN <<>> |-> Signed(<<>>[i])])
  BY DEF NetOf
<1>3. PnlOf(<<>>, q) = SumFunction([i \in DOMAIN <<>> |-> LotPnl(<<>>[i], q)])
  BY DEF PnlOf
<1>4. DOMAIN <<>> = {}
  OBVIOUS
<1> QED BY <1>1, <1>2, <1>3, <1>4 DEF SumFunction

\* One more lot.
LEMMA BookAppends ==
  ASSUME NEW ls \in Seq(DayLot), NEW lot \in DayLot, NEW q \in Int
  PROVE  /\ Append(ls, lot) \in Seq(DayLot) /\ Append(ls, lot) # <<>>
         /\ NetOf(Append(ls, lot)) = NetOf(ls) + Signed(lot)
         /\ PnlOf(Append(ls, lot), q) = PnlOf(ls, q) + LotPnl(lot, q)
<1> DEFINE c == Append(ls, lot)
<1>1. DOMAIN ls = 1..Len(ls) /\ Len(ls) \in Nat /\ \A i \in DOMAIN ls : ls[i] \in DayLot
  OBVIOUS
<1>2. PICK x \in Nat : x = Len(ls) + 1
  BY <1>1
<1>3. c \in Seq(DayLot) /\ c # <<>> /\ DOMAIN c = DOMAIN ls \cup {x} /\ x \notin DOMAIN ls
  BY <1>1, <1>2
<1>4. c[x] = lot /\ \A i \in DOMAIN ls : c[i] = ls[i]
  BY <1>1, <1>2
<1> HIDE DEF c
<1>5. IsFiniteSet(DOMAIN ls) /\ \A i \in DOMAIN ls : Signed(ls[i]) \in Int /\ LotPnl(ls[i], q) \in Int
  BY <1>1, BookSums, LotWorth
<1>6. Signed(lot) \in Int /\ LotPnl(lot, q) \in Int
  BY LotWorth
<1>7. NetOf(c) = NetOf(ls) + Signed(lot)
  <2> DEFINE f == [i \in DOMAIN ls |-> Signed(ls[i])]
             g == [i \in DOMAIN c |-> Signed(c[i])]
  <2>1. DOMAIN f = DOMAIN ls /\ DOMAIN g = DOMAIN f \cup {x} /\ (\A i \in DOMAIN f : f[i] \in Int /\ g[i] = f[i]) /\ g[x] = Signed(lot)
    BY <1>3, <1>4, <1>5
  <2>2. NetOf(ls) = SumFunction(f) /\ NetOf(c) = SumFunction(g)
    BY DEF NetOf
  <2> HIDE DEF f, g
  <2> QED BY <1>3, <1>5, <1>6, <2>1, <2>2, SumGrows
<1>8. PnlOf(c, q) = PnlOf(ls, q) + LotPnl(lot, q)
  <2> DEFINE f == [i \in DOMAIN ls |-> LotPnl(ls[i], q)]
             g == [i \in DOMAIN c |-> LotPnl(c[i], q)]
  <2>1. DOMAIN f = DOMAIN ls /\ DOMAIN g = DOMAIN f \cup {x} /\ (\A i \in DOMAIN f : f[i] \in Int /\ g[i] = f[i]) /\ g[x] = LotPnl(lot, q)
    BY <1>3, <1>4, <1>5
  <2>2. PnlOf(ls, q) = SumFunction(f) /\ PnlOf(c, q) = SumFunction(g)
    BY DEF PnlOf
  <2> HIDE DEF f, g
  <2> QED BY <1>3, <1>5, <1>6, <2>1, <2>2, SumGrows
<1> QED BY <1>3, <1>7, <1>8 DEF c

\* One lot is another.
Amended(ls, ms, i) ==
  /\ ls \in Seq(DayLot) /\ ms \in Seq(DayLot) /\ DOMAIN ms = DOMAIN ls /\ i \in DOMAIN ls
  /\ \A k \in DOMAIN ls \ {i} : ms[k] = ls[k]
LEMMA BookChanges ==
  ASSUME NEW ls, NEW ms, NEW i, NEW q \in Int, Amended(ls, ms, i)
  PROVE  /\ NetOf(ms) = NetOf(ls) - Signed(ls[i]) + Signed(ms[i])
         /\ PnlOf(ms, q) = PnlOf(ls, q) - LotPnl(ls[i], q) + LotPnl(ms[i], q)
<1>0. /\ ls \in Seq(DayLot) /\ ms \in Seq(DayLot) /\ DOMAIN ms = DOMAIN ls /\ i \in DOMAIN ls
      /\ \A k \in DOMAIN ls \ {i} : ms[k] = ls[k]
  BY DEF Amended
<1>1. \A k \in DOMAIN ls : ls[k] \in DayLot /\ ms[k] \in DayLot
  BY <1>0
<1>2. /\ IsFiniteSet(DOMAIN ls)
      /\ \A k \in DOMAIN ls : /\ Signed(ls[k]) \in Int /\ Signed(ms[k]) \in Int
                              /\ LotPnl(ls[k], q) \in Int /\ LotPnl(ms[k], q) \in Int
  BY <1>0, <1>1, BookSums, LotWorth
<1> DEFINE f == [k \in DOMAIN ls |-> Signed(ls[k])]
           g == [k \in DOMAIN ls |-> Signed(ms[k])]
           u == [k \in DOMAIN ls |-> LotPnl(ls[k], q)]
           v == [k \in DOMAIN ls |-> LotPnl(ms[k], q)]
           D == DOMAIN ls
<1>3. /\ NetOf(ls) = SumFunctionOnSet(f, D) /\ NetOf(ms) = SumFunctionOnSet(g, D)
      /\ PnlOf(ls, q) = SumFunctionOnSet(u, D) /\ PnlOf(ms, q) = SumFunctionOnSet(v, D)
  BY <1>0, BookSums
<1>4. /\ f[i] = Signed(ls[i]) /\ g[i] = Signed(ms[i]) /\ u[i] = LotPnl(ls[i], q) /\ v[i] = LotPnl(ms[i], q)
      /\ \A k \in D : f[k] \in Int /\ g[k] \in Int /\ u[k] \in Int /\ v[k] \in Int
      /\ \A k \in D \ {i} : f[k] = g[k] /\ u[k] = v[k]
      /\ i \in D /\ IsFiniteSet(D)
  BY <1>0, <1>2
<1> HIDE DEF f, g, u, v, D
<1>5. SumFunctionOnSet(g, D) = SumFunctionOnSet(f, D) - f[i] + g[i]
  <2>1. \A k \in D : f[k] \in Int /\ g[k] \in Int
    BY <1>4
  <2>2. \A k \in D \ {i} : f[k] = g[k]
    BY <1>4
  <2>3. i \in D /\ IsFiniteSet(D)
    BY <1>4
  <2> QED BY <2>1, <2>2, <2>3, SumChange
<1>6. SumFunctionOnSet(v, D) = SumFunctionOnSet(u, D) - u[i] + v[i]
  <2>1. \A k \in D : u[k] \in Int /\ v[k] \in Int
    BY <1>4
  <2>2. \A k \in D \ {i} : u[k] = v[k]
    BY <1>4
  <2>3. i \in D /\ IsFiniteSet(D)
    BY <1>4
  <2> QED BY <2>1, <2>2, <2>3, SumChange
<1> QED BY <1>3, <1>4, <1>5, <1>6

\* Lots that count the same.
LEMMA BookSame ==
  ASSUME NEW ls \in Seq(DayLot), NEW ms \in Seq(DayLot), DOMAIN ms = DOMAIN ls, NEW q \in Int,
         \A k \in DOMAIN ls : Signed(ms[k]) = Signed(ls[k]) /\ LotPnl(ms[k], q) = LotPnl(ls[k], q)
  PROVE  NetOf(ms) = NetOf(ls) /\ PnlOf(ms, q) = PnlOf(ls, q)
<1> DEFINE f == [k \in DOMAIN ls |-> Signed(ls[k])]
           g == [k \in DOMAIN ls |-> Signed(ms[k])]
           u == [k \in DOMAIN ls |-> LotPnl(ls[k], q)]
           v == [k \in DOMAIN ls |-> LotPnl(ms[k], q)]
<1>1. f = g /\ u = v
  OBVIOUS
<1>2. /\ NetOf(ls) = SumFunctionOnSet(f, DOMAIN ls) /\ NetOf(ms) = SumFunctionOnSet(g, DOMAIN ls)
      /\ PnlOf(ls, q) = SumFunctionOnSet(u, DOMAIN ls) /\ PnlOf(ms, q) = SumFunctionOnSet(v, DOMAIN ls)
  BY BookSums
<1> QED BY <1>1, <1>2
-----------------------------------------------------------------------------
(* Two lots are netted                                                     *)

\* The books that count what ls counts, at every price.
Alike(ls) ==
  {b \in Seq(DayLot) : DOMAIN b = DOMAIN ls /\ NetOf(b) = NetOf(ls) /\ \A q \in Int : PnlOf(b, q) = PnlOf(ls, q)}

LEMMA LesserOf ==
  ASSUME NEW m \in Nat, NEW n \in Nat
  PROVE  Min({m, n}) \in Nat /\ Min({m, n}) <= m /\ Min({m, n}) <= n
<1>1. PICK S : S = {m, n}
  OBVIOUS
<1>2. IsFiniteSet(S)
  BY <1>1, PairIsFinite
<1>3. S # {} /\ \A x \in S : x \in Int
  BY <1>1
<1>4. Min(S) \in S /\ \A y \in S : Min(S) <= y
  BY <1>2, <1>3, LeastOf
<1>5. Min({m, n}) = Min(S)
  BY <1>1
<1>6. (Min(S) = m \/ Min(S) = n) /\ Min(S) <= m /\ Min(S) <= n
  BY <1>1, <1>4
<1> QED BY <1>5, <1>6

\* Both sides of a netting: what the older makes at the newer's price the newer gives up.
LEMMA NettedWorth ==
  ASSUME NEW a \in Int, NEW b \in Int, NEW t \in Int, NEW f \in Int, NEW x \in Int, NEW y \in Int,
         NEW u, u = x - a * t * f, NEW v, v = y - a * (-t) * f
  PROVE  u + v = x + y
  BY SMT

LEMMA PairOffsets ==
  ASSUME NEW ls \in Seq(DayLot), NEW i \in DOMAIN ls, NEW j \in DOMAIN ls
  PROVE  OffsetPair(ls, i, j) \in Alike(ls)
<1>1. CASE ~(i < j /\ ls[i].buy # ls[j].buy)
  <2>1. OffsetPair(ls, i, j) = ls
    BY <1>1 DEF OffsetPair
  <2> QED BY <2>1 DEF Alike
<1>2. CASE i < j /\ ls[i].buy # ls[j].buy
  <2>0. /\ ls[i] \in DayLot /\ ls[j] \in DayLot /\ i # j /\ DOMAIN ls \subseteq Nat
        /\ ls[i].open \in Nat /\ ls[j].open \in Nat /\ ls[j].entry \in Int /\ ls[i].buy \in BOOLEAN /\ ls[j].buy \in BOOLEAN
    <3>1. ls[i] \in DayLot /\ ls[j] \in DayLot
      OBVIOUS
    <3>2. DOMAIN ls = 1..Len(ls) /\ Len(ls) \in Nat
      OBVIOUS
    <3>3. i # j /\ DOMAIN ls \subseteq Nat
      BY <1>2, <3>2
    <3> QED BY <3>1, <3>3 DEF DayLot
  <2>1. PICK n \in Nat : n = Min({ls[i].open, ls[j].open}) /\ n <= ls[i].open /\ n <= ls[j].open
    BY <2>0, LesserOf
  <2>2. PICK p \in Int : p = ls[j].entry
    BY <2>0
  <2>3. PICK older : older = LessOf(ls[i], n, p)
    OBVIOUS
  <2>4. PICK newer : newer = [ls[j] EXCEPT !.open = @ - n]
    OBVIOUS
  <2> DEFINE ms == [ls EXCEPT ![i] = older]
             ks == [ms EXCEPT ![j] = newer]
  <2>5. OffsetPair(ls, i, j) = ks
    <3>1. OffsetPair(ls, i, j) = [ls EXCEPT ![i] = LessOf(@, n, p), ![j].open = @ - n]
      BY <1>2, <2>1, <2>2 DEF OffsetPair
    <3>2. [ls EXCEPT ![i] = LessOf(@, n, p), ![j].open = @ - n] = [[ls EXCEPT ![i] = older] EXCEPT ![j] = newer]
      BY <2>0, <2>3, <2>4
    <3> QED BY <3>1, <3>2
  <2>6. newer \in DayLot /\ newer.buy = ls[j].buy /\ newer.open = ls[j].open - n /\ newer.entry = p
        /\ newer.realized = ls[j].realized
    <3>1. ls[j].open - n \in Nat
      BY <2>0, <2>1
    <3> QED BY <2>0, <2>2, <2>4, <3>1 DEF DayLot
  <2>7. older \in DayLot
    BY <2>0, <2>1, <2>3, LotShrinks
  <2>8. ms \in Seq(DayLot) /\ DOMAIN ms = DOMAIN ls /\ ms[i] = older /\ \A k \in DOMAIN ls \ {i} : ms[k] = ls[k]
    BY <2>7
  <2> HIDE DEF ms
  <2>9. ks \in Seq(DayLot) /\ DOMAIN ks = DOMAIN ls /\ ks[j] = newer /\ \A k \in DOMAIN ms \ {j} : ks[k] = ms[k]
    BY <2>6, <2>8
  <2> HIDE DEF ks
  <2>10. ASSUME NEW q \in Int PROVE NetOf(ks) = NetOf(ls) /\ PnlOf(ks, q) = PnlOf(ls, q)
    <3> DEFINE t == Side(ls[i].buy) * n
    <3>1. /\ Signed(older) = Signed(ls[i]) - t /\ t \in Int
          /\ LotPnl(older, q) = LotPnl(ls[i], q) - (q - p) * t * Factor
      BY <2>0, <2>1, <2>3, LotShrinks, SMTT(30)
    <3>2. Side(ls[j].buy) * n = -t
      BY <1>2, <2>0 DEF Side
    <3> HIDE DEF t
    <3>3. Signed(newer) = Signed(ls[j]) + t /\ Signed(ls[j]) \in Int /\ Signed(ls[i]) \in Int
      <4>1. Signed(newer) = Side(newer.buy) * newer.open /\ Signed(ls[j]) = Side(ls[j].buy) * ls[j].open /\ Signed(ls[j]) \in Int
            /\ Signed(ls[i]) \in Int
        BY <2>0, <2>6, LotWorth
      <4>2. Side(ls[j].buy) * (ls[j].open - n) = Side(ls[j].buy) * ls[j].open - Side(ls[j].buy) * n
        BY <2>0 DEF Side
      <4> QED BY <2>6, <3>1, <3>2, <4>1, <4>2
    <3>4. LotPnl(newer, q) = LotPnl(ls[j], q) - (q - p) * (-t) * Factor
      <4>1. PICK r \in Int, s \in Int, f \in Int : r = ls[j].realized /\ s = Signed(ls[j]) /\ f = Factor
        BY <2>0, <3>3, FactorIsWhole DEF DayLot
      <4>2. LotPnl(ls[j], q) = r + (q - p) * s * f
        BY <2>0, <2>2, <4>1, LotWorth
      <4>3. LotPnl(newer, q) = r + (q - p) * (s + t) * f
        BY <2>6, <3>3, <4>1, LotWorth
      <4>4. r + (q - p) * (s + t) * f = r + (q - p) * s * f - (q - p) * (-t) * f
        BY <3>1, SMT
      <4>5. LotPnl(newer, q) = LotPnl(ls[j], q) - (q - p) * (-t) * f
        <5>1. PICK a : a = r + (q - p) * (s + t) * f
          OBVIOUS
        <5>2. PICK b, d : b = (q - p) * s * f /\ d = (q - p) * (-t) * f
          OBVIOUS
        <5>3. a = r + b - d /\ LotPnl(newer, q) = a /\ LotPnl(ls[j], q) = r + b
          BY <4>2, <4>3, <4>4, <5>1, <5>2
        <5> QED BY <5>2, <5>3
      <4> QED BY <4>1, <4>5
    <3>5. LotPnl(older, q) + LotPnl(newer, q) = LotPnl(ls[i], q) + LotPnl(ls[j], q)
      <4>1. q - p \in Int
        OBVIOUS
      <4>2. LotPnl(ls[i], q) \in Int
        BY <2>0, LotWorth
      <4>3. LotPnl(ls[j], q) \in Int
        BY <2>0, LotWorth
      <4> QED BY <3>1, <3>4, <4>1, <4>2, <4>3, FactorIsWhole, NettedWorth
    <3>6. /\ NetOf(ms) = NetOf(ls) - Signed(ls[i]) + Signed(older)
          /\ PnlOf(ms, q) = PnlOf(ls, q) - LotPnl(ls[i], q) + LotPnl(older, q)
      <4>1. Amended(ls, ms, i)
        BY <2>8 DEF Amended
      <4> QED BY <2>8, <4>1, BookChanges
    <3>7. /\ NetOf(ks) = NetOf(ms) - Signed(ls[j]) + Signed(newer)
          /\ PnlOf(ks, q) = PnlOf(ms, q) - LotPnl(ls[j], q) + LotPnl(newer, q)
      <4>1. ms[j] = ls[j] /\ j \in DOMAIN ms /\ DOMAIN ks = DOMAIN ms
        BY <2>0, <2>8, <2>9
      <4>2. Amended(ms, ks, j)
        BY <2>8, <2>9, <4>1 DEF Amended
      <4> QED BY <2>9, <4>1, <4>2, BookChanges
    <3>8. NetOf(ls) \in Int /\ PnlOf(ls, q) \in Int
      BY BookSums
    <3>9. LotPnl(older, q) \in Int /\ LotPnl(newer, q) \in Int /\ LotPnl(ls[i], q) \in Int /\ LotPnl(ls[j], q) \in Int
      BY <2>0, <2>6, <2>7, LotWorth
    <3>10. NetOf(ks) = NetOf(ls)
      BY <3>1, <3>3, <3>6, <3>7, <3>8
    <3>11. PnlOf(ks, q) = PnlOf(ls, q)
      BY <3>5, <3>6, <3>7, <3>8, <3>9, SMTT(30)
    <3> QED BY <3>10, <3>11
  <2>11. NetOf(ks) = NetOf(ls)
    <3>1. 0 \in Int
      OBVIOUS
    <3> QED BY <2>10, <3>1
  <2> QED BY <2>5, <2>9, <2>10, <2>11 DEF Alike
<1> QED BY <1>1, <1>2

\* What counts as a book that counts as ls counts as ls.
LEMMA AlikeAgain ==
  ASSUME NEW ls, NEW b \in Alike(ls), NEW c \in Alike(b)
  PROVE  c \in Alike(ls)
  BY DEF Alike

\* The largest of some numbers up to k is one of them.
LEMMA LastOfSome ==
  ASSUME NEW S, S # {}, NEW k \in Nat, S \subseteq 1..k
  PROVE  Max(S) \in S
<1>1. IsFiniteSet(S)
  <2>1. IsFiniteSet(1..k)
    BY FS_Interval
  <2> QED BY <2>1, FS_Subset
<1>2. \E x \in S : \A y \in S : x >= y
  <2>1. \A x \in S : x \in Int
    OBVIOUS
  <2> QED BY <1>1, <2>1, MaxIsThere
<1> QED BY <1>2 DEF Max

\* One lot is netted against all newer ones,
LEMMA FromOffsets ==
  ASSUME NEW ls \in Seq(DayLot), NEW i \in DOMAIN ls
  PROVE  OffsetFrom(ls, i) \in Alike(ls)
<1> DEFINE S == DOMAIN Places(ls)
           c(T) == Max(T)
           Is(h) == h = [s \in SUBSET S |-> IF s = {} THEN ls ELSE OffsetPair(h[s \ {c(s)}], i, Places(ls)[c(s)])]
           iter == CHOOSE h : Is(h)
           pick == [s \in SUBSET S |-> c(s)]
           step == [xv \in S \X Alike(ls) |-> OffsetPair(xv[2], i, Places(ls)[xv[1]])]
<1>1. OffsetFrom(ls, i) = iter[S]
  BY DEF OffsetFrom, FoldLeft, MapThenFoldSet
<1>2. S = DOMAIN ls /\ S = 1..Len(ls) /\ Len(ls) \in Nat /\ \A o \in S : Places(ls)[o] = o
  BY DEF Places
<1>3. IsFiniteSet(S)
  BY <1>2, FS_Interval
<1>4. ls \in Alike(ls)
  BY DEF Alike
<1>5. \A s \in SUBSET S : s # {} => c(s) \in s /\ pick[s] = c(s)
  <2> SUFFICES ASSUME NEW s \in SUBSET S, s # {} PROVE c(s) \in s
    OBVIOUS
  <2>1. s \subseteq 1..Len(ls) /\ Len(ls) \in Nat
    BY <1>2
  <2> QED BY <2>1, LastOfSome
<1>6. \A x \in S, v \in Alike(ls) :
        step[<<x, v>>] = OffsetPair(v, i, Places(ls)[x]) /\ OffsetPair(v, i, Places(ls)[x]) \in Alike(ls)
  <2> SUFFICES ASSUME NEW x \in S, NEW v \in Alike(ls) PROVE OffsetPair(v, i, Places(ls)[x]) \in Alike(ls)
    OBVIOUS
  <2>1. v \in Seq(DayLot) /\ DOMAIN v = DOMAIN ls
    BY DEF Alike
  <2>2. Places(ls)[x] = x /\ x \in DOMAIN v /\ i \in DOMAIN v
    BY <1>2, <2>1
  <2>3. OffsetPair(v, i, x) \in Alike(v)
    BY <2>1, <2>2, PairOffsets
  <2>4. OffsetPair(v, i, x) \in Alike(ls)
    BY <2>3, AlikeAgain
  <2> QED BY <2>2, <2>4
<1> HIDE DEF S, c, pick, step
<1>7. PICK h : FoldsUp(h, pick, step, ls, S) /\ \A s \in SUBSET S : h[s] \in Alike(ls)
  <2>1. PICK G : G = Alike(ls)
    OBVIOUS
  <2>2. ls \in G /\ (\A s \in SUBSET S : s # {} => pick[s] \in s) /\ \A x \in S, v \in G : step[<<x, v>>] \in G
    BY <1>4, <1>5, <1>6, <2>1
  <2>3. \E h : FoldsUp(h, pick, step, ls, S) /\ \A s \in SUBSET S : h[s] \in G
    BY <1>3, <2>2, GoodFold
  <2> QED BY <2>1, <2>3
<1>8. Is(h)
  <2>1. \A s \in SUBSET S : h[s] = IF s = {} THEN ls ELSE OffsetPair(h[s \ {c(s)}], i, Places(ls)[c(s)])
    <3> SUFFICES ASSUME NEW s \in SUBSET S, s # {} PROVE h[s] = OffsetPair(h[s \ {c(s)}], i, Places(ls)[c(s)])
      BY <1>7 DEF FoldsUp
    <3>1. h[s] = step[<<pick[s], h[s \ {pick[s]}]>>]
      BY <1>7 DEF FoldsUp
    <3>2. c(s) \in S /\ s \ {c(s)} \in SUBSET S /\ pick[s] = c(s)
      BY <1>5
    <3> QED BY <1>6, <1>7, <3>1, <3>2
  <2>2. h = [s \in SUBSET S |-> h[s]]
    BY <1>7 DEF FoldsUp
  <2> QED BY <2>1, <2>2
<1>9. Is(iter)
  BY <1>8
<1>10. iter[{}] = ls /\ \A s \in SUBSET S : s # {} => iter[s] = OffsetPair(iter[s \ {c(s)}], i, Places(ls)[c(s)])
  BY <1>9
<1> HIDE DEF iter
<1>11. iter[S] \in Alike(ls)
  <2>1. \A s \in SUBSET S : s # {} => pick[s] \in s /\ (iter[s \ {pick[s]}] \in Alike(ls) => iter[s] \in Alike(ls))
    <3> SUFFICES ASSUME NEW s \in SUBSET S, s # {}, iter[s \ {c(s)}] \in Alike(ls) PROVE iter[s] \in Alike(ls)
      BY <1>5
    <3>1. c(s) \in S /\ iter[s] = OffsetPair(iter[s \ {c(s)}], i, Places(ls)[c(s)])
      BY <1>5, <1>10
    <3> QED BY <1>6, <3>1
  <2>2. PICK G : G = Alike(ls)
    OBVIOUS
  <2>3. \A s \in SUBSET S : iter[s] \in G
    BY <1>3, <1>4, <1>10, <2>1, <2>2, FoldStays
  <2> QED BY <2>2, <2>3
<1> QED BY <1>1, <1>11

\* and all lots are, oldest first.
LEMMA AllOffsets ==
  ASSUME NEW ls \in Seq(DayLot)
  PROVE  OffsetAll(ls) \in Alike(ls)
<1> DEFINE S == DOMAIN Places(ls)
           c(T) == Max(T)
           Is(h) == h = [s \in SUBSET S |-> IF s = {} THEN ls ELSE OffsetFrom(h[s \ {c(s)}], Places(ls)[c(s)])]
           iter == CHOOSE h : Is(h)
           pick == [s \in SUBSET S |-> c(s)]
           step == [xv \in S \X Alike(ls) |-> OffsetFrom(xv[2], Places(ls)[xv[1]])]
<1>1. OffsetAll(ls) = iter[S]
  BY DEF OffsetAll, FoldLeft, MapThenFoldSet
<1>2. S = DOMAIN ls /\ S = 1..Len(ls) /\ Len(ls) \in Nat /\ \A o \in S : Places(ls)[o] = o
  BY DEF Places
<1>3. IsFiniteSet(S)
  BY <1>2, FS_Interval
<1>4. ls \in Alike(ls)
  BY DEF Alike
<1>5. \A s \in SUBSET S : s # {} => c(s) \in s /\ pick[s] = c(s)
  <2> SUFFICES ASSUME NEW s \in SUBSET S, s # {} PROVE c(s) \in s
    OBVIOUS
  <2>1. s \subseteq 1..Len(ls) /\ Len(ls) \in Nat
    BY <1>2
  <2> QED BY <2>1, LastOfSome
<1>6. \A x \in S, v \in Alike(ls) :
        step[<<x, v>>] = OffsetFrom(v, Places(ls)[x]) /\ OffsetFrom(v, Places(ls)[x]) \in Alike(ls)
  <2> SUFFICES ASSUME NEW x \in S, NEW v \in Alike(ls) PROVE OffsetFrom(v, Places(ls)[x]) \in Alike(ls)
    OBVIOUS
  <2>1. v \in Seq(DayLot) /\ DOMAIN v = DOMAIN ls
    BY DEF Alike
  <2>2. Places(ls)[x] = x /\ x \in DOMAIN v
    BY <1>2, <2>1
  <2>3. OffsetFrom(v, x) \in Alike(v)
    BY <2>1, <2>2, FromOffsets
  <2>4. OffsetFrom(v, x) \in Alike(ls)
    BY <2>3, AlikeAgain
  <2> QED BY <2>2, <2>4
<1> HIDE DEF S, c, pick, step
<1>7. PICK h : FoldsUp(h, pick, step, ls, S) /\ \A s \in SUBSET S : h[s] \in Alike(ls)
  <2>1. PICK G : G = Alike(ls)
    OBVIOUS
  <2>2. ls \in G /\ (\A s \in SUBSET S : s # {} => pick[s] \in s) /\ \A x \in S, v \in G : step[<<x, v>>] \in G
    BY <1>4, <1>5, <1>6, <2>1
  <2>3. \E h : FoldsUp(h, pick, step, ls, S) /\ \A s \in SUBSET S : h[s] \in G
    BY <1>3, <2>2, GoodFold
  <2> QED BY <2>1, <2>3
<1>8. Is(h)
  <2>1. \A s \in SUBSET S : h[s] = IF s = {} THEN ls ELSE OffsetFrom(h[s \ {c(s)}], Places(ls)[c(s)])
    <3> SUFFICES ASSUME NEW s \in SUBSET S, s # {} PROVE h[s] = OffsetFrom(h[s \ {c(s)}], Places(ls)[c(s)])
      BY <1>7 DEF FoldsUp
    <3>1. h[s] = step[<<pick[s], h[s \ {pick[s]}]>>]
      BY <1>7 DEF FoldsUp
    <3>2. c(s) \in S /\ s \ {c(s)} \in SUBSET S /\ pick[s] = c(s)
      BY <1>5
    <3> QED BY <1>6, <1>7, <3>1, <3>2
  <2>2. h = [s \in SUBSET S |-> h[s]]
    BY <1>7 DEF FoldsUp
  <2> QED BY <2>1, <2>2
<1>9. Is(iter)
  BY <1>8
<1>10. iter[{}] = ls /\ \A s \in SUBSET S : s # {} => iter[s] = OffsetFrom(iter[s \ {c(s)}], Places(ls)[c(s)])
  BY <1>9
<1> HIDE DEF iter
<1>11. iter[S] \in Alike(ls)
  <2>1. \A s \in SUBSET S : s # {} => pick[s] \in s /\ (iter[s \ {pick[s]}] \in Alike(ls) => iter[s] \in Alike(ls))
    <3> SUFFICES ASSUME NEW s \in SUBSET S, s # {}, iter[s \ {c(s)}] \in Alike(ls) PROVE iter[s] \in Alike(ls)
      BY <1>5
    <3>1. c(s) \in S /\ iter[s] = OffsetFrom(iter[s \ {c(s)}], Places(ls)[c(s)])
      BY <1>5, <1>10
    <3> QED BY <1>6, <3>1
  <2>2. PICK G : G = Alike(ls)
    OBVIOUS
  <2>3. \A s \in SUBSET S : iter[s] \in G
    BY <1>3, <1>4, <1>10, <2>1, <2>2, FoldStays
  <2> QED BY <2>2, <2>3
<1> QED BY <1>1, <1>11
-----------------------------------------------------------------------------
(* An order without a tag closes the other side                            *)

ClosingStates == [left : Nat, ls : Seq(DayLot)]
\* What the lots and what is left of the order hold, and make at price q.
HeldBoth(acc, buy) == NetOf(acc.ls) + Side(buy) * acc.left
MadeBoth(acc, buy, price, q) == PnlOf(acc.ls, q) + (q - price) * (Side(buy) * acc.left) * Factor

\* A quantity that moves from the order into a lot is worth the same in both.
LEMMA SplitWorth ==
  ASSUME NEW a \in Int, NEW t \in Int, NEW m \in Int, NEW n \in Int, NEW f \in Int
  PROVE  /\ a * (t * (m - n)) * f = a * (t * m) * f - a * (t * n) * f /\ a * (t * m) * f \in Int /\ a * (t * n) * f \in Int
         /\ a * (-(t * n)) * f = -(a * (t * n) * f) /\ t * (m - n) = t * m - t * n /\ t * m \in Int /\ t * n \in Int
BY SMT

LEMMA MakesWhole ==
  ASSUME NEW acc \in ClosingStates, NEW buy \in BOOLEAN, NEW price \in Int, NEW q \in Int
  PROVE  HeldBoth(acc, buy) \in Int /\ MadeBoth(acc, buy, price, q) \in Int
<1>1. acc.left \in Nat /\ acc.ls \in Seq(DayLot)
  BY DEF ClosingStates
<1>2. PICK t \in Int, a \in Int, f \in Int : t = Side(buy) /\ a = q - price /\ f = Factor
  BY FactorIsWhole DEF Side
<1>3. t * acc.left \in Int /\ a * (t * acc.left) * f \in Int
  BY <1>1, SplitWorth
<1>4. NetOf(acc.ls) \in Int /\ PnlOf(acc.ls, q) \in Int
  BY <1>1, BookSums
<1> QED BY <1>2, <1>3, <1>4 DEF HeldBoth, MadeBoth

LEMMA ClosingMoves ==
  ASSUME NEW acc \in ClosingStates, NEW lot \in DayLot, NEW buy \in BOOLEAN, NEW price \in Int, NEW q \in Int,
         NEW nxt, nxt = Closing(acc, lot, buy, price)
  PROVE  /\ nxt \in ClosingStates /\ nxt.ls # <<>> /\ HeldBoth(nxt, buy) = HeldBoth(acc, buy) + Signed(lot)
         /\ MadeBoth(nxt, buy, price, q) = MadeBoth(acc, buy, price, q) + LotPnl(lot, q)
<1>1. acc.left \in Nat /\ acc.ls \in Seq(DayLot) /\ lot.open \in Nat /\ lot.buy \in BOOLEAN /\ Side(buy) \in Int
  BY DEF ClosingStates, DayLot, Side
<1>2. PICK n \in Nat : n = ClosesAt(buy, lot, acc.left) /\ n <= acc.left /\ n <= lot.open /\ (lot.buy = buy => n = 0)
  <2>1. CASE lot.buy = buy
    BY <1>1, <2>1 DEF ClosesAt
  <2>2. CASE lot.buy # buy
    BY <1>1, <2>2, LesserOf DEF ClosesAt
  <2> QED BY <2>1, <2>2
<1>3. PICK rest : rest = LessOf(lot, n, price)
  OBVIOUS
<1>4. nxt = [left |-> acc.left - n, ls |-> Append(acc.ls, rest)]
  BY <1>2, <1>3 DEF Closing
<1>5. /\ rest \in DayLot /\ Signed(rest) = Signed(lot) - Side(lot.buy) * n /\ Side(lot.buy) * n \in Int
      /\ LotPnl(rest, q) = LotPnl(lot, q) - (q - price) * (Side(lot.buy) * n) * Factor
  BY <1>1, <1>2, <1>3, LotShrinks
<1>6. Side(lot.buy) * n = -(Side(buy) * n)
  <2>1. CASE lot.buy = buy
    BY <1>1, <1>2, <2>1
  <2>2. CASE lot.buy # buy
    BY <1>1, <1>2, <2>2 DEF Side
  <2> QED BY <2>1, <2>2
<1>7. /\ Append(acc.ls, rest) \in Seq(DayLot) /\ Append(acc.ls, rest) # <<>>
      /\ NetOf(Append(acc.ls, rest)) = NetOf(acc.ls) + Signed(rest)
      /\ PnlOf(Append(acc.ls, rest), q) = PnlOf(acc.ls, q) + LotPnl(rest, q)
  BY <1>1, <1>5, BookAppends
<1>8. NetOf(acc.ls) \in Int /\ PnlOf(acc.ls, q) \in Int /\ Signed(lot) \in Int /\ LotPnl(lot, q) \in Int
  BY <1>1, BookSums, LotWorth
<1>9. nxt \in ClosingStates /\ nxt.ls # <<>>
  BY <1>1, <1>2, <1>4, <1>7 DEF ClosingStates
<1>10. PICK a \in Int, t \in Int, m \in Int, f \in Int : a = q - price /\ t = Side(buy) /\ m = acc.left /\ f = Factor
  BY <1>1, FactorIsWhole
<1>11. /\ a * (t * (m - n)) * f = a * (t * m) * f - a * (t * n) * f /\ a * (t * m) * f \in Int /\ a * (t * n) * f \in Int
       /\ a * (-(t * n)) * f = -(a * (t * n) * f) /\ t * (m - n) = t * m - t * n /\ t * m \in Int /\ t * n \in Int
  BY SplitWorth
<1>12. HeldBoth(nxt, buy) = HeldBoth(acc, buy) + Signed(lot)
  <2>1. HeldBoth(nxt, buy) = NetOf(acc.ls) + Signed(lot) + t * n + t * (m - n) /\ HeldBoth(acc, buy) = NetOf(acc.ls) + t * m
    <3>1. Signed(rest) = Signed(lot) + t * n
      BY <1>5, <1>6, <1>8, <1>10, <1>11
    <3>2. nxt.left = m - n /\ NetOf(nxt.ls) = NetOf(acc.ls) + Signed(rest)
      BY <1>4, <1>7, <1>10
    <3> QED BY <1>8, <1>10, <1>11, <3>1, <3>2 DEF HeldBoth
  <2> QED BY <1>8, <1>11, <2>1
<1>13. MadeBoth(nxt, buy, price, q) = MadeBoth(acc, buy, price, q) + LotPnl(lot, q)
  <2>1. LotPnl(rest, q) = LotPnl(lot, q) + a * (t * n) * f
    <3>1. LotPnl(rest, q) = LotPnl(lot, q) - a * (-(t * n)) * f
      BY <1>5, <1>6, <1>10
    <3>2. PICK x \in Int, y \in Int : x = a * (t * n) * f /\ y = a * (-(t * n)) * f /\ y = -x
      BY <1>11
    <3> QED BY <1>8, <3>1, <3>2
  <2>2. MadeBoth(nxt, buy, price, q) = PnlOf(nxt.ls, q) + a * (t * (m - n)) * f
    BY <1>4, <1>10 DEF MadeBoth
  <2>3. MadeBoth(acc, buy, price, q) = PnlOf(acc.ls, q) + a * (t * m) * f
    BY <1>10 DEF MadeBoth
  <2>4. PnlOf(nxt.ls, q) = PnlOf(acc.ls, q) + LotPnl(rest, q)
    BY <1>4, <1>7
  <2>5. PICK x \in Int, y \in Int, z \in Int : x = a * (t * n) * f /\ y = a * (t * m) * f /\ z = a * (t * (m - n)) * f /\ z = y - x
    BY <1>11
  <2> QED BY <1>8, <2>1, <2>2, <2>3, <2>4, <2>5
<1> QED BY <1>9, <1>12, <1>13

\* The fold over all lots moves what it takes from one to the other.
LEMMA OldestClose ==
  ASSUME NEW ls \in Seq(DayLot), NEW buy \in BOOLEAN, NEW n \in Nat, NEW price \in Int, NEW q \in Int,
         NEW done, done = CloseOldest(ls, buy, n, price)
  PROVE  /\ done \in ClosingStates /\ (done.ls = <<>> => done.left = n)
         /\ HeldBoth(done, buy) = Side(buy) * n + NetOf(ls)
         /\ MadeBoth(done, buy, price, q) = (q - price) * (Side(buy) * n) * Factor + PnlOf(ls, q)
<1> DEFINE S == DOMAIN ls
           base == [left |-> n, ls |-> <<>>]
           c(T) == Max(T)
           Is(h) == h = [s \in SUBSET S |-> IF s = {} THEN base ELSE Closing(h[s \ {c(s)}], ls[c(s)], buy, price)]
           iter == CHOOSE h : Is(h)
           pick == [s \in SUBSET S |-> c(s)]
           step == [xv \in S \X ClosingStates |-> Closing(xv[2], ls[xv[1]], buy, price)]
<1>1. done = iter[S]
  BY DEF CloseOldest, FoldLeft, MapThenFoldSet
<1>2. S = 1..Len(ls) /\ Len(ls) \in Nat /\ \A o \in S : ls[o] \in DayLot
  OBVIOUS
<1>3. IsFiniteSet(S)
  BY <1>2, FS_Interval
<1>4. base \in ClosingStates /\ base.left = n /\ HeldBoth(base, buy) = Side(buy) * n /\ MadeBoth(base, buy, price, q) = (q - price) * (Side(buy) * n) * Factor
  <2>1. base \in ClosingStates
    BY DEF ClosingStates
  <2>2. NetOf(<<>>) = 0 /\ PnlOf(<<>>, q) = 0
    BY EmptyBook
  <2>3. Side(buy) * n \in Int /\ (q - price) * (Side(buy) * n) * Factor \in Int
    <3>1. PICK t \in Int, a \in Int, f \in Int : t = Side(buy) /\ a = q - price /\ f = Factor
      BY FactorIsWhole DEF Side
    <3>2. t * n \in Int /\ a * (t * n) * f \in Int
      BY SplitWorth
    <3> QED BY <3>1, <3>2
  <2> QED BY <2>1, <2>2, <2>3 DEF HeldBoth, MadeBoth
<1>5. \A s \in SUBSET S : s # {} => c(s) \in s /\ pick[s] = c(s)
  <2> SUFFICES ASSUME NEW s \in SUBSET S, s # {} PROVE c(s) \in s
    OBVIOUS
  <2>1. s \subseteq 1..Len(ls) /\ Len(ls) \in Nat
    BY <1>2
  <2> QED BY <2>1, LastOfSome
<1>6. \A x \in S, v \in ClosingStates :
        step[<<x, v>>] = Closing(v, ls[x], buy, price) /\ Closing(v, ls[x], buy, price) \in ClosingStates
  BY <1>2, ClosingMoves
<1> HIDE DEF base, c, pick, step
<1>7. PICK h : FoldsUp(h, pick, step, base, S) /\ \A s \in SUBSET S : h[s] \in ClosingStates
  <2>1. PICK G, T : G = ClosingStates /\ T = S
    OBVIOUS
  <2>2. base \in G /\ (\A s \in SUBSET T : s # {} => pick[s] \in s) /\ \A x \in T, v \in G : step[<<x, v>>] \in G
    BY <1>4, <1>5, <1>6, <2>1
  <2>3. \E h : FoldsUp(h, pick, step, base, T) /\ \A s \in SUBSET T : h[s] \in G
    BY <1>3, <2>1, <2>2, GoodFold
  <2> QED BY <2>1, <2>3
<1>8. Is(h)
  <2>1. \A s \in SUBSET S : h[s] = IF s = {} THEN base ELSE Closing(h[s \ {c(s)}], ls[c(s)], buy, price)
    <3> SUFFICES ASSUME NEW s \in SUBSET S, s # {} PROVE h[s] = Closing(h[s \ {c(s)}], ls[c(s)], buy, price)
      BY <1>7 DEF FoldsUp
    <3>1. h[s] = step[<<pick[s], h[s \ {pick[s]}]>>]
      BY <1>7 DEF FoldsUp
    <3>2. c(s) \in S /\ s \ {c(s)} \in SUBSET S /\ pick[s] = c(s)
      BY <1>5
    <3> QED BY <1>6, <1>7, <3>1, <3>2
  <2>2. h = [s \in SUBSET S |-> h[s]]
    BY <1>7 DEF FoldsUp
  <2> QED BY <2>1, <2>2
<1>9. Is(iter)
  BY <1>8
<1>10. iter[{}] = base /\ \A s \in SUBSET S : s # {} => iter[s] = Closing(iter[s \ {c(s)}], ls[c(s)], buy, price)
  BY <1>9
<1> HIDE DEF iter
<1> DEFINE f == [o \in S |-> Signed(ls[o])]
           u == [o \in S |-> LotPnl(ls[o], q)]
           net(s) == SumFunctionOnSet(f, s)
           pnl(s) == SumFunctionOnSet(u, s)
           GoodAt(s, a) == /\ a \in ClosingStates /\ (a.ls = <<>> => a.left = n) /\ HeldBoth(a, buy) = HeldBoth(base, buy) + net(s)
                           /\ MadeBoth(a, buy, price, q) = MadeBoth(base, buy, price, q) + pnl(s)
           Good == {sa \in (SUBSET S) \X ClosingStates : GoodAt(sa[1], sa[2])}
<1>11. \A s \in SUBSET S : <<s, iter[s]>> \in Good
  <2>0. \A o \in S : f[o] = Signed(ls[o]) /\ u[o] = LotPnl(ls[o], q) /\ f[o] \in Int /\ u[o] \in Int
    BY <1>2, LotWorth
  <2> HIDE DEF f, u
  <2>1. <<{}, iter[{}]>> \in Good
    <3>1. net({}) = 0 /\ pnl({}) = 0
      BY SumEmpty
    <3>2. HeldBoth(base, buy) \in Int /\ MadeBoth(base, buy, price, q) \in Int
      BY <1>4, MakesWhole
    <3>3. GoodAt({}, base)
      BY <1>4, <3>1, <3>2
    <3> HIDE DEF GoodAt
    <3> QED BY <1>4, <1>10, <3>3
  <2>2. \A s \in SUBSET S : s # {} =>
           pick[s] \in s /\ (<<s \ {pick[s]}, iter[s \ {pick[s]}]>> \in Good => <<s, iter[s]>> \in Good)
    <3> SUFFICES ASSUME NEW s \in SUBSET S, s # {}, <<s \ {c(s)}, iter[s \ {c(s)}]>> \in Good PROVE <<s, iter[s]>> \in Good
      BY <1>5
    <3>1. PICK o, r, a : o = c(s) /\ r = s \ {o} /\ a = iter[r]
      OBVIOUS
    <3>2. o \in s /\ o \in S /\ r \in SUBSET S /\ o \notin r /\ s = r \cup {o} /\ IsFiniteSet(r) /\ iter[s] = Closing(a, ls[o], buy, price)
      BY <1>3, <1>5, <1>10, <3>1, FS_Subset
    <3>3. a \in ClosingStates /\ GoodAt(r, a)
      <4> HIDE DEF GoodAt
      <4> QED BY <3>1
    <3>4. /\ iter[s] \in ClosingStates /\ iter[s].ls # <<>> /\ HeldBoth(iter[s], buy) = HeldBoth(a, buy) + f[o]
          /\ MadeBoth(iter[s], buy, price, q) = MadeBoth(a, buy, price, q) + u[o]
      BY <1>2, <2>0, <3>2, <3>3, ClosingMoves
    <3>5. net(s) = f[o] + net(r) /\ pnl(s) = u[o] + pnl(r) /\ net(r) \in Int /\ pnl(r) \in Int
      <4>1. \A y \in r \cup {o} : f[y] \in Int /\ u[y] \in Int
        BY <2>0, <3>2
      <4>2. net(r) \in Int /\ pnl(r) \in Int
        BY <3>2, <4>1, SumIsInt
      <4>3. net(s) = f[o] + net(r)
        BY <3>2, <4>1, SumAdd, ZenonT(40)
      <4>4. pnl(s) = u[o] + pnl(r)
        BY <3>2, <4>1, SumAdd, ZenonT(40)
      <4> QED BY <4>2, <4>3, <4>4
    <3>6. HeldBoth(base, buy) \in Int /\ MadeBoth(base, buy, price, q) \in Int
      BY <1>4, MakesWhole
    <3>7. f[o] \in Int /\ u[o] \in Int
      BY <2>0, <3>2
    <3> HIDE DEF net, pnl
    <3>8. GoodAt(s, iter[s])
      <4>1. /\ a \in ClosingStates /\ HeldBoth(a, buy) = HeldBoth(base, buy) + net(r)
            /\ MadeBoth(a, buy, price, q) = MadeBoth(base, buy, price, q) + pnl(r)
        BY <3>3
      <4>2. HeldBoth(iter[s], buy) = HeldBoth(base, buy) + net(s)
        BY <3>4, <3>5, <3>6, <3>7, <4>1
      <4>3. MadeBoth(iter[s], buy, price, q) = MadeBoth(base, buy, price, q) + pnl(s)
        BY <3>4, <3>5, <3>6, <3>7, <4>1
      <4> QED BY <3>4, <4>2, <4>3
    <3> HIDE DEF GoodAt
    <3> QED BY <3>4, <3>8
  <2> HIDE DEF Good
  <2>3. PICK T : T = S
    OBVIOUS
  <2>4. IsFiniteSet(T) /\ \A s \in SUBSET T : s # {} =>
           pick[s] \in s /\ (<<s \ {pick[s]}, iter[s \ {pick[s]}]>> \in Good => <<s, iter[s]>> \in Good)
    BY <1>3, <2>2, <2>3
  <2>5. \A s \in SUBSET T : <<s, iter[s]>> \in Good
    BY <2>1, <2>4, FoldFollows
  <2> QED BY <2>3, <2>5
<1>12. GoodAt(S, iter[S])
  <2> HIDE DEF GoodAt
  <2> QED BY <1>11
<1>13. net(S) = NetOf(ls) /\ pnl(S) = PnlOf(ls, q)
  BY BookSums
<1> HIDE DEF net, pnl, S, Good
<1> QED BY <1>1, <1>4, <1>12, <1>13
-----------------------------------------------------------------------------
(* What a trade does to the lots                                           *)

\* The lots ms hold d more than ls, bought or sold at price.
Moves(ls, ms, d, price) ==
  /\ ms \in Seq(DayLot) /\ ms # <<>> /\ NetOf(ms) = NetOf(ls) + d
  /\ \A q \in Int : PnlOf(ms, q) = PnlOf(ls, q) + (q - price) * d * Factor

\* Netting leaves what they hold and make as it is.
LEMMA OffsetMoves ==
  ASSUME NEW ls, NEW ms, NEW d, NEW price, Moves(ls, ms, d, price)
  PROVE  Moves(ls, OffsetAll(ms), d, price)
<1>1. OffsetAll(ms) \in Alike(ms)
  BY AllOffsets DEF Moves
<1>2. PICK b : b = OffsetAll(ms)
  OBVIOUS
<1>3. b \in Seq(DayLot) /\ DOMAIN b = DOMAIN ms /\ NetOf(b) = NetOf(ms) /\ \A q \in Int : PnlOf(b, q) = PnlOf(ms, q)
  BY <1>1, <1>2 DEF Alike
<1>4. b # <<>>
  <2>1. ms \in Seq(DayLot) /\ ms # <<>>
    BY DEF Moves
  <2>2. DOMAIN ms # {}
    BY <2>1
  <2> QED BY <1>3, <2>2
<1> QED BY <1>2, <1>3, <1>4 DEF Moves

LEMMA AddedMoves ==
  ASSUME NEW ls \in Seq(DayLot), NEW buy \in BOOLEAN, NEW n \in Nat, NEW price \in Int
  PROVE  Moves(ls, Append(ls, NewLotAt(buy, n, price)), Side(buy) * n, price)
<1>1. PICK lot : lot = NewLotAt(buy, n, price)
  OBVIOUS
<1>2. \A q \in Int : LotPnl(lot, q) = (q - price) * (Side(buy) * n) * Factor
  BY <1>1, NewLotWorth
<1>3. lot \in DayLot /\ Signed(lot) = Side(buy) * n
  <2>1. 0 \in Int
    OBVIOUS
  <2> QED BY <1>1, <2>1, NewLotWorth
<1>4. PICK ms : ms = Append(ls, lot)
  OBVIOUS
<1>5. \A q \in Int : ms \in Seq(DayLot) /\ ms # <<>> /\ NetOf(ms) = NetOf(ls) + Signed(lot) /\ PnlOf(ms, q) = PnlOf(ls, q) + LotPnl(lot, q)
  BY <1>3, <1>4, BookAppends
<1>6. ms \in Seq(DayLot) /\ ms # <<>> /\ NetOf(ms) = NetOf(ls) + Signed(lot)
  <2>1. 0 \in Int
    OBVIOUS
  <2> QED BY <1>5, <2>1
<1> QED BY <1>1, <1>2, <1>3, <1>4, <1>5, <1>6 DEF Moves

LEMMA ExitMoves ==
  ASSUME NEW ls \in Seq(DayLot), NEW i \in DOMAIN ls, NEW n \in Nat, n <= ls[i].open, NEW price \in Int
  PROVE  Moves(ls, [ls EXCEPT ![i] = LessOf(@, n, price)], Side(~ls[i].buy) * n, price)
<1>1. ls[i] \in DayLot /\ ls[i].buy \in BOOLEAN
  <2>1. ls[i] \in DayLot
    OBVIOUS
  <2> QED BY <2>1 DEF DayLot
<1>2. PICK rest : rest = LessOf(ls[i], n, price)
  OBVIOUS
<1>3. PICK t \in Int : t = Side(ls[i].buy) * n
  BY <1>1, <1>2, LotShrinks
<1>4. Side(~ls[i].buy) * n = -t
  BY <1>1, <1>3 DEF Side
<1>5. /\ rest \in DayLot /\ Signed(rest) = Signed(ls[i]) - t
      /\ \A q \in Int : LotPnl(rest, q) = LotPnl(ls[i], q) - (q - price) * t * Factor
  <2>1. \A q \in Int : /\ rest \in DayLot /\ Signed(rest) = Signed(ls[i]) - t
                       /\ LotPnl(rest, q) = LotPnl(ls[i], q) - (q - price) * t * Factor
    BY <1>1, <1>2, <1>3, LotShrinks
  <2>2. 0 \in Int
    OBVIOUS
  <2> QED BY <2>1, <2>2
<1>6. PICK ms : ms = [ls EXCEPT ![i] = rest]
  OBVIOUS
<1>7. ms \in Seq(DayLot) /\ DOMAIN ms = DOMAIN ls /\ ms[i] = rest /\ \A k \in DOMAIN ls \ {i} : ms[k] = ls[k]
  BY <1>5, <1>6
<1>8. Amended(ls, ms, i) /\ ms # <<>>
  <2>1. ms # <<>>
    BY <1>7
  <2> QED BY <1>7, <2>1 DEF Amended
<1>9. ASSUME NEW q \in Int
      PROVE  NetOf(ms) = NetOf(ls) - t /\ PnlOf(ms, q) = PnlOf(ls, q) + (q - price) * (-t) * Factor
  <2>1. /\ NetOf(ms) = NetOf(ls) - Signed(ls[i]) + Signed(rest)
        /\ PnlOf(ms, q) = PnlOf(ls, q) - LotPnl(ls[i], q) + LotPnl(rest, q)
    BY <1>7, <1>8, BookChanges
  <2>2. NetOf(ls) \in Int /\ PnlOf(ls, q) \in Int /\ Signed(ls[i]) \in Int /\ LotPnl(ls[i], q) \in Int
    BY <1>1, BookSums, LotWorth
  <2>3. PICK x \in Int, y \in Int : x = (q - price) * t * Factor /\ y = (q - price) * (-t) * Factor /\ y = -x
    BY FactorIsWhole, SMT
  <2>4. LotPnl(rest, q) = LotPnl(ls[i], q) - x
    BY <1>5, <2>3
  <2>5. PnlOf(ms, q) = PnlOf(ls, q) + y
    BY <2>1, <2>2, <2>3, <2>4
  <2>6. NetOf(ms) = NetOf(ls) - t
    BY <1>5, <2>1, <2>2
  <2> QED BY <2>3, <2>5, <2>6
<1>10. NetOf(ms) = NetOf(ls) - t /\ NetOf(ls) \in Int
  <2>1. 0 \in Int
    OBVIOUS
  <2> QED BY <1>9, <2>1, BookSums
<1>11. \A q \in Int : PnlOf(ms, q) = PnlOf(ls, q) + (q - price) * (-t) * Factor
  BY <1>9
<1>12. [ls EXCEPT ![i] = LessOf(@, n, price)] = ms
  BY <1>2, <1>6
<1>13. PICK d : d = -t
  OBVIOUS
<1>14. Moves(ls, ms, d, price)
  <2>1. NetOf(ms) = NetOf(ls) + d
    BY <1>10, <1>13
  <2> QED BY <1>7, <1>8, <1>11, <1>13, <2>1 DEF Moves
<1> QED BY <1>4, <1>12, <1>13, <1>14

LEMMA OutsideMoves ==
  ASSUME NEW ls \in Seq(DayLot), NEW buy \in BOOLEAN, NEW n \in Nat \ {0}, NEW price \in Int,
         NEW done, done = CloseOldest(ls, buy, n, price)
  PROVE  Moves(ls, IF done.left = 0 THEN done.ls ELSE Append(done.ls, NewLotAt(buy, done.left, price)), Side(buy) * n, price)
<1>1. \A q \in Int : /\ done \in ClosingStates /\ (done.ls = <<>> => done.left = n) /\ HeldBoth(done, buy) = Side(buy) * n + NetOf(ls)
                     /\ MadeBoth(done, buy, price, q) = (q - price) * (Side(buy) * n) * Factor + PnlOf(ls, q)
  <2> SUFFICES ASSUME NEW q \in Int
               PROVE  /\ done \in ClosingStates /\ (done.ls = <<>> => done.left = n) /\ HeldBoth(done, buy) = Side(buy) * n + NetOf(ls)
                      /\ MadeBoth(done, buy, price, q) = (q - price) * (Side(buy) * n) * Factor + PnlOf(ls, q)
    OBVIOUS
  <2>1. n \in Nat
    OBVIOUS
  <2> QED BY <2>1, OldestClose
<1>2. done \in ClosingStates /\ (done.ls = <<>> => done.left = n) /\ HeldBoth(done, buy) = Side(buy) * n + NetOf(ls)
  <2>1. 0 \in Int
    OBVIOUS
  <2> QED BY <1>1, <2>1
<1>3. done.left \in Nat /\ done.ls \in Seq(DayLot)
  BY <1>2 DEF ClosingStates
<1>4. PICK d \in Int : d = Side(buy) * n
  BY DEF Side
<1>5. NetOf(ls) \in Int /\ NetOf(done.ls) \in Int /\ \A q \in Int : PnlOf(ls, q) \in Int /\ PnlOf(done.ls, q) \in Int
  <2>1. 0 \in Int
    OBVIOUS
  <2> QED BY <1>3, <2>1, BookSums
<1>6. PICK t \in Int : t = Side(buy) * done.left
  BY <1>3 DEF Side
<1>7. \A q \in Int : (q - price) * d * Factor \in Int /\ (q - price) * t * Factor \in Int
  BY FactorIsWhole, SMT
<1>8. NetOf(done.ls) + t = d + NetOf(ls) /\ \A q \in Int : PnlOf(done.ls, q) + (q - price) * t * Factor = (q - price) * d * Factor + PnlOf(ls, q)
  BY <1>1, <1>2, <1>4, <1>6 DEF HeldBoth, MadeBoth
<1>9. CASE done.left = 0
  <2>1. t = 0
    BY <1>6, <1>9 DEF Side
  <2>2. \A q \in Int : (q - price) * 0 * Factor = 0
    BY FactorIsWhole
  <2>3. NetOf(done.ls) = NetOf(ls) + d /\ \A q \in Int : PnlOf(done.ls, q) = PnlOf(ls, q) + (q - price) * d * Factor
    <3>1. NetOf(done.ls) = NetOf(ls) + d
      BY <1>5, <1>8, <2>1
    <3>2. ASSUME NEW q \in Int PROVE PnlOf(done.ls, q) = PnlOf(ls, q) + (q - price) * d * Factor
      <4>1. PICK x \in Int, y \in Int : x = (q - price) * t * Factor /\ y = (q - price) * d * Factor
        BY <1>7
      <4>2. PnlOf(done.ls, q) + x = y + PnlOf(ls, q) /\ x = 0
        BY <1>8, <2>1, <2>2, <4>1
      <4>3. PICK v \in Int, w \in Int : v = PnlOf(done.ls, q) /\ w = PnlOf(ls, q)
        BY <1>5
      <4>4. v + x = y + w /\ x = 0
        BY <4>2, <4>3
      <4>5. v = w + y
        BY <4>4
      <4> QED BY <4>1, <4>3, <4>5
    <3> QED BY <3>1, <3>2
  <2>4. done.ls # <<>>
    BY <1>2, <1>9
  <2> QED BY <1>3, <1>4, <1>9, <2>3, <2>4 DEF Moves
<1>10. CASE done.left # 0
  <2>1. PICK ms : ms = Append(done.ls, NewLotAt(buy, done.left, price))
    OBVIOUS
  <2>2. Moves(done.ls, ms, t, price)
    BY <1>3, <1>6, <2>1, AddedMoves
  <2>3. NetOf(ms) = NetOf(ls) + d
    BY <1>5, <1>8, <2>2 DEF Moves
  <2>4. ASSUME NEW q \in Int PROVE PnlOf(ms, q) = PnlOf(ls, q) + (q - price) * d * Factor
    <3>1. PICK x \in Int, y \in Int : x = (q - price) * t * Factor /\ y = (q - price) * d * Factor
      BY <1>7
    <3>2. PnlOf(ms, q) = PnlOf(done.ls, q) + x /\ PnlOf(done.ls, q) + x = y + PnlOf(ls, q)
      BY <1>8, <2>2, <3>1 DEF Moves
    <3> QED BY <1>5, <3>1, <3>2
  <2>5. Moves(ls, ms, d, price)
    BY <2>2, <2>3, <2>4 DEF Moves
  <2> QED BY <1>4, <1>10, <2>1, <2>5
<1> QED BY <1>9, <1>10
-----------------------------------------------------------------------------
(* The two accounts                                                        *)

RowType == [net : Int, carried : Int, settled : Int, spent : Nat, earned : Nat]
PnlTyped == row \in RowType /\ books \in Seq(DayLot) /\ past \in Int /\ adopted \in BOOLEAN
PnlInv ==
  /\ PnlTyped
  /\ row.spent + row.earned = 0 => row.net = row.carried
  /\ books = <<>> /\ row.net # NetOf(books) => row.spent = 0 /\ row.earned = 0
  /\ row.net = NetOf(books) /\ ~adopted => \A q \in Int : PnlOf(books, q) = past + PositionPnl(row, q)

LEMMA PricesAreWhole == \A p \in Marks : p \in Nat /\ p \in Int /\ p > 0
  BY DayPnlAssumption

\* The worth of a row is linear in the price, and in what is traded at it.
LEMMA RowMoves ==
  ASSUME NEW e \in Int, NEW s \in Int, NEW c \in Int, NEW z \in Int, NEW n \in Int, NEW f \in Int,
         NEW p \in Int, NEW q \in Int, NEW d \in Int
  PROVE  /\ (e - s - c * z + n * q) * f \in Int
         /\ (e - s - d * p - c * z + (n + d) * q) * f = (e - s - c * z + n * q) * f + (q - p) * d * f
         /\ (0 - 0 - n * p + n * q) * f = (e - s - c * z + n * q) * f - (e - s - c * z + n * p) * f
BY SMT

LEMMA RowIsWhole ==
  ASSUME NEW r \in RowType, NEW q \in Int
  PROVE  PositionPnl(r, q) \in Int
<1>1. r.earned \in Int /\ r.spent \in Int /\ r.carried \in Int /\ r.settled \in Int /\ r.net \in Int
  BY DEF RowType
<1>2. (r.earned - r.spent - r.carried * r.settled + r.net * q) * Factor \in Int
  BY <1>1, FactorIsWhole, RowMoves
<1> QED BY <1>2 DEF PositionPnl, Closed

LEMMA TradeKeeps ==
  ASSUME PnlInv, NEW buy \in BOOLEAN, NEW n \in 1..MaxHeld, NEW price \in Marks, Traded(buy, n, price),
         Moves(books, books', Side(buy) * n, price)
  PROVE  PnlInv'
<1>1. /\ n \in Nat /\ n > 0 /\ price \in Nat /\ price > 0
      /\ row \in RowType /\ books \in Seq(DayLot) /\ past' = past /\ adopted' = adopted /\ past \in Int /\ adopted \in BOOLEAN
      /\ row' = [row EXCEPT !.net = @ + (IF buy THEN n ELSE -n),
                            !.spent = IF buy THEN @ + n * price ELSE @,
                            !.earned = IF buy THEN @ ELSE @ + n * price]
  BY PricesAreWhole DEF Traded, PnlInv, PnlTyped
<1>2. /\ row.net \in Int /\ row.carried \in Int /\ row.settled \in Int /\ row.spent \in Nat /\ row.earned \in Nat
      /\ row = [net |-> row.net, carried |-> row.carried, settled |-> row.settled, spent |-> row.spent, earned |-> row.earned]
  BY <1>1 DEF RowType
<1>3. PICK d \in Int : d = Side(buy) * n /\ d = IF buy THEN n ELSE -n
  BY <1>1 DEF Side
<1>4. PICK w \in Nat : w = n * price /\ w > 0 /\ d * price = IF buy THEN w ELSE -w
  BY <1>1, <1>3, SMT
<1>5. /\ row' \in RowType /\ row'.net = row.net + d /\ row'.carried = row.carried /\ row'.settled = row.settled
      /\ row'.spent = (IF buy THEN row.spent + w ELSE row.spent) /\ row'.earned = (IF buy THEN row.earned ELSE row.earned + w)
  <2>1. row' = [net |-> row.net + d, carried |-> row.carried, settled |-> row.settled,
                spent |-> IF buy THEN row.spent + w ELSE row.spent, earned |-> IF buy THEN row.earned ELSE row.earned + w]
    BY <1>1, <1>2, <1>3, <1>4
  <2> QED BY <1>2, <1>3, <1>4, <2>1 DEF RowType
<1>6. /\ books' \in Seq(DayLot) /\ books' # <<>> /\ NetOf(books') = NetOf(books) + d
      /\ \A q \in Int : PnlOf(books', q) = PnlOf(books, q) + (q - price) * d * Factor
  BY <1>3 DEF Moves
<1>7. NetOf(books) \in Int
  <2>1. 0 \in Int
    OBVIOUS
  <2> QED BY <1>1, <2>1, BookSums
<1>8. PnlTyped'
  BY <1>1, <1>5, <1>6 DEF PnlTyped
<1>9. row'.spent + row'.earned # 0
  BY <1>2, <1>4, <1>5
<1>10. ASSUME row'.net = NetOf(books'), ~adopted', NEW q \in Int
       PROVE  PnlOf(books', q) = past' + PositionPnl(row', q)
  <2>1. row.net = NetOf(books) /\ ~adopted
    <3>1. ~adopted
      BY <1>1, <1>10
    <3>2. PICK m \in Int, k \in Int : m = row.net /\ k = NetOf(books)
      BY <1>2, <1>7
    <3>3. row'.net = m + d /\ NetOf(books') = k + d
      BY <1>5, <1>6, <3>2
    <3>4. m + d = k + d
      BY <1>10, <3>3
    <3>5. m = k
      BY <3>4
    <3> QED BY <3>1, <3>2, <3>5
  <2>2. PnlOf(books, q) = past + PositionPnl(row, q) /\ PositionPnl(row, q) \in Int
    BY <1>1, <2>1, RowIsWhole DEF PnlInv
  <2>3. PositionPnl(row', q) = PositionPnl(row, q) + (q - price) * d * Factor
    <3>1. PICK e \in Int, s \in Int, c \in Int, z \in Int, m \in Int, f \in Int, p \in Int :
            e = row.earned /\ s = row.spent /\ c = row.carried /\ z = row.settled /\ m = row.net /\ f = Factor /\ p = price
      BY <1>1, <1>2, FactorIsWhole
    <3>2. row'.earned - row'.spent = e - s - d * p
      BY <1>2, <1>4, <1>5, <3>1
    <3>3. PositionPnl(row', q) = (e - s - d * p - c * z + (m + d) * q) * f
      BY <1>5, <3>1, <3>2 DEF PositionPnl, Closed
    <3>4. PositionPnl(row, q) = (e - s - c * z + m * q) * f
      BY <3>1 DEF PositionPnl, Closed
    <3>5. (e - s - d * p - c * z + (m + d) * q) * f = (e - s - c * z + m * q) * f + (q - p) * d * f
      BY RowMoves
    <3> QED BY <3>1, <3>3, <3>4, <3>5
  <2>4. PICK x \in Int : x = (q - price) * d * Factor
    BY <1>1, FactorIsWhole, SMT
  <2>5. PnlOf(books', q) = PnlOf(books, q) + x /\ PositionPnl(row', q) = PositionPnl(row, q) + x
    BY <1>6, <2>3, <2>4
  <2> QED BY <1>1, <2>2, <2>5
<1>11. \A q \in Int : row'.net = NetOf(books') /\ ~adopted' => PnlOf(books', q) = past' + PositionPnl(row', q)
  BY <1>10
<1> QED BY <1>6, <1>8, <1>9, <1>11 DEF PnlInv

\* A night ends the day at its settlement; the lots are no longer of today.
LEMMA NightKeeps ==
  ASSUME PnlInv, NEW price \in Marks, NightPasses(price)
  PROVE  PnlInv'
<1>1. /\ price \in Int /\ row \in RowType /\ books \in Seq(DayLot) /\ past \in Int /\ adopted' = adopted /\ adopted \in BOOLEAN
      /\ past' = past + PositionPnl(row, price)
      /\ row' = [Flat EXCEPT !.net = row.net, !.carried = row.net, !.settled = IF row.net = 0 THEN 0 ELSE price]
      /\ books' = [i \in DOMAIN books |-> [books[i] EXCEPT !.fresh = FALSE]]
  BY PricesAreWhole DEF NightPasses, PnlInv, PnlTyped
<1>2. row.net \in Int /\ row.carried \in Int /\ row.settled \in Int /\ row.spent \in Int /\ row.earned \in Int
  BY <1>1 DEF RowType
<1>3. /\ row' \in RowType /\ row'.net = row.net /\ row'.carried = row.net /\ row'.spent = 0 /\ row'.earned = 0
      /\ row'.settled = IF row.net = 0 THEN 0 ELSE price
  <2>1. PICK z \in Int : z = IF row.net = 0 THEN 0 ELSE price
    BY <1>1
  <2>2. row' = [net |-> row.net, carried |-> row.net, settled |-> z, spent |-> 0, earned |-> 0]
    BY <1>1, <2>1 DEF Flat
  <2> QED BY <1>2, <2>1, <2>2 DEF RowType
<1>4. PICK ms : ms = [i \in DOMAIN books |-> [books[i] EXCEPT !.fresh = FALSE]]
  OBVIOUS
<1>5. \A i \in DOMAIN books : /\ ms[i] \in DayLot /\ ms[i].buy = books[i].buy /\ ms[i].open = books[i].open
                              /\ ms[i].entry = books[i].entry /\ ms[i].realized = books[i].realized
  <2> SUFFICES ASSUME NEW i \in DOMAIN books
               PROVE  /\ ms[i] \in DayLot /\ ms[i].buy = books[i].buy /\ ms[i].open = books[i].open
                      /\ ms[i].entry = books[i].entry /\ ms[i].realized = books[i].realized
    OBVIOUS
  <2>1. books[i] \in DayLot
    BY <1>1
  <2>2. ms[i] = [books[i] EXCEPT !.fresh = FALSE]
    BY <1>4
  <2> QED BY <2>1, <2>2 DEF DayLot
<1>6. ms \in Seq(DayLot) /\ DOMAIN ms = DOMAIN books
  <2>1. DOMAIN books = 1..Len(books) /\ Len(books) \in Nat
    BY <1>1
  <2>2. \A i \in 1..Len(books) : ms[i] \in DayLot
    BY <1>5, <2>1
  <2>3. ms = [i \in 1..Len(books) |-> ms[i]]
    BY <1>4, <2>1
  <2> QED BY <1>4, <2>1, <2>2, <2>3
<1>7. ASSUME NEW q \in Int PROVE NetOf(ms) = NetOf(books) /\ PnlOf(ms, q) = PnlOf(books, q)
  <2>1. \A k \in DOMAIN books : Signed(ms[k]) = Signed(books[k]) /\ LotPnl(ms[k], q) = LotPnl(books[k], q)
    BY <1>5 DEF Signed, LotPnl
  <2> QED BY <1>1, <1>6, <2>1, BookSame
<1>8. NetOf(ms) = NetOf(books)
  <2>1. 0 \in Int
    OBVIOUS
  <2> QED BY <1>7, <2>1
<1>9. PositionPnl(row, price) \in Int
  BY <1>1, RowIsWhole
<1>10. PnlTyped'
  BY <1>1, <1>3, <1>4, <1>6, <1>9 DEF PnlTyped
<1>11. ASSUME row.net = NetOf(books), ~adopted, NEW q \in Int
       PROVE  PnlOf(ms, q) = past' + PositionPnl(row', q)
  <2>1. PnlOf(ms, q) = past + PositionPnl(row, q) /\ PositionPnl(row, q) \in Int
    BY <1>1, <1>7, <1>11, RowIsWhole DEF PnlInv
  <2>2. PositionPnl(row', q) = PositionPnl(row, q) - PositionPnl(row, price)
    <3>1. PICK e \in Int, s \in Int, c \in Int, z \in Int, m \in Int, f \in Int, p \in Int :
            e = row.earned /\ s = row.spent /\ c = row.carried /\ z = row.settled /\ m = row.net /\ f = Factor /\ p = price
      BY <1>1, <1>2, FactorIsWhole
    <3>2. m * row'.settled = m * p
      <4>1. CASE m = 0
        <5>1. 0 * row'.settled = 0 * p
          BY <1>3, <3>1, <4>1
        <5> QED BY <4>1, <5>1
      <4>2. CASE m # 0
        BY <1>3, <3>1, <4>2
      <4> QED BY <4>1, <4>2
    <3>3. PositionPnl(row', q) = (0 - 0 - m * p + m * q) * f
      BY <1>3, <3>1, <3>2 DEF PositionPnl, Closed
    <3>4. PositionPnl(row, q) = (e - s - c * z + m * q) * f /\ PositionPnl(row, price) = (e - s - c * z + m * p) * f
      BY <3>1 DEF PositionPnl, Closed
    <3>5. (0 - 0 - m * p + m * q) * f = (e - s - c * z + m * q) * f - (e - s - c * z + m * p) * f
      BY RowMoves
    <3> QED BY <3>3, <3>4, <3>5
  <2> QED BY <1>1, <1>9, <2>1, <2>2
<1>12. books' = ms
  BY <1>1, <1>4
<1>13. row'.spent + row'.earned = 0 => row'.net = row'.carried
  BY <1>3
<1>14. row'.net = NetOf(books') /\ ~adopted' => \A q \in Int : PnlOf(books', q) = past' + PositionPnl(row', q)
  <2>1. row'.net = NetOf(books') /\ ~adopted' => row.net = NetOf(books) /\ ~adopted
    BY <1>1, <1>3, <1>8, <1>12
  <2> QED BY <1>11, <1>12, <2>1
<1> QED BY <1>3, <1>10, <1>13, <1>14 DEF PnlInv

\* An exact quotient.
LEMMA ExactQuotient ==
  ASSUME NEW a \in Int, NEW b \in Int, b > 0
  PROVE  (a * b) \div b = a
BY SMT

LEMMA QuotientIsWhole ==
  ASSUME NEW a \in Int, NEW b \in Int, b > 0
  PROVE  a \div b \in Int
BY SMT

LEMMA PositiveProduct ==
  ASSUME NEW a \in Int, NEW b \in Int, a > 0, b > 0
  PROVE  a * b \in Int /\ a * b > 0
BY SMT

LEMMA DerivedIsWhole ==
  ASSUME row \in RowType, row.net # 0, NEW price \in Int
  PROVE  Derived(price) \in Int
<1>1. row.net \in Int /\ PositionPnl(row, price) \in Int /\ -PositionPnl(row, price) \in Int
  BY RowIsWhole DEF RowType
<1>2. CASE row.net > 0
  <2>1. row.net * Factor \in Int /\ row.net * Factor > 0
    BY <1>1, <1>2, FactorIsWhole, PositiveProduct
  <2>2. PositionPnl(row, price) \div (row.net * Factor) \in Int
    BY <1>1, <2>1, QuotientIsWhole
  <2> QED BY <1>2, <2>2 DEF Derived
<1>3. CASE ~(row.net > 0)
  <2>1. -row.net * Factor \in Int /\ -row.net * Factor > 0
    <3>1. -row.net \in Int /\ -row.net > 0
      BY <1>1, <1>3
    <3>2. PICK m \in Int, f \in Int : m = -row.net /\ f = Factor /\ f > 0 /\ m > 0
      BY <3>1, FactorIsWhole
    <3>3. m * f \in Int /\ m * f > 0
      BY <3>2, PositiveProduct
    <3>4. PICK n \in Int : n = row.net /\ n = -m
      BY <1>1, <3>2
    <3>5. -n * f = m * f
      BY <3>4, SMT
    <3> QED BY <3>2, <3>3, <3>4, <3>5
  <2>2. (-PositionPnl(row, price)) \div (-row.net * Factor) \in Int
    BY <1>1, <2>1, QuotientIsWhole
  <2> QED BY <1>3, <2>2 DEF Derived
<1> QED BY <1>2, <1>3

\* On a day without trades the price derived from the P&L is the settlement.
LEMMA DerivedIsSettled ==
  ASSUME row \in RowType, row.net # 0, row.net = row.carried, row.spent = 0, row.earned = 0, NEW price \in Int
  PROVE  Derived(price) = row.settled
<1>1. PICK n \in Int, z \in Int, f \in Int : n = row.net /\ z = row.settled /\ f = Factor /\ f > 0
  BY FactorIsWhole DEF RowType
<1>2. PositionPnl(row, price) = (0 - 0 - n * z + n * price) * f
  BY <1>1 DEF PositionPnl, Closed
<1>3. (0 - 0 - n * z + n * price) * f = (price - z) * (n * f) /\ -((0 - 0 - n * z + n * price) * f) = (price - z) * (-n * f)
  BY SMT
<1>4. CASE n > 0
  <2>1. n * f \in Int /\ n * f > 0
    BY <1>1, <1>4, PositiveProduct
  <2>2. ((price - z) * (n * f)) \div (n * f) = price - z
    BY <2>1, ExactQuotient
  <2>3. Derived(price) = price - ((price - z) * (n * f)) \div (n * f)
    BY <1>1, <1>2, <1>3, <1>4 DEF Derived
  <2> QED BY <1>1, <2>2, <2>3
<1>5. CASE ~(n > 0)
  <2>1. -n * f \in Int /\ -n * f > 0
    <3>1. -n \in Int /\ -n > 0
      BY <1>1, <1>5
    <3> QED BY <1>1, <3>1, PositiveProduct
  <2>2. ((price - z) * (-n * f)) \div (-n * f) = price - z
    BY <2>1, ExactQuotient
  <2>3. Derived(price) = price - ((price - z) * (-n * f)) \div (-n * f)
    BY <1>1, <1>2, <1>3, <1>5 DEF Derived
  <2> QED BY <1>1, <2>2, <2>3
<1> QED BY <1>4, <1>5

\* The sync turns what the lots do not explain into a lot.
LEMMA SyncKeeps ==
  ASSUME PnlInv, SyncsPosition
  PROVE  PnlInv'
<1>1. PICK price \in Marks :
        /\ Derived(price) > 0
        /\ books' = Append(books, NewLotAt(row.net - NetOf(books) > 0,
                                           IF row.net - NetOf(books) > 0 THEN row.net - NetOf(books) ELSE -(row.net - NetOf(books)),
                                           Derived(price)))
  BY DEF SyncsPosition
<1>2. /\ row.net # 0 /\ row.net # NetOf(books) /\ row' = row /\ past' = past
      /\ adopted' = (adopted \/ books # <<>> \/ past # 0)
      /\ row \in RowType /\ books \in Seq(DayLot) /\ past \in Int /\ adopted \in BOOLEAN
  BY DEF SyncsPosition, PnlInv, PnlTyped
<1>3. NetOf(books) \in Int /\ row.net \in Int
  <2>1. 0 \in Int
    OBVIOUS
  <2>2. NetOf(books) \in Int
    BY <1>2, <2>1, BookSums
  <2> QED BY <1>2, <2>2 DEF RowType
<1>4. PICK d \in Int : d = row.net - NetOf(books)
  BY <1>3
<1>5. PICK buy \in BOOLEAN, n \in Nat : buy = (d > 0) /\ n = (IF d > 0 THEN d ELSE -d) /\ Side(buy) * n = d
  <2>1. PICK n \in Nat : n = (IF d > 0 THEN d ELSE -d)
    BY <1>4
  <2>2. CASE d > 0
    <3>1. Side(TRUE) * n = d /\ (d > 0) = TRUE
      BY <2>1, <2>2 DEF Side
    <3> QED BY <2>1, <3>1
  <2>3. CASE ~(d > 0)
    <3>1. Side(FALSE) * n = d /\ (d > 0) = FALSE
      BY <2>1, <2>3 DEF Side
    <3> QED BY <2>1, <3>1
  <2> QED BY <2>2, <2>3
<1>6. price \in Int /\ Derived(price) \in Int
  <2>1. price \in Int
    BY PricesAreWhole
  <2> QED BY <1>2, <2>1, DerivedIsWhole
<1>7. PICK p \in Int : p = Derived(price)
  BY <1>6
<1>8. books' = Append(books, NewLotAt(buy, n, p))
  <2>1. books' = Append(books, NewLotAt(d > 0, IF d > 0 THEN d ELSE -d, p))
    BY <1>1, <1>4, <1>7
  <2> QED BY <1>5, <2>1
<1>9. PICK ms : ms = Append(books, NewLotAt(buy, n, p))
  OBVIOUS
<1>10. Moves(books, ms, d, p)
  BY <1>2, <1>5, <1>9, AddedMoves
<1>11. books' = ms /\ ms \in Seq(DayLot) /\ ms # <<>> /\ NetOf(ms) = row.net
  <2>1. ms \in Seq(DayLot) /\ ms # <<>> /\ NetOf(ms) = NetOf(books) + d
    BY <1>10 DEF Moves
  <2>2. NetOf(ms) = row.net
    BY <1>3, <1>4, <2>1
  <2>3. books' = ms
    BY <1>8, <1>9
  <2> QED BY <2>1, <2>2, <2>3
<1>12. PnlTyped'
  BY <1>2, <1>11 DEF PnlTyped
<1>13. row'.spent + row'.earned = 0 => row'.net = row'.carried
  BY <1>2 DEF PnlInv
<1>14. ASSUME ~adopted', NEW q \in Int PROVE PnlOf(ms, q) = past + PositionPnl(row, q)
  <2>1. books = <<>> /\ past = 0
    BY <1>2, <1>14
  <2>2. row.spent = 0 /\ row.earned = 0 /\ row.net = row.carried
    BY <1>2, <2>1 DEF PnlInv
  <2>3. p = row.settled
    BY <1>2, <1>6, <1>7, <2>2, DerivedIsSettled
  <2>4. PnlOf(books, q) = 0 /\ NetOf(books) = 0
    BY <2>1, EmptyBook
  <2>5. PICK x \in Int : x = (q - p) * d * Factor
    BY FactorIsWhole, SMT
  <2>6. PnlOf(ms, q) = x
    BY <1>10, <2>4, <2>5 DEF Moves
  <2>7. PositionPnl(row, q) = x
    <3>1. PICK z \in Int, f \in Int : z = row.settled /\ z = p /\ f = Factor
      BY <2>3, FactorIsWhole
    <3>2. row.net = d
      BY <1>3, <1>4, <2>4
    <3>3. PositionPnl(row, q) = (0 - 0 - d * z + d * q) * f
      BY <2>2, <3>1, <3>2 DEF PositionPnl, Closed
    <3>4. (0 - 0 - d * z + d * q) * f = (q - z) * d * f
      BY SMT
    <3> QED BY <2>5, <3>1, <3>3, <3>4
  <2> QED BY <2>1, <2>6, <2>7
<1>15. \A q \in Int : row'.net = NetOf(books') /\ ~adopted' => PnlOf(books', q) = past' + PositionPnl(row', q)
  BY <1>2, <1>11, <1>14
<1> QED BY <1>11, <1>12, <1>13, <1>15 DEF PnlInv

LEMMA PnlStarts == PnlInit => PnlInv
<1> SUFFICES ASSUME PnlInit PROVE PnlInv
  OBVIOUS
<1>1. books = <<>> /\ past = 0 /\ adopted = FALSE /\ MaxHeld \in Nat
  BY DayPnlAssumption DEF PnlInit
<1>2. PICK n \in Int, z \in Int : row = [net |-> n, carried |-> n, settled |-> z, spent |-> 0, earned |-> 0] /\ (n = 0 => z = 0)
  <2>1. CASE row = Flat
    BY <2>1 DEF Flat
  <2>2. CASE row # Flat
    <3>1. PICK n \in (-MaxHeld..MaxHeld) \ {0}, p \in Marks : row = [Flat EXCEPT !.net = n, !.carried = n, !.settled = p]
      BY <2>2 DEF PnlInit
    <3>2. n \in Int /\ p \in Int /\ n # 0
      BY <1>1, PricesAreWhole
    <3>3. row = [net |-> n, carried |-> n, settled |-> p, spent |-> 0, earned |-> 0]
      BY <3>1 DEF Flat
    <3> QED BY <3>2, <3>3
  <2> QED BY <2>1, <2>2
<1>3. row \in RowType /\ row.net = n /\ row.carried = n /\ row.settled = z /\ row.spent = 0 /\ row.earned = 0
  BY <1>2 DEF RowType
<1>4. books \in Seq(DayLot) /\ \A q : NetOf(books) = 0 /\ PnlOf(books, q) = 0
  BY <1>1, EmptyBook
<1>5. NetOf(books) = 0
  BY <1>4
<1>6. n = 0 => \A q \in Int : PositionPnl(row, q) = 0
  <2> SUFFICES ASSUME n = 0, NEW q \in Int PROVE PositionPnl(row, q) = 0
    OBVIOUS
  <2>1. PositionPnl(row, q) = (0 - 0 - 0 * 0 + 0 * q) * Factor
    BY <1>2, <1>3 DEF PositionPnl, Closed
  <2> QED BY <2>1, FactorIsWhole
<1>7. PnlTyped
  <2>1. adopted \in BOOLEAN
    BY <1>1, Zenon
  <2>2. past \in Int
    BY <1>1
  <2> QED BY <1>3, <1>4, <2>1, <2>2 DEF PnlTyped
<1> QED BY <1>1, <1>3, <1>4, <1>5, <1>6, <1>7 DEF PnlInv

LEMMA PnlGoesOn == PnlInv /\ [PnlNext]_pnlVars => PnlInv'
<1> SUFFICES ASSUME PnlInv, [PnlNext]_pnlVars PROVE PnlInv'
  OBVIOUS
<1>0. books \in Seq(DayLot) /\ \A n \in 1..MaxHeld : n \in Nat \ {0}
  BY DayPnlAssumption DEF PnlInv, PnlTyped
<1>1. ASSUME NEW buy \in BOOLEAN, NEW n \in 1..MaxHeld, NEW price \in Marks, EntryFills(buy, n, price) PROVE PnlInv'
  <2>1. Traded(buy, n, price) /\ books' = OffsetAll(Append(books, NewLotAt(buy, n, price)))
    BY <1>1 DEF EntryFills
  <2>2. Moves(books, Append(books, NewLotAt(buy, n, price)), Side(buy) * n, price)
    BY <1>0, PricesAreWhole, AddedMoves
  <2>3. Moves(books, books', Side(buy) * n, price)
    BY <2>1, <2>2, OffsetMoves
  <2> QED BY <2>1, <2>3, TradeKeeps
<1>2. ASSUME NEW buy \in BOOLEAN, NEW n \in 1..MaxHeld, NEW price \in Marks, OutsideFills(buy, n, price) PROVE PnlInv'
  <2>1. PICK done : done = CloseOldest(books, buy, n, price)
    OBVIOUS
  <2>2. PICK ms : ms = IF done.left = 0 THEN done.ls ELSE Append(done.ls, NewLotAt(buy, done.left, price))
    OBVIOUS
  <2>3. Traded(buy, n, price) /\ books' = OffsetAll(ms)
    BY <1>2, <2>1, <2>2 DEF OutsideFills
  <2>4. Moves(books, ms, Side(buy) * n, price)
    BY <1>0, <2>1, <2>2, PricesAreWhole, OutsideMoves
  <2>5. Moves(books, books', Side(buy) * n, price)
    BY <2>3, <2>4, OffsetMoves
  <2> QED BY <2>3, <2>5, TradeKeeps
<1>3. ASSUME NEW i \in DOMAIN books, NEW n \in 1..MaxHeld, NEW price \in Marks, ExitFills(i, n, price) PROVE PnlInv'
  <2>1. n <= books[i].open /\ Traded(~books[i].buy, n, price) /\ books' = OffsetAll([books EXCEPT ![i] = LessOf(@, n, price)])
    BY <1>3 DEF ExitFills
  <2>2. PICK buy \in BOOLEAN : buy = ~books[i].buy
    OBVIOUS
  <2>3. Moves(books, [books EXCEPT ![i] = LessOf(@, n, price)], Side(buy) * n, price)
    BY <1>0, <2>1, <2>2, PricesAreWhole, ExitMoves
  <2>4. Moves(books, books', Side(buy) * n, price)
    BY <2>1, <2>3, OffsetMoves
  <2> QED BY <2>1, <2>2, <2>4, TradeKeeps
<1>4. CASE UNCHANGED pnlVars
  BY <1>4 DEF PnlInv, PnlTyped, pnlVars
<1>5. CASE PnlNext
  BY <1>1, <1>2, <1>3, <1>5, SyncKeeps, NightKeeps DEF PnlNext
<1> QED BY <1>4, <1>5

-----------------------------------------------------------------------------
(* What the day moved                                                      *)

LEMMA MoveScales ==
  ASSUME NEW c \in Int, NEW f \in Int, NEW s \in Int
  PROVE  c * s * f = (c * f) * s /\ c * f \in Int
BY SMT

\* Lots of earlier days move with the position.
LEMMA DayMoves ==
  ASSUME PnlInv, row.spent + row.earned = 0, row.net = NetOf(books), \A lot \in Range(books) : ~lot.fresh,
         NEW price \in Int
  PROVE  MtmOf(books, price) = PositionPnl(row, price)
<1>1. books \in Seq(DayLot) /\ row \in RowType /\ row.net = row.carried
  BY DEF PnlInv, PnlTyped
<1>2. PICK z \in Int, n \in Int : z = row.settled /\ n = row.net /\ row.spent = 0 /\ row.earned = 0
  BY <1>1 DEF RowType
<1>3. PICK c \in Int : c = (price - z) * Factor
  BY <1>2, FactorIsWhole, MoveScales
<1> DEFINE f == [i \in DOMAIN books |-> Signed(books[i])]
           g == [i \in DOMAIN books |-> LotMtm(books[i], price)]
           S == DOMAIN books
<1>4. \A i \in S : f[i] \in Int /\ g[i] = c * f[i]
  <2> SUFFICES ASSUME NEW i \in S PROVE Signed(books[i]) \in Int /\ LotMtm(books[i], price) = c * Signed(books[i])
    OBVIOUS
  <2>1. books[i] \in DayLot /\ books[i] \in Range(books)
    BY <1>1 DEF Range
  <2>2. PICK s \in Int : s = Signed(books[i])
    <3>1. 0 \in Int
      OBVIOUS
    <3> QED BY <2>1, <3>1, LotWorth
  <2>3. ~books[i].fresh /\ (books[i].open = 0 => s = 0)
    <3>1. ~books[i].fresh
      BY <2>1
    <3>2. books[i].open = 0 => s = 0
      <4>1. books[i].buy \in BOOLEAN
        BY <2>1 DEF DayLot
      <4>2. PICK t \in Int : t = Side(books[i].buy)
        BY <4>1 DEF Side
      <4>3. s = t * books[i].open
        BY <2>1, <2>2, <4>2, LotWorth
      <4>4. t * 0 = 0
        OBVIOUS
      <4> QED BY <4>3, <4>4
    <3> QED BY <3>1, <3>2
  <2>4. LotMtm(books[i], price) = IF books[i].open = 0 THEN 0 ELSE (price - z) * s * Factor
    BY <1>2, <2>2, <2>3 DEF LotMtm
  <2>5. (price - z) * s * Factor = c * s
    <3>1. PICK a \in Int, x \in Int : a = price - z /\ x = Factor
      BY FactorIsWhole
    <3>2. a * s * x = (a * x) * s
      BY MoveScales
    <3> QED BY <1>3, <3>1, <3>2
  <2>6. c * 0 = 0
    OBVIOUS
  <2>7. LotMtm(books[i], price) = c * s
    BY <2>3, <2>4, <2>5, <2>6
  <2> QED BY <2>2, <2>7
<1>5. MtmOf(books, price) = SumFunctionOnSet(g, S)
  BY DEF MtmOf, SumFunction
<1>6. IsFiniteSet(S) /\ NetOf(books) = SumFunctionOnSet(f, S)
  BY <1>1, BookSums
<1> HIDE DEF f, g, S
<1>7. SumFunctionOnSet(g, S) = c * SumFunctionOnSet(f, S)
  BY <1>4, <1>6, SumScaled
<1>8. MtmOf(books, price) = c * n
  BY <1>2, <1>5, <1>6, <1>7
<1>9. PositionPnl(row, price) = c * n
  <2>1. PICK x \in Int : x = Factor
    BY FactorIsWhole
  <2>2. PositionPnl(row, price) = (0 - 0 - n * z + n * price) * x
    BY <1>1, <1>2, <2>1 DEF PositionPnl, Closed
  <2>3. (0 - 0 - n * z + n * price) * x = ((price - z) * x) * n
    BY SMT
  <2> QED BY <1>3, <2>1, <2>2, <2>3
<1> QED BY <1>8, <1>9

\* The lots of the gateway and the position row of the broker agree on what was
\* made, at every price, through partial exits, exits of either side, netting
\* and an imported position (pnl.py, reconciliation.py).
THEOREM LotsAndPositionAgree == PnlSpec => []LotsMatchPosition
<1>1. PnlInv => LotsMatchPosition
  <2> SUFFICES ASSUME PnlInv, row.net = NetOf(books), ~adopted, NEW price \in Marks
               PROVE  /\ PnlOf(books, price) = past + PositionPnl(row, price)
                      /\ row.spent + row.earned = 0 /\ (\A lot \in Range(books) : ~lot.fresh)
                           => MtmOf(books, price) = PositionPnl(row, price)
    BY DEF LotsMatchPosition
  <2>1. price \in Int
    BY PricesAreWhole
  <2>2. PnlOf(books, price) = past + PositionPnl(row, price)
    BY <2>1 DEF PnlInv
  <2>3. row.spent + row.earned = 0 /\ (\A lot \in Range(books) : ~lot.fresh) => MtmOf(books, price) = PositionPnl(row, price)
    BY <2>1, DayMoves
  <2> QED BY <2>2, <2>3
<1> QED BY <1>1, PnlStarts, PnlGoesOn, PTL DEF PnlSpec

=============================================================================
