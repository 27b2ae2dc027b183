------------------------- MODULE DescriptorsProofs -------------------------
(***************************************************************************)
(* For any limit and any number of connections, the agent runs short of    *)
(* descriptors only after it has forgotten all it had to spare.  The books *)
(* are balanced: what is in use is what the acceptors and the connections  *)
(* hold, and what was forgotten.                                           *)
(***************************************************************************)
EXTENDS Descriptors, FiniteSetTheorems, TLAPS

Open == {h \in Connections : session[h] # "none"}
Busy == {h \in Connections : session[h] \in Transfers}

Balanced == used = Acceptors + start + Cardinality(Open) + Cardinality(Busy) + Lost

DescriptorsInv == TypeOK /\ Balanced /\ ShortOnlyIfForgotten

\* Parts of the set of sessions are finite and no larger than it.
LEMMA PartOfSessions ==
  ASSUME NEW S \in SUBSET Connections
  PROVE  /\ IsFiniteSet(S)
         /\ Cardinality(S) \in Nat /\ Cardinality(Connections) \in Nat
         /\ Cardinality(S) <= Cardinality(Connections)
BY DescriptorsAssumption, FS_Subset, FS_CardinalityType

\* A session that is not in a part adds one to it, and one that is takes one.
LEMMA OneMoreOrLess ==
  ASSUME NEW S \in SUBSET Connections, NEW h \in Connections
  PROVE  /\ h \notin S => Cardinality(S \cup {h}) = Cardinality(S) + 1
         /\ h \in S => Cardinality(S \ {h}) = Cardinality(S) - 1
<1>1. IsFiniteSet(S)
  BY PartOfSessions
<1> QED
  BY <1>1, FS_AddElement, FS_RemoveElement

\* What is forgotten is counted in numbers.
LEMMA LostIsNat ==
  ASSUME TypeOK
  PROVE  Lost \in Nat
<1>1. lost["kill"] \in Nat /\ lost["memory"] \in Nat /\ lost["abandoned"] \in Nat
  BY DEF TypeOK, Forgetful
<1> QED
  BY <1>1 DEF Lost

\* One more is forgotten.
LEMMA LoseOne ==
  ASSUME TypeOK, NEW k \in Forgetful, Lose(k)
  PROVE  lost' \in [Forgetful -> Nat] /\ Lost' = Lost + 1
<1>1. lost \in [Forgetful -> Nat]
  BY DEF TypeOK
<1>2. lost' \in [Forgetful -> Nat]
  BY <1>1 DEF Lose
<1>3. /\ k = "kill" => lost'["kill"] = lost["kill"] + 1
                       /\ lost'["memory"] = lost["memory"] /\ lost'["abandoned"] = lost["abandoned"]
      /\ k = "memory" => lost'["memory"] = lost["memory"] + 1
                       /\ lost'["kill"] = lost["kill"] /\ lost'["abandoned"] = lost["abandoned"]
      /\ k = "abandoned" => lost'["abandoned"] = lost["abandoned"] + 1
                       /\ lost'["kill"] = lost["kill"] /\ lost'["memory"] = lost["memory"]
  BY <1>1 DEF Lose, Forgetful
<1>4. lost["kill"] \in Nat /\ lost["memory"] \in Nat /\ lost["abandoned"] \in Nat
  BY <1>1 DEF Forgetful
<1> QED
  BY <1>2, <1>3, <1>4 DEF Lost, Forgetful

\* A step that changes what one session does changes the books by that session.
LEMMA OneSession ==
  ASSUME TypeOK, NEW h \in Connections, NEW v \in {"none", "idle"} \cup Transfers,
         session' = [session EXCEPT ![h] = v]
  PROVE  /\ session' \in [Connections -> {"none", "idle"} \cup Transfers]
         /\ Open' = IF v = "none" THEN Open \ {h} ELSE Open \cup {h}
         /\ Busy' = IF v \in Transfers THEN Busy \cup {h} ELSE Busy \ {h}
BY DEF TypeOK, Open, Busy, Transfers

\* Whoever wants more than there is finds that as much has been forgotten.
LEMMA ShortMeansForgotten ==
  ASSUME TypeOK, Balanced, NEW n \in Nat, n <= Passing, ~Fits(n)
  PROVE  Lost > Spare
<1>1. /\ Cardinality(Open) \in Nat /\ Cardinality(Open) <= Cardinality(Connections)
      /\ Cardinality(Busy) \in Nat /\ Cardinality(Busy) <= Cardinality(Connections)
      /\ Cardinality(Connections) \in Nat
  BY PartOfSessions DEF Open, Busy
<1>2. Lost \in Nat /\ start \in Nat /\ used \in Nat /\ Limit \in Nat /\ Passing \in Nat
  BY LostIsNat, DescriptorsAssumption DEF TypeOK, Acceptors, Passing
<1> QED
  BY <1>1, <1>2 DEF Balanced, Fits, Spare, Acceptors

\* What a change of one session does to the two numbers in the books.
LEMMA Held ==
  ASSUME TypeOK, NEW h \in Connections, NEW v \in {"none", "idle"} \cup Transfers,
         session' = [session EXCEPT ![h] = v]
  PROVE  /\ Cardinality(Open') \in Nat /\ Cardinality(Busy') \in Nat
         /\ session[h] = "none" /\ v = "idle" =>
              /\ Cardinality(Open') = Cardinality(Open) + 1
              /\ Cardinality(Busy') = Cardinality(Busy)
         /\ session[h] = "idle" /\ v \in Transfers =>
              /\ Cardinality(Open') = Cardinality(Open)
              /\ Cardinality(Busy') = Cardinality(Busy) + 1
         /\ session[h] \in Transfers /\ v = "idle" =>
              /\ Cardinality(Open') = Cardinality(Open)
              /\ Cardinality(Busy') = Cardinality(Busy) - 1
         /\ session[h] = "idle" /\ v = "none" =>
              /\ Cardinality(Open') = Cardinality(Open) - 1
              /\ Cardinality(Busy') = Cardinality(Busy)
         /\ session[h] \in Transfers /\ v = "none" =>
              /\ Cardinality(Open') = Cardinality(Open) - 1
              /\ Cardinality(Busy') = Cardinality(Busy) - 1
<1>1. Open \in SUBSET Connections /\ Busy \in SUBSET Connections
      /\ Open' \in SUBSET Connections /\ Busy' \in SUBSET Connections
  BY DEF Open, Busy
<1>2. /\ Open' = IF v = "none" THEN Open \ {h} ELSE Open \cup {h}
      /\ Busy' = IF v \in Transfers THEN Busy \cup {h} ELSE Busy \ {h}
  BY OneSession
<1>3. /\ h \in Open <=> session[h] # "none"
      /\ h \in Busy <=> session[h] \in Transfers
  BY DEF Open, Busy
<1>4. /\ session[h] \in Transfers => session[h] # "none"
      /\ "none" \notin Transfers /\ "idle" \notin Transfers
  BY DEF Transfers
<1>5. Cardinality(Open') \in Nat /\ Cardinality(Busy') \in Nat
  BY <1>1, PartOfSessions
<1>6. /\ h \notin Open => Cardinality(Open \cup {h}) = Cardinality(Open) + 1
      /\ h \in Open => Cardinality(Open \ {h}) = Cardinality(Open) - 1
      /\ h \notin Busy => Cardinality(Busy \cup {h}) = Cardinality(Busy) + 1
      /\ h \in Busy => Cardinality(Busy \ {h}) = Cardinality(Busy) - 1
  BY <1>1, OneMoreOrLess
<1>7. /\ h \in Open => Open \cup {h} = Open
      /\ h \notin Busy => Busy \ {h} = Busy
  OBVIOUS
<1>8. CASE v = "none"
  BY <1>2, <1>3, <1>4, <1>5, <1>6, <1>7, <1>8
<1>9. CASE v = "idle"
  BY <1>2, <1>3, <1>4, <1>5, <1>6, <1>7, <1>9
<1>10. CASE v \in Transfers
  BY <1>2, <1>3, <1>4, <1>5, <1>6, <1>7, <1>10
<1> QED
  BY <1>8, <1>9, <1>10

\* A call that refuses or crashes for want of up to Passing descriptors.
LEMMA ShortStep ==
  ASSUME DescriptorsInv, NEW n \in Nat, n <= Passing, ~Fits(n), UseNull \/ Refuse
  PROVE  DescriptorsInv'
<1>1. Lost > Spare
  BY ShortMeansForgotten DEF DescriptorsInv
<1>2. UNCHANGED <<session, used, start, lost>>
  BY DEF UseNull, Refuse
<1>3. crashed' \in BOOLEAN /\ refused' \in BOOLEAN
  BY DEF UseNull, Refuse, DescriptorsInv, TypeOK
<1>4. TypeOK'
  BY <1>2, <1>3 DEF DescriptorsInv, TypeOK
<1>5. Balanced'
  BY <1>2 DEF DescriptorsInv, Balanced, Open, Busy, Lost
<1>6. Lost' > Spare'
  BY <1>1, <1>2 DEF Lost, Spare
<1> QED
  BY <1>4, <1>5, <1>6 DEF DescriptorsInv, ShortOnlyIfForgotten

\* A call that is neither, and leaves the books balanced.
LEMMA QuietStep ==
  ASSUME DescriptorsInv, TypeOK', Balanced',
         Lost' >= Lost, UNCHANGED <<start, crashed, refused>>
  PROVE  DescriptorsInv'
<1>1. Lost \in Nat /\ Lost' \in Nat
  BY LostIsNat, DescriptorsInv DEF DescriptorsInv, TypeOK, Lost, Forgetful
<1>2. Spare' = Spare
  BY DEF Spare, Passing
<1>3. Spare \in Int
  <2>1. Cardinality(Connections) \in Nat
    BY PartOfSessions
  <2> QED
    BY <2>1, DescriptorsAssumption DEF Spare, Passing, Acceptors, DescriptorsInv, TypeOK
<1> QED
  BY <1>1, <1>2, <1>3 DEF DescriptorsInv, ShortOnlyIfForgotten

\* The two helpers fit into what one call may need.
LEMMA PassingIsEnough ==
  /\ Passing \in Nat /\ 2 <= Passing /\ 1 <= Passing
  /\ \A n \in 1 .. Depth : n \in Nat /\ n <= Passing
BY DescriptorsAssumption DEF Passing

LEMMA BooksAtFirst == DescriptorsInit => DescriptorsInv
<1> SUFFICES ASSUME DescriptorsInit PROVE DescriptorsInv
  OBVIOUS
<1>1. Open = {} /\ Busy = {}
  BY DEF DescriptorsInit, Open, Busy, Transfers
<1>2. Cardinality(Open) = 0 /\ Cardinality(Busy) = 0
  BY <1>1, FS_EmptySet
<1>3. Lost = 0
  BY DEF DescriptorsInit, Lost, Forgetful
<1>4. start \in Nat /\ used = Acceptors + start
  BY DescriptorsAssumption DEF DescriptorsInit
<1>5. TypeOK
  <2>1. start \in 0 .. AtStart /\ used \in Acceptors .. Limit
    BY DescriptorsAssumption DEF DescriptorsInit, Acceptors
  <2>2. /\ session \in [Connections -> {"none", "idle"} \cup Transfers]
        /\ lost \in [Forgetful -> Nat]
    BY DEF DescriptorsInit
  <2>3. crashed \in BOOLEAN /\ refused \in BOOLEAN
    BY DEF DescriptorsInit
  <2> QED
    BY <2>1, <2>2, <2>3 DEF TypeOK
<1>6. Balanced
  BY <1>2, <1>3, <1>4 DEF Balanced, Acceptors
<1> QED
  BY <1>5, <1>6 DEF DescriptorsInit, DescriptorsInv, ShortOnlyIfForgotten

\* The books stay balanced by what a step says it does to `used`.
LEMMA TypeFromBooks ==
  ASSUME DescriptorsInv, Balanced', Lost' \in Nat, UNCHANGED start,
         Cardinality(Open') \in Nat, Cardinality(Busy') \in Nat
  PROVE  used' \in Nat /\ Acceptors <= used'
BY DescriptorsAssumption DEF DescriptorsInv, TypeOK, Balanced, Acceptors

LEMMA BooksKept == DescriptorsInv /\ [DescriptorsNext]_descriptorsVars => DescriptorsInv'
<1> SUFFICES ASSUME DescriptorsInv, [DescriptorsNext]_descriptorsVars PROVE DescriptorsInv'
  OBVIOUS
<1> USE PassingIsEnough
<1>0. /\ TypeOK /\ Balanced
      /\ Cardinality(Open) \in Nat /\ Cardinality(Busy) \in Nat
      /\ Lost \in Nat /\ start \in Nat /\ used \in Nat /\ used <= Limit /\ Limit \in Nat
  BY PartOfSessions, LostIsNat, DescriptorsAssumption
     DEF DescriptorsInv, Open, Busy, TypeOK, Acceptors
<1>1. ASSUME NEW h \in Connections, Accept(h) PROVE DescriptorsInv'
  <2>1. CASE ~Fits(1) /\ UseNull
    BY <2>1, ShortStep
  <2>2. CASE Fits(1) /\ session' = [session EXCEPT ![h] = "idle"] /\ used' = used + 1
             /\ UNCHANGED <<crashed, start, lost, refused>>
    <3>1. /\ Cardinality(Open') = Cardinality(Open) + 1
          /\ Cardinality(Busy') = Cardinality(Busy)
      BY <1>0, <1>1, <2>2, Held DEF Accept
    <3>2. Lost' = Lost
      BY <2>2 DEF Lost
    <3>3. Balanced'
      BY <1>0, <2>2, <3>1, <3>2 DEF Balanced, Acceptors
    <3>4. TypeOK'
      BY <1>0, <2>2, <3>1, <3>2, <3>3, TypeFromBooks, OneSession DEF TypeOK, Fits
    <3> QED
      BY <1>0, <2>2, <3>2, <3>3, <3>4, QuietStep
  <2> QED
    BY <1>1, <2>1, <2>2 DEF Accept
<1>2. ASSUME NEW h \in Connections, NEW k \in Transfers, Begin(h, k) PROVE DescriptorsInv'
  <2>0. Needs[k] \in Nat /\ Needs[k] <= Passing /\ Needs[k] >= 1
    BY DEF Needs, Transfers
  <2>1. CASE ~Fits(Needs[k]) /\ Refuse
    BY <2>0, <2>1, ShortStep
  <2>2. CASE Fits(Needs[k]) /\ session' = [session EXCEPT ![h] = k] /\ used' = used + 1
             /\ UNCHANGED <<crashed, start, lost, refused>>
    <3>1. /\ Cardinality(Open') = Cardinality(Open)
          /\ Cardinality(Busy') = Cardinality(Busy) + 1
      BY <1>0, <1>2, <2>2, Held DEF Begin
    <3>2. Lost' = Lost
      BY <2>2 DEF Lost
    <3>3. Balanced'
      BY <1>0, <2>2, <3>1, <3>2 DEF Balanced, Acceptors
    <3>4. used + 1 <= Limit
      BY <1>0, <2>0, <2>2 DEF Fits
    <3>5. TypeOK'
      BY <1>0, <2>2, <3>1, <3>2, <3>3, <3>4, TypeFromBooks, OneSession DEF TypeOK
    <3> QED
      BY <1>0, <2>2, <3>2, <3>3, <3>5, QuietStep
  <2> QED
    BY <1>2, <2>1, <2>2 DEF Begin
<1>3. ASSUME NEW h \in Connections, Complete(h) PROVE DescriptorsInv'
  <2>1. /\ Cardinality(Open') = Cardinality(Open)
        /\ Cardinality(Busy') = Cardinality(Busy) - 1
        /\ Cardinality(Busy') \in Nat
    BY <1>0, <1>3, Held DEF Complete
  <2>2. Lost' = Lost
    BY <1>3 DEF Complete, Lost
  <2>3. Balanced'
    BY <1>0, <1>3, <2>1, <2>2 DEF Complete, Balanced, Acceptors
  <2>4. TypeOK'
    BY <1>0, <1>3, <2>1, <2>2, <2>3, TypeFromBooks, OneSession DEF Complete, TypeOK
  <2> QED
    BY <1>0, <1>3, <2>2, <2>3, <2>4, QuietStep DEF Complete
<1>4. ASSUME NEW h \in Connections, Leave(h) PROVE DescriptorsInv'
  <2>1. /\ Cardinality(Open') = Cardinality(Open) - 1
        /\ Cardinality(Open') \in Nat
        /\ Cardinality(Busy') = Cardinality(Busy)
    BY <1>0, <1>4, Held DEF Leave
  <2>2. Lost' = Lost
    BY <1>4 DEF Leave, Lost
  <2>3. Balanced'
    BY <1>0, <1>4, <2>1, <2>2 DEF Leave, Balanced, Acceptors
  <2>4. TypeOK'
    BY <1>0, <1>4, <2>1, <2>2, <2>3, TypeFromBooks, OneSession DEF Leave, TypeOK
  <2> QED
    BY <1>0, <1>4, <2>2, <2>3, <2>4, QuietStep DEF Leave
<1>5. ASSUME NEW h \in Connections, NEW k \in Transfers, Abandon(h, k) PROVE DescriptorsInv'
  <2>0. lost' \in [Forgetful -> Nat] /\ Lost' = Lost + 1
    BY <1>0, <1>5, LoseOne DEF Abandon, Forgetful
  <2>1. /\ Cardinality(Open') = Cardinality(Open) - 1
        /\ Cardinality(Open') \in Nat /\ Cardinality(Busy') \in Nat
        /\ session[h] = "push" => Cardinality(Busy') = Cardinality(Busy) - 1
        /\ session[h] = "idle" => Cardinality(Busy') = Cardinality(Busy)
    BY <1>0, <1>5, Held DEF Abandon, Transfers
  <2>2. \/ session[h] = "push" /\ used' = used - 1
        \/ session[h] = "idle" /\ used' = used
    BY <1>5 DEF Abandon
  <2>3. Balanced'
    BY <1>0, <1>5, <2>0, <2>1, <2>2 DEF Abandon, Balanced, Acceptors
  <2>4. used' \in Nat /\ Acceptors <= used' /\ used' <= Limit
    BY <1>0, <1>5, <2>0, <2>1, <2>2, <2>3, TypeFromBooks DEF Abandon
  <2>5. TypeOK'
    BY <1>0, <1>5, <2>0, <2>4, OneSession DEF Abandon, TypeOK, Acceptors
  <2> QED
    BY <1>0, <1>5, <2>0, <2>3, <2>5, QuietStep DEF Abandon
<1>6. CASE Memory
  <2>1. CASE ~Fits(1) /\ Refuse
    BY <2>1, ShortStep
  <2>2. CASE Fits(1) /\ used' = used + 1 /\ Lose("memory")
             /\ UNCHANGED <<session, crashed, start, refused>>
    <3>1. lost' \in [Forgetful -> Nat] /\ Lost' = Lost + 1
      BY <1>0, <2>2, LoseOne DEF Forgetful
    <3>2. Open' = Open /\ Busy' = Busy
      BY <2>2 DEF Open, Busy
    <3>3. Balanced'
      BY <1>0, <2>2, <3>1, <3>2 DEF Balanced, Acceptors
    <3>4. TypeOK'
      BY <1>0, <2>2, <3>1, <3>3 DEF TypeOK, Fits, Acceptors
    <3> QED
      BY <1>0, <2>2, <3>1, <3>3, <3>4, QuietStep
  <2> QED
    BY <1>6, <2>1, <2>2 DEF Memory
<1>7. CASE Kill
  <2>1. CASE ~Fits(1) /\ UseNull
    BY <2>1, ShortStep
  <2>2. CASE Fits(1) /\ used' = used + 1 /\ Lose("kill") /\ refused' = (refused \/ ~Fits(2))
             /\ UNCHANGED <<session, crashed, start>>
    <3>1. lost' \in [Forgetful -> Nat] /\ Lost' = Lost + 1
      BY <1>0, <2>2, LoseOne DEF Forgetful
    <3>2. Open' = Open /\ Busy' = Busy
      BY <2>2 DEF Open, Busy
    <3>3. Balanced'
      BY <1>0, <2>2, <3>1, <3>2 DEF Balanced, Acceptors
    <3>4. refused' \in BOOLEAN
      BY <1>0, <2>2 DEF TypeOK
    <3>5. TypeOK'
      BY <1>0, <2>2, <3>1, <3>3, <3>4 DEF TypeOK, Fits, Acceptors
    <3>6. CASE Fits(2)
      <4>1. refused' = refused
        BY <1>0, <2>2, <3>6 DEF TypeOK
      <4> QED
        BY <1>0, <2>2, <3>1, <3>3, <3>5, <4>1, QuietStep
    <3>7. CASE ~Fits(2)
      <4>1. Lost > Spare
        BY <1>0, <3>7, ShortMeansForgotten
      <4>2. Spare' = Spare
        BY <2>2 DEF Spare, Passing
      <4>3. Spare \in Int
        <5>1. Cardinality(Connections) \in Nat
          BY PartOfSessions
        <5> QED
          BY <1>0, <5>1 DEF Spare, Acceptors
      <4>4. Lost' > Spare'
        BY <1>0, <3>1, <4>1, <4>2, <4>3
      <4> QED
        BY <3>3, <3>5, <4>4 DEF DescriptorsInv, ShortOnlyIfForgotten
    <3> QED
      BY <3>6, <3>7
  <2> QED
    BY <1>7, <2>1, <2>2 DEF Kill
<1>8. CASE Query
  BY <1>8, ShortStep DEF Query, Queries
<1>9. CASE Directories
  BY <1>9, ShortStep DEF Directories
<1>10. CASE UNCHANGED descriptorsVars
  BY <1>10 DEF descriptorsVars, DescriptorsInv, TypeOK, Balanced, ShortOnlyIfForgotten, Open, Busy, Lost,
     Spare, Passing
<1> QED
  BY <1>1, <1>2, <1>3, <1>4, <1>5, <1>6, <1>7, <1>8, <1>9, <1>10 DEF DescriptorsNext

\* Descriptors stay within the limit, and every variable keeps its type.
THEOREM WithinLimit == DescriptorsSpec => []TypeOK
<1>1. DescriptorsSpec => []DescriptorsInv
  BY BooksAtFirst, BooksKept, PTL DEF DescriptorsSpec
<1>2. DescriptorsInv => TypeOK
  BY DEF DescriptorsInv
<1> QED
  BY <1>1, <1>2, PTL

\* Agents that are not made to forget descriptors never run short of them.
THEOREM ShortIfForgotten == DescriptorsSpec => []ShortOnlyIfForgotten
<1>1. DescriptorsSpec => []DescriptorsInv
  BY BooksAtFirst, BooksKept, PTL DEF DescriptorsSpec
<1>2. DescriptorsInv => ShortOnlyIfForgotten
  BY DEF DescriptorsInv
<1> QED
  BY <1>1, <1>2, PTL
=============================================================================
