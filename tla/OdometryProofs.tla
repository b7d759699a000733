---- MODULE OdometryProofs ----
(***************************************************************************)
(* What holds of Odometry for every distance to a block and every bound on *)
(* the wheels, from one inductive invariant, OdometryInv.                  *)
(***************************************************************************)
EXTENDS Odometry, TLAPS

\* The counts of a side; arithmetic is done on these.
LEMMA Counts ==
    ASSUME TypeOK, NEW s \in Sides
    PROVE  /\ distance[s] \in Nat /\ falls[s] \in Nat
           /\ rises[s] \in Nat /\ edges[s] \in Nat
           /\ edges[s] <= MaxEdges /\ pin[s] \in BOOLEAN
           /\ events[s] \in SUBSET {"rise", "fall"}
           /\ unseenRise(s) \in {0, 1}
           /\ left_dist \in Nat /\ right_dist \in Nat /\ blocks \in Nat
BY BoundsAssumption DEF TypeOK, unseenRise

LEMMA BothSides == "LEFT" \in Sides /\ "RIGHT" \in Sides
BY DEF Sides

\* The edges driven for the blocks that have been reported.
LEMMA BlockEdgesType ==
    ASSUME blocks \in Nat
    PROVE  /\ blocks * BlockEdges \in Nat
           /\ (blocks + 1) * BlockEdges = blocks * BlockEdges + BlockEdges
<1>1. BlockEdges \in Nat
  BY BoundsAssumption
<1> QED BY <1>1

----------------------------------------------------------------------------
\* The wheels: an edge that is latched is not counted twice.

LEMMA RiseInv ==
    ASSUME OdometryInv, NEW s \in Sides, Rise(s)
    PROVE  OdometryInv'
<1> USE DEF OdometryInv
<1>1. TypeOK'
  BY DEF TypeOK, Rise, wheelVars, threadVars, countVars
<1>2. ASSUME NEW t \in Sides PROVE EdgeInv(t)'
  <2>1. CASE t = s
    <3>1. /\ pin'[s] = TRUE /\ events'[s] = events[s] \cup {"rise"}
          /\ ~pin[s] /\ edges[s] < MaxEdges
      BY DEF Rise, TypeOK
    <3>2. UNCHANGED <<pinAtStart, edges, distance, rises, falls>>
      BY DEF Rise, countVars
    <3> QED BY <2>1, <3>1, <3>2, Counts DEF EdgeInv, unseenRise
  <2>2. CASE t # s
    <3>1. /\ pin'[t] = pin[t] /\ events'[t] = events[t]
          /\ UNCHANGED <<pinAtStart, edges, distance, rises, falls>>
      BY <2>2 DEF Rise, TypeOK, countVars
    <3> QED BY <3>1 DEF EdgeInv, unseenRise
  <2> QED BY <2>1, <2>2
<1>3. ThreadInv'
  BY DEF ThreadInv, Rise, countVars, threadVars
<1> QED BY <1>1, <1>2, <1>3

LEMMA FallInv ==
    ASSUME OdometryInv, NEW s \in Sides, Fall(s)
    PROVE  OdometryInv'
<1> USE DEF OdometryInv
<1>0. EdgeInv(s)
  OBVIOUS
<1>1. TypeOK'
  <2>1. edges[s] + 1 \in 0..MaxEdges
    BY <1>0, Counts, BoundsAssumption DEF EdgeInv, Fall
  <2> QED BY <2>1 DEF TypeOK, Fall, threadVars, countVars
<1>2. ASSUME NEW t \in Sides PROVE EdgeInv(t)'
  <2>1. CASE t = s
    <3>1. /\ pin'[s] = FALSE /\ events'[s] = events[s] \cup {"fall"}
          /\ edges'[s] = edges[s] + 1 /\ pin[s]
      BY DEF Fall, TypeOK
    <3>2. UNCHANGED <<pinAtStart, distance, rises, falls>>
      BY DEF Fall, countVars
    <3> QED BY <1>0, <2>1, <3>1, <3>2, Counts DEF EdgeInv, unseenRise
  <2>2. CASE t # s
    <3>1. /\ pin'[t] = pin[t] /\ events'[t] = events[t] /\ edges'[t] = edges[t]
          /\ UNCHANGED <<pinAtStart, distance, rises, falls>>
      BY <2>2 DEF Fall, TypeOK, countVars
    <3> QED BY <3>1 DEF EdgeInv, unseenRise
  <2> QED BY <2>1, <2>2
<1>3. ThreadInv'
  BY DEF ThreadInv, Fall, countVars, threadVars
<1> QED BY <1>1, <1>2, <1>3

----------------------------------------------------------------------------
\* The interrupt: it counts an edge it has latched, and adds to a distance
\* only what it adds to the falling edges too.

LEMMA CallbackInv ==
    ASSUME OdometryInv, NEW s \in Sides, encoder_callback(s)
    PROVE  OdometryInv'
<1> USE DEF OdometryInv
<1>0. EdgeInv(s)
  OBVIOUS
<1>1. /\ events' = [events EXCEPT ![s] = {}]
      /\ events[s] # {}
      /\ UNCHANGED <<pin, pinAtStart, edges, tPc, left_dist, right_dist, blocks>>
  BY DEF encoder_callback, wheelVars, threadVars
<1>2. CASE "rise" \in events[s]
  <2>1. /\ rises' = [rises EXCEPT ![s] = @ + 1]
        /\ UNCHANGED <<falls, distance>>
    BY <1>2 DEF encoder_callback
  <2>2. rises[s] + 1 \in 0..MaxEdges
    BY <1>0, <1>2, Counts, BoundsAssumption DEF EdgeInv, unseenRise
  <2>3. TypeOK'
    BY <1>1, <2>1, <2>2 DEF TypeOK
  <2>4. ASSUME NEW t \in Sides PROVE EdgeInv(t)'
    <3>1. CASE t = s
      <4>1. events'[s] = {} /\ rises'[s] = rises[s] + 1
        BY <1>1, <2>1 DEF TypeOK
      <4> QED BY <1>0, <1>1, <1>2, <2>1, <3>1, <4>1, Counts DEF EdgeInv, unseenRise
    <3>2. CASE t # s
      <4>1. events'[t] = events[t] /\ rises'[t] = rises[t]
        BY <1>1, <2>1, <3>2 DEF TypeOK
      <4> QED BY <1>1, <2>1, <4>1 DEF EdgeInv, unseenRise
    <3> QED BY <3>1, <3>2
  <2>5. ThreadInv'
    BY <1>1, <2>1 DEF ThreadInv
  <2> QED BY <2>3, <2>4, <2>5
<1>3. CASE "rise" \notin events[s]
  <2>1. /\ falls' = [falls EXCEPT ![s] = @ + 1]
        /\ distance' = [distance EXCEPT ![s] = @ + 1]
        /\ UNCHANGED rises
    BY <1>3 DEF encoder_callback
  <2>2. "fall" \in events[s]
    BY <1>1, <1>3, Counts
  <2>3. falls[s] + 1 \in 0..MaxEdges /\ distance[s] + 1 \in 0..MaxEdges
    BY <1>0, <2>2, Counts, BoundsAssumption DEF EdgeInv, unseenRise
  <2>4. TypeOK'
    BY <1>1, <2>1, <2>3 DEF TypeOK
  <2>5. /\ falls'[s] = falls[s] + 1 /\ distance'[s] = distance[s] + 1
        /\ \A t \in Sides \ {s} : falls'[t] = falls[t] /\ distance'[t] = distance[t]
    BY <2>1 DEF TypeOK
  <2>6. ASSUME NEW t \in Sides PROVE EdgeInv(t)'
    <3>1. CASE t = s
      <4>1. events'[s] = {}
        BY <1>1 DEF TypeOK
      <4>2. falls[s] + 1 <= rises[s] + unseenRise(s) /\ falls[s] + 1 <= edges[s]
        BY <1>0, <1>3, <2>2, Counts DEF EdgeInv, unseenRise
      <4>3. distance[s] + 1 <= falls[s] + 1
        BY <1>0, Counts DEF EdgeInv, unseenRise
      <4>4. ~pin[s]
        BY <1>0, <1>3, <2>2, Counts DEF EdgeInv, unseenRise
      <4> QED BY <1>0, <1>1, <2>1, <2>5, <3>1, <4>1, <4>2, <4>3, <4>4 DEF EdgeInv, unseenRise
    <3>2. CASE t # s
      <4>1. events'[t] = events[t]
        BY <1>1, <3>2 DEF TypeOK
      <4> QED BY <1>1, <2>1, <2>5, <3>2, <4>1 DEF EdgeInv, unseenRise
    <3> QED BY <3>1, <3>2
  <2>7. ThreadInv'
    <3>1. \A t \in Sides : distance[t] \in Nat /\ falls[t] \in Nat
      BY Counts
    <3>2. s = "LEFT" \/ s = "RIGHT"
      BY DEF Sides
    <3>3. blocks * BlockEdges \in Nat /\ BlockEdges \in Nat
      BY BlockEdgesType, BoundsAssumption DEF TypeOK
    <3>4. left_dist \in Nat /\ right_dist \in Nat
      BY BothSides, Counts
    <3> QED BY <1>1, <2>5, <3>1, <3>2, <3>3, <3>4 DEF ThreadInv, Sides
  <2> QED BY <2>4, <2>6, <2>7
<1> QED BY <1>2, <1>3

----------------------------------------------------------------------------
\* The thread

LEMMA ThreadStepInv ==
    ASSUME OdometryInv, MappingThread
    PROVE  OdometryInv'
<1> USE DEF OdometryInv
<1>0. /\ \A t \in Sides : distance[t] \in Nat /\ falls[t] \in Nat
      /\ blocks * BlockEdges \in Nat /\ BlockEdges \in Nat /\ MaxEdges \in Nat
      /\ left_dist \in Nat /\ right_dist \in Nat /\ blocks \in Nat
  BY Counts, BothSides, BlockEdgesType, BoundsAssumption DEF TypeOK
<1>1. CASE GetLeft
  BY <1>0, <1>1, BothSides
  DEF GetLeft, TypeOK, EdgeInv, unseenRise, ThreadInv, wheelVars, countVars
<1>2. CASE GetRight
  BY <1>0, <1>2, BothSides
  DEF GetRight, TypeOK, EdgeInv, unseenRise, ThreadInv, wheelVars, countVars
<1>3. CASE NotYet
  BY <1>3 DEF NotYet, TypeOK, EdgeInv, unseenRise, ThreadInv, wheelVars, countVars
<1>4. CASE ResetLeft
  <2>1. /\ distance' = [distance EXCEPT !["LEFT"] = 0]
        /\ tPc = "test" /\ tPc' = "reset" /\ left_dist + right_dist >= BlockEdges
        /\ UNCHANGED <<pin, pinAtStart, edges, events, rises, falls, left_dist, right_dist, blocks>>
    BY <1>4 DEF ResetLeft, reached, wheelVars, countVars
  <2>2. TypeOK'
    <3>1. 0 \in 0..MaxEdges /\ blocks + 1 \in Nat
      BY <1>0
    <3>2. distance' \in [Sides -> 0..MaxEdges]
      BY <2>1, <3>1 DEF TypeOK
    <3> QED BY <2>1, <3>1, <3>2 DEF TypeOK
  <2>3. distance'["LEFT"] = 0 /\ distance'["RIGHT"] = distance["RIGHT"]
    BY <2>1 DEF TypeOK, Sides
  <2>4. \A t \in Sides : distance'[t] <= falls[t]
    BY <1>0, <2>3 DEF EdgeInv, Sides
  <2>5. \A t \in Sides : EdgeInv(t)'
    BY <2>1, <2>4 DEF EdgeInv, unseenRise
  <2>6. ThreadInv'
    BY <1>0, <2>1, <2>3, BothSides DEF ThreadInv
  <2> QED BY <2>2, <2>5, <2>6
<1>5. CASE ResetRight
  <2>1. /\ distance' = [distance EXCEPT !["RIGHT"] = 0]
        /\ tPc = "reset" /\ tPc' = "delay" /\ blocks' = blocks + 1
        /\ UNCHANGED <<pin, pinAtStart, edges, events, rises, falls, left_dist, right_dist>>
    BY <1>5 DEF ResetRight, wheelVars, countVars
  <2>2. TypeOK'
    <3>1. 0 \in 0..MaxEdges /\ blocks + 1 \in Nat
      BY <1>0
    <3>2. distance' \in [Sides -> 0..MaxEdges]
      BY <2>1, <3>1 DEF TypeOK
    <3> QED BY <2>1, <3>1, <3>2 DEF TypeOK
  <2>3. distance'["RIGHT"] = 0 /\ distance'["LEFT"] = distance["LEFT"]
    BY <2>1 DEF TypeOK, Sides
  <2>4. \A t \in Sides : distance'[t] <= falls[t]
    BY <1>0, <2>3 DEF EdgeInv, Sides
  <2>5. \A t \in Sides : EdgeInv(t)'
    BY <2>1, <2>4 DEF EdgeInv, unseenRise
  <2>6. blocks' * BlockEdges = blocks * BlockEdges + BlockEdges
    BY <1>0, <2>1, BlockEdgesType
  <2>7. ThreadInv'
    BY <1>0, <2>1, <2>3, <2>6, BothSides DEF ThreadInv
  <2> QED BY <2>2, <2>5, <2>7
<1> QED BY <1>1, <1>2, <1>3, <1>4, <1>5 DEF MappingThread

----------------------------------------------------------------------------
\* Theorems

\* The latched edges are uncounted ones, and what the thread has not reported
\* is on top of the blocks that it has: encoder_callback and isNewBlock may
\* interleave in any way.
THEOREM OdometryInvariant == SafetySpec => []OdometryInv
<1>1. Init => OdometryInv
  <2> SUFFICES ASSUME Init PROVE OdometryInv
      OBVIOUS
  <2>1. TypeOK
    BY BoundsAssumption DEF Init, TypeOK, zero
  <2>2. ASSUME NEW s \in Sides PROVE EdgeInv(s)
    <3>1. /\ distance[s] = 0 /\ falls[s] = 0 /\ rises[s] = 0 /\ edges[s] = 0
          /\ events[s] = {} /\ pinAtStart[s] = pin[s] /\ pin[s] \in BOOLEAN
      BY DEF Init, zero
    <3>2. 0 < MaxEdges
      BY BoundsAssumption
    <3> QED BY <3>1, <3>2 DEF EdgeInv, unseenRise
  <2>3. ThreadInv
    <3>1. 0 * BlockEdges = 0
      BY BoundsAssumption
    <3> QED BY <3>1 DEF Init, ThreadInv, zero, Sides
  <2> QED BY <2>1, <2>2, <2>3 DEF OdometryInv
<1>2. OdometryInv /\ [Next]_vars => OdometryInv'
  <2> SUFFICES ASSUME OdometryInv, [Next]_vars PROVE OdometryInv'
      OBVIOUS
  <2>1. CASE MappingThread
    BY <2>1, ThreadStepInv
  <2>2. ASSUME NEW s \in Sides, Rise(s) PROVE OdometryInv'
    BY <2>2, RiseInv
  <2>3. ASSUME NEW s \in Sides, Fall(s) PROVE OdometryInv'
    BY <2>3, FallInv
  <2>4. ASSUME NEW s \in Sides, encoder_callback(s) PROVE OdometryInv'
    BY <2>4, CallbackInv
  <2>5. CASE UNCHANGED vars
    BY <2>5 DEF vars, wheelVars, countVars, threadVars, OdometryInv, TypeOK,
                EdgeInv, unseenRise, ThreadInv
  <2> QED BY <2>1, <2>2, <2>3, <2>4, <2>5 DEF Next
<1> QED BY <1>1, <1>2, PTL DEF SafetySpec

\* isNewBlock reports no block that was not driven.
THEOREM NoPhantomBlocks == SafetySpec => []BlocksAreDriven
<1>1. OdometryInv => BlocksAreDriven
  <2> SUFFICES ASSUME OdometryInv PROVE BlocksAreDriven
      OBVIOUS
  <2>1. TypeOK /\ ThreadInv
    BY DEF OdometryInv
  <2>2. /\ \A t \in Sides : distance[t] \in Nat /\ falls[t] \in Nat
        /\ blocks * BlockEdges \in Nat /\ BlockEdges \in Nat
    BY <2>1, Counts, BlockEdgesType, BoundsAssumption DEF TypeOK
  <2> QED BY <2>1, <2>2, BothSides DEF ThreadInv, BlocksAreDriven
<1> QED BY <1>1, OdometryInvariant, PTL

\* encoder_callback never adds a distance for which it has counted no notch, but
\* for the first of a wheel whose output was high when the interrupt was enabled.
THEOREM NotchesLead == SafetySpec => []DistanceNotAheadOfNotches
<1>1. OdometryInv => DistanceNotAheadOfNotches
  BY DEF OdometryInv, EdgeInv, unseenRise, DistanceNotAheadOfNotches
<1> QED BY <1>1, OdometryInvariant, PTL
====
