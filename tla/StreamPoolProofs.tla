-------------------------- MODULE StreamPoolProofs --------------------------
(***************************************************************************)
(* The number of slots the stream gateway hands out stays below its limit  *)
(* plus the number of viewers.  The bound is not inductive by itself: a    *)
(* request that was admitted takes its slot later.  What is inductive is   *)
(* the bound on the cameras that hold a slot or are about to.              *)
(***************************************************************************)
EXTENDS StreamPool, FiniteSetTheorems, TLAPS

Admitted == {v \in Viewers : pc[v] = "register"}
Claimed == slots \union {cam[v] : v \in Admitted}

ClaimInv ==
  /\ DOMAIN pc = Viewers /\ pc = [v \in Viewers |-> pc[v]]
  /\ cam = [v \in Viewers |-> cam[v]]
  /\ IsFiniteSet(Claimed)
  /\ Cardinality(Claimed) < MaxActive + Cardinality(Viewers)

-----------------------------------------------------------------------------
\* A set of viewers has no more cameras than viewers.
LEMMA CamerasOfViewers ==
  ASSUME NEW V \in SUBSET Viewers, NEW f
  PROVE  /\ IsFiniteSet({f[v] : v \in V})
         /\ Cardinality({f[v] : v \in V}) <= Cardinality(Viewers)
<1> DEFINE image == {f[v] : v \in V}
           onto == [v \in V |-> f[v]]
<1>1. IsFiniteSet(V) /\ Cardinality(V) <= Cardinality(Viewers)
  BY PoolAssumption, FS_Subset
<1>2. onto \in Surjection(V, image)
  BY DEF Surjection
<1>3. IsFiniteSet(image) /\ Cardinality(image) <= Cardinality(V)
  BY <1>1, <1>2, FS_Surjection
<1>4. Cardinality(V) \in Nat /\ Cardinality(image) \in Nat /\ Cardinality(Viewers) \in Nat
  BY <1>1, <1>3, PoolAssumption, FS_CardinalityType
<1> QED
  BY <1>1, <1>3, <1>4

\* As long as the pool is not full, the admitted requests fit in the bound.
LEMMA RoomForAll ==
  ASSUME NEW S, IsFiniteSet(S), Cardinality(S) < MaxActive,
         NEW V \in SUBSET Viewers, NEW f
  PROVE  /\ IsFiniteSet(S \union {f[v] : v \in V})
         /\ Cardinality(S \union {f[v] : v \in V}) < MaxActive + Cardinality(Viewers)
<1> DEFINE image == {f[v] : v \in V}
<1>1. IsFiniteSet(image) /\ Cardinality(image) <= Cardinality(Viewers)
  BY CamerasOfViewers
<1>2. /\ IsFiniteSet(S \union image)
      /\ Cardinality(S \union image)
           = Cardinality(S) + Cardinality(image) - Cardinality(S \intersect image)
  BY <1>1, FS_Union
<1>3. IsFiniteSet(S \intersect image)
  BY <1>1, FS_Intersection
<1>4. /\ Cardinality(S) \in Nat /\ Cardinality(image) \in Nat
      /\ Cardinality(S \intersect image) \in Nat /\ Cardinality(Viewers) \in Nat
  BY <1>1, <1>3, PoolAssumption, FS_CardinalityType
<1> QED
  BY <1>1, <1>2, <1>4, PoolAssumption

\* The bound survives every step that claims no further camera.
LEMMA FewerClaims ==
  ASSUME ClaimInv, Claimed' \subseteq Claimed
  PROVE  /\ IsFiniteSet(Claimed')
         /\ Cardinality(Claimed') < MaxActive + Cardinality(Viewers)
<1>1. /\ IsFiniteSet(Claimed') /\ Cardinality(Claimed') <= Cardinality(Claimed)
  BY FS_Subset DEF ClaimInv
<1>2. /\ Cardinality(Claimed') \in Nat /\ Cardinality(Claimed) \in Nat
      /\ Cardinality(Viewers) \in Nat
  BY <1>1, PoolAssumption, FS_CardinalityType DEF ClaimInv
<1> QED
  BY <1>1, <1>2, PoolAssumption DEF ClaimInv

-----------------------------------------------------------------------------
LEMMA ClaimStart == Init => ClaimInv
<1> SUFFICES ASSUME Init PROVE ClaimInv
  OBVIOUS
<1>1. Admitted = {} /\ Claimed = {}
  BY DEF Init, Admitted, Claimed
<1>2. /\ IsFiniteSet(Claimed) /\ Cardinality(Claimed) = 0
      /\ Cardinality(Viewers) \in Nat
  BY <1>1, PoolAssumption, FS_EmptySet, FS_CardinalityType
<1> QED
  BY <1>2, PoolAssumption DEF Init, ClaimInv

\* An admission either finds the camera among the slots or the pool not full.
LEMMA AdmitStep ==
  ASSUME ClaimInv, NEW v \in Viewers, Admit(v)
  PROVE  /\ IsFiniteSet(Claimed')
         /\ Cardinality(Claimed') < MaxActive + Cardinality(Viewers)
<1>1. CASE CanOpen(v) /\ cam[v] \notin slots
  <2>1. Cardinality(slots) < MaxActive
    BY <1>1 DEF CanOpen
  <2>2. IsFiniteSet(slots)
    <3>1. slots \in SUBSET Claimed
      BY DEF Claimed
    <3> QED
      BY <3>1, FS_Subset DEF ClaimInv
  <2>3. Claimed' = slots \union {cam[u] : u \in Admitted'} /\ Admitted' \in SUBSET Viewers
    BY DEF Admit, Claimed, Admitted
  <2> QED
    BY <2>1, <2>2, <2>3, RoomForAll
<1>2. CASE ~(CanOpen(v) /\ cam[v] \notin slots)
  <2>1. Claimed' \subseteq Claimed
    BY <1>2 DEF Admit, Goto, Claimed, Admitted, ClaimInv
  <2> QED
    BY <2>1, FewerClaims
<1> QED
  BY <1>1, <1>2

LEMMA ClaimStep == ClaimInv /\ [Next]_vars => ClaimInv'
<1> SUFFICES ASSUME ClaimInv, [Next]_vars PROVE ClaimInv'
  OBVIOUS
<1>1. /\ DOMAIN pc' = Viewers /\ pc' = [v \in Viewers |-> pc'[v]]
      /\ cam' = [v \in Viewers |-> cam'[v]]
  BY DEF ClaimInv, Next, ServiceNext, Step, vars, Goto, View, Admit, Register,
         UnsupportedCodec, SupportedCodec, Connect, Attempted, BackOff, OpenFails,
         Opened, Wake, Frame, NextFrame, ReadFails, Leave, Close
<1>2. /\ IsFiniteSet(Claimed')
      /\ Cardinality(Claimed') < MaxActive + Cardinality(Viewers)
  <2>1. CASE \E v \in Viewers : Admit(v)
    BY <2>1, AdmitStep
  <2>2. CASE \E v \in Viewers : Register(v)
    <3>1. Claimed' \subseteq Claimed
      BY <2>2 DEF Register, Goto, Claimed, Admitted, ClaimInv
    <3> QED
      BY <3>1, FewerClaims
  <2>3. CASE \E v \in Viewers, c \in Cameras : View(v, c)
    <3>1. Claimed' \subseteq Claimed
      BY <2>3 DEF View, Goto, Claimed, Admitted, ClaimInv
    <3> QED
      BY <3>1, FewerClaims
  <2>4. CASE \E c \in Cameras : Close(c)
    <3>1. Claimed' \subseteq Claimed
      BY <2>4 DEF Close, Claimed, Admitted
    <3> QED
      BY <3>1, FewerClaims
  <2>5. CASE \E v \in Viewers :
               \/ UnsupportedCodec(v) \/ SupportedCodec(v) \/ Connect(v)
               \/ Attempted(v) \/ OpenFails(v) \/ Opened(v) \/ Wake(v)
               \/ Frame(v) \/ NextFrame(v) \/ ReadFails(v) \/ Leave(v)
    <3>1. /\ slots' = slots /\ cam' = cam
          /\ Admitted' \subseteq Admitted
      BY <2>5 DEF ClaimInv, Admitted, Goto, UnsupportedCodec, SupportedCodec, Connect,
             Attempted, BackOff, OpenFails, Opened, Wake, Frame, NextFrame, ReadFails,
             Leave
    <3>2. Claimed' \subseteq Claimed
      BY <3>1 DEF Claimed
    <3> QED
      BY <3>2, FewerClaims
  <2>6. CASE UNCHANGED vars
    <3>1. Claimed' \subseteq Claimed
      BY <2>6 DEF vars, Claimed, Admitted
    <3> QED
      BY <3>1, FewerClaims
  <2> QED
    BY <2>1, <2>2, <2>3, <2>4, <2>5, <2>6 DEF Next, ServiceNext, Step
<1> QED
  BY <1>1, <1>2 DEF ClaimInv

LEMMA ClaimsBoundSlots == ClaimInv => OvershootBounded
<1> SUFFICES ASSUME ClaimInv PROVE OvershootBounded
  OBVIOUS
<1>1. slots \in SUBSET Claimed
  BY DEF Claimed
<1>2. IsFiniteSet(slots) /\ Cardinality(slots) <= Cardinality(Claimed)
  BY <1>1, FS_Subset DEF ClaimInv
<1>3. /\ Cardinality(slots) \in Nat /\ Cardinality(Claimed) \in Nat
      /\ Cardinality(Viewers) \in Nat
  BY <1>2, PoolAssumption, FS_CardinalityType DEF ClaimInv
<1> QED
  BY <1>2, <1>3, PoolAssumption DEF ClaimInv, OvershootBounded

\* Check and registration are separate, so the limit on streams can be overshot;
\* for any number of viewers and cameras and any limit it is never overshot by
\* as much as there are viewers.
THEOREM SlotsBounded == Spec => []OvershootBounded
<1>1. ClaimInv /\ [Next]_vars => ClaimInv'
  BY ClaimStep
<1> QED
  BY <1>1, ClaimStart, ClaimsBoundSlots, PTL DEF Spec

-----------------------------------------------------------------------------
(* Types and permits: a permit is out exactly while a capture is opened.   *)

Opening == {v \in Viewers : pc[v] = "opening"}
Places == {"idle", "check", "register", "codec", "connect", "opening", "attempted",
           "sleep", "streaming", "yielded"}

\* The viewers that open a capture after v has gone to some place.
LEMMA OpeningMoves ==
  ASSUME TypeOK, NEW v \in Viewers, NEW place \in Places, Goto(v, place)
  PROVE  /\ pc' \in [Viewers -> Places]
         /\ place # "opening" /\ pc[v] # "opening" =>
              Cardinality(Opening') = Cardinality(Opening)
         /\ place = "opening" /\ pc[v] # "opening" =>
              Cardinality(Opening') = Cardinality(Opening) + 1
         /\ place # "opening" /\ pc[v] = "opening" =>
              Cardinality(Opening') = Cardinality(Opening) - 1
<1>1. pc \in [Viewers -> Places] /\ pc' = [pc EXCEPT ![v] = place]
  BY DEF TypeOK, Goto, Places
<1>2. pc' \in [Viewers -> Places] /\ pc'[v] = place
        /\ \A u \in Viewers \ {v} : pc'[u] = pc[u]
  BY <1>1
<1>3. IsFiniteSet(Opening)
  BY PoolAssumption, FS_Subset DEF Opening
<1>4. CASE place # "opening" /\ pc[v] # "opening"
  <2>1. Opening' = Opening
    BY <1>2, <1>4 DEF Opening
  <2> QED BY <1>2, <1>4, <2>1
<1>5. CASE place = "opening" /\ pc[v] # "opening"
  <2>1. Opening' = Opening \union {v} /\ v \notin Opening
    BY <1>2, <1>5 DEF Opening
  <2> QED BY <1>2, <1>3, <1>5, <2>1, FS_AddElement
<1>6. CASE place # "opening" /\ pc[v] = "opening"
  <2>1. Opening' = Opening \ {v} /\ v \in Opening
    BY <1>2, <1>6 DEF Opening
  <2> QED BY <1>2, <1>3, <1>6, <2>1, FS_RemoveElement
<1> QED BY <1>2, <1>4, <1>5, <1>6

\* What a camera's telemetry may become.
LEMMA TelemetryTyped ==
  ASSUME TypeOK, NEW c \in Cameras, NEW s \in States
  PROVE  /\ Recorded(c, s) \in [Cameras -> States]
         /\ Doubled(backoff[c]) \in InitialDelay .. MaxDelay
<1>1. backoff[c] \in InitialDelay .. MaxDelay /\ state \in [Cameras -> States]
  BY DEF TypeOK
<1> QED BY <1>1 DEF Recorded, Doubled, InitialDelay, MaxDelay

\* Every step keeps the types.
LEMMA PoolTypeStep == TypeOK /\ [Next]_vars => TypeOK'
<1> SUFFICES ASSUME TypeOK, [Next]_vars PROVE TypeOK'
  OBVIOUS
<1>1. /\ Cardinality(Opening) \in Nat /\ permits \in Nat /\ MaxConnect \in Nat
      /\ permits + Cardinality(Opening) = MaxConnect
  <2>1. IsFiniteSet(Opening)
    BY PoolAssumption, FS_Subset DEF Opening
  <2> QED BY <2>1, FS_CardinalityType, PoolAssumption DEF TypeOK, Opening
<1>2. ASSUME slots' \subseteq Cameras, state' \in [Cameras -> States],
             backoff' \in [Cameras -> InitialDelay .. MaxDelay],
             permits' \in Nat, permits' + Cardinality(Opening') = MaxConnect,
             Cardinality(Opening') \in Nat, pc' \in [Viewers -> Places],
             cam' \in [Viewers -> Cameras],
             requests' \in 0 .. MaxRequests, delivered' \subseteq Cameras
      PROVE  TypeOK'
  BY <1>1, <1>2 DEF TypeOK, Opening, Places
<1>3. \A v \in Viewers : cam[v] \in Cameras /\ pc[v] \in Places
  BY DEF TypeOK, Places
<1>4. ASSUME NEW v \in Viewers, NEW c \in Cameras, View(v, c)
      PROVE  TypeOK'
  <2>1. Goto(v, "check") /\ pc[v] # "opening"
    BY <1>4 DEF View
  <2>2. /\ pc' \in [Viewers -> Places] /\ Cardinality(Opening') = Cardinality(Opening)
    BY <2>1, OpeningMoves DEF Places
  <2>3. requests' \in 0 .. MaxRequests
    BY <1>4, PoolAssumption DEF View, TypeOK
  <2>4. cam' \in [Viewers -> Cameras]
    BY <1>4 DEF View, TypeOK
  <2>5. UNCHANGED <<slots, state, backoff, permits, delivered>>
    BY <1>4 DEF View
  <2> QED BY <1>1, <1>2, <2>2, <2>3, <2>4, <2>5 DEF TypeOK
<1>5. ASSUME NEW v \in Viewers, Connect(v)
      PROVE  TypeOK'
  <2>1. Cardinality(Opening') = Cardinality(Opening) + 1 /\ pc' \in [Viewers -> Places]
    BY <1>5, OpeningMoves DEF Connect, Places
  <2>2. state' \in [Cameras -> States]
    BY <1>3, <1>5, TelemetryTyped DEF Connect, States
  <2> QED BY <1>1, <1>2, <1>5, <2>1, <2>2 DEF Connect, TypeOK
<1>6. ASSUME NEW v \in Viewers, Attempted(v)
      PROVE  TypeOK'
  <2>1. Cardinality(Opening') = Cardinality(Opening) - 1 /\ pc' \in [Viewers -> Places]
    BY <1>6, OpeningMoves DEF Attempted, Places
  <2>2. v \in Opening /\ IsFiniteSet(Opening)
    BY <1>6, PoolAssumption, FS_Subset DEF Attempted, Opening
  <2>3. Cardinality(Opening) # 0
    BY <2>2, FS_EmptySet
  <2> QED BY <1>1, <1>2, <1>6, <2>1, <2>3 DEF Attempted, TypeOK
<1>7. ASSUME NEW v \in Viewers,
             \/ Admit(v) \/ Register(v) \/ UnsupportedCodec(v) \/ SupportedCodec(v)
             \/ OpenFails(v) \/ Opened(v) \/ Wake(v)
             \/ Frame(v) \/ NextFrame(v) \/ ReadFails(v) \/ Leave(v)
      PROVE  TypeOK'
  <2>1. \E place \in Places : Goto(v, place) /\ place # "opening"
    BY <1>7 DEF Admit, Register, UnsupportedCodec, SupportedCodec, OpenFails, Opened, Wake,
                Frame, NextFrame, ReadFails, Leave, BackOff, Places
  <2>2. pc[v] # "opening" /\ permits' = permits /\ cam' = cam /\ requests' = requests
    BY <1>7 DEF Admit, Register, UnsupportedCodec, SupportedCodec, OpenFails, Opened, Wake,
                Frame, NextFrame, ReadFails, Leave
  <2>3. Cardinality(Opening') = Cardinality(Opening) /\ pc' \in [Viewers -> Places]
    BY <2>1, <2>2, OpeningMoves
  <2>4. /\ slots' \subseteq Cameras /\ delivered' \subseteq Cameras
    BY <1>3, <1>7 DEF Admit, Register, UnsupportedCodec, SupportedCodec, OpenFails, Opened,
                      Wake, Frame, NextFrame, ReadFails, Leave, TypeOK
  <2>5. state' \in [Cameras -> States]
    <3>1. \A s \in States : Recorded(cam[v], s) \in [Cameras -> States]
      BY <1>3, TelemetryTyped
    <3>2. {"UNSUPPORTED_CODEC", "FAILED", "STREAM_ACTIVE", "FRAME_FRESH",
           "STREAM_DISCONNECTED", "TCP_REACHABLE"} \subseteq States
      BY DEF States, Active
    <3>3. state \in [Cameras -> States]
      BY DEF TypeOK
    <3> QED BY <1>7, <3>1, <3>2, <3>3
            DEF Admit, Register, UnsupportedCodec, SupportedCodec, OpenFails, Opened, Wake,
                Frame, NextFrame, ReadFails, Leave
  <2>6. backoff' \in [Cameras -> InitialDelay .. MaxDelay]
    <3>1. Doubled(backoff[cam[v]]) \in InitialDelay .. MaxDelay
      BY <1>3, TelemetryTyped DEF States
    <3>2. InitialDelay \in InitialDelay .. MaxDelay
      BY DEF InitialDelay, MaxDelay
    <3>3. backoff \in [Cameras -> InitialDelay .. MaxDelay]
      BY DEF TypeOK
    <3> QED BY <1>7, <3>1, <3>2, <3>3
            DEF Admit, Register, UnsupportedCodec, SupportedCodec, OpenFails, Opened, Wake,
                Frame, NextFrame, ReadFails, Leave, BackOff
  <2>7. cam' \in [Viewers -> Cameras] /\ requests' \in 0 .. MaxRequests
    BY <2>2 DEF TypeOK
  <2> QED BY <1>1, <1>2, <2>2, <2>3, <2>4, <2>5, <2>6, <2>7
<1>8. ASSUME NEW c \in Cameras, Close(c)
      PROVE  TypeOK'
  BY <1>8 DEF Close, TypeOK
<1>9. CASE UNCHANGED vars
  BY <1>9 DEF vars, TypeOK
<1> QED BY <1>4, <1>5, <1>6, <1>7, <1>8, <1>9 DEF Next, ServiceNext, Step

\* They hold at first.
LEMMA PoolStart == Init => TypeOK
<1> SUFFICES ASSUME Init PROVE TypeOK
  OBVIOUS
<1>1. Opening = {}
  BY DEF Init, Opening
<1>2. Cardinality({v \in Viewers : pc[v] = "opening"}) = 0
  BY <1>1, FS_EmptySet DEF Opening
<1>3. \A v \in Viewers : cam[v] \in Cameras
  BY PoolAssumption DEF Init
<1> QED BY <1>2, <1>3, PoolAssumption DEF Init, TypeOK, States, InitialDelay, MaxDelay

\* Every variable of the gateway keeps its type, and a permit is out exactly while
\* a capture is being opened, for any viewers, cameras and limits.
THEOREM PoolTyped == Spec => []TypeOK
BY PoolStart, PoolTypeStep, PTL DEF Spec
=============================================================================
