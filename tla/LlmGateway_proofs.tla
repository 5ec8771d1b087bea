-------------------------- MODULE LlmGateway_proofs --------------------------
(***************************************************************************)
(* Theorems about LlmGateway, for any set of call sites, any cap, prices   *)
(* and number of retries.                                                  *)
(***************************************************************************)
EXTENDS LlmGateway, FiniteSetTheorems, TLAPS

\* A call that backs off has a retry left.
BackoffHasRetry == \A c \in Calls : pc[c] = "backoff" => attempt[c] < Retries

Inv == TypeOK /\ BackoffHasRetry

\* Nothing is in flight at first.
LEMMA InitInv == Init => Inv
  <1> SUFFICES ASSUME Init
               PROVE  Inv
    OBVIOUS
  <1>1. banner \in [fog : BOOLEAN, hardStop : BOOLEAN]
    BY Zenon DEF Init
  <1>2. /\ paused \in BOOLEAN /\ hardStop \in BOOLEAN
        /\ notice \in BOOLEAN /\ outage \in BOOLEAN
        /\ reask \in [Calls -> BOOLEAN]
    BY Zenon DEF Init
  <1>3. QED
    BY <1>1, <1>2, RetryAssumption
    DEF Init, Inv, TypeOK, BackoffHasRetry, Kinds, FailureThreshold

\* The queue of publishing tasks holds frames only.
LEMMA EmitTypes ==
  ASSUME TypeOK, NEW f \in Frames, Emit(f)
  PROVE  pending' \in Seq(Frames)
  BY DEF TypeOK, Emit

\* A reply keeps the tracker and the queue in their types.
LEMMA SuccessTypes ==
  ASSUME TypeOK, ReportSuccess
  PROVE  /\ streak' \in 0 .. FailureThreshold
         /\ outage' \in BOOLEAN
         /\ pending' \in Seq(Frames)
  <1>1. streak' \in 0 .. FailureThreshold
    BY DEF ReportSuccess, FailureThreshold
  <1>2. outage' \in BOOLEAN
    BY Zenon DEF ReportSuccess
  <1>3. pending' \in Seq(Frames)
    BY EmitTypes DEF ReportSuccess, TypeOK, Frames
  <1>4. QED
    BY <1>1, <1>2, <1>3

\* So does a failed dispatch; the streak stops at the threshold.
LEMMA FailureTypes ==
  ASSUME TypeOK, ReportFailure
  PROVE  /\ streak' \in 0 .. FailureThreshold
         /\ outage' \in BOOLEAN
         /\ pending' \in Seq(Frames)
  <1>1. streak' \in 0 .. FailureThreshold
    BY DEF ReportFailure, TypeOK, FailureThreshold
  <1>2. outage' \in BOOLEAN
    BY Zenon DEF ReportFailure
  <1>3. pending' \in Seq(Frames)
    BY EmitTypes DEF ReportFailure, TypeOK, Frames
  <1>4. QED
    BY <1>1, <1>2, <1>3

\* A call that ends leaves its record as it was before it began.
LEMMA DoneTypes ==
  ASSUME Inv, NEW c \in Calls, Done(c)
  PROVE  /\ pc' \in [Calls -> {"idle", "dispatched", "backoff"}]
         /\ kind' \in [Calls -> Kinds]
         /\ attempt' \in [Calls -> 0 .. Retries]
         /\ reask' \in [Calls -> BOOLEAN]
         /\ BackoffHasRetry'
  <1>1. reask' \in [Calls -> BOOLEAN]
    BY DEF Done, Inv, TypeOK
  <1>2. QED
    BY <1>1, RetryAssumption DEF Done, Inv, TypeOK, BackoffHasRetry, Kinds

\* A reply costs a natural number of units.
LEMMA CostTypes ==
  ASSUME TypeOK, NEW cost \in 0 .. MaxCost, spend' = spend + cost
  PROVE  spend' \in Nat
  BY CapAssumption DEF TypeOK

\* A frame changes the one banner it is about.
LEMMA BannerTypes ==
  ASSUME NEW b \in [fog : BOOLEAN, hardStop : BOOLEAN], NEW v \in BOOLEAN
  PROVE  /\ [b EXCEPT !.fog = v] \in [fog : BOOLEAN, hardStop : BOOLEAN]
         /\ [b EXCEPT !.hardStop = v] \in [fog : BOOLEAN, hardStop : BOOLEAN]
         /\ [b EXCEPT !.fog = v].fog = v
         /\ [b EXCEPT !.hardStop = v].fog = b.fog
  OBVIOUS

\* Every step keeps the types, and a backoff has a retry left.
LEMMA InvStep == Inv /\ [Next]_vars => Inv'
  <1> SUFFICES ASSUME Inv, [Next]_vars
               PROVE  Inv'
    OBVIOUS
  <1> USE DEF Inv
  <1>1. ASSUME NEW c \in Calls, Admit(c)
        PROVE  Inv'
    BY <1>1 DEF Admit, TypeOK, BackoffHasRetry
  <1>2. ASSUME NEW c \in Calls, Refuse(c)
        PROVE  Inv'
    <2>1. pending' \in Seq(Frames)
      BY <1>2, EmitTypes DEF Refuse, OnHardCap, TypeOK, Frames
    <2>2. paused' \in BOOLEAN /\ hardStop' \in BOOLEAN
      BY <1>2, Zenon DEF Refuse, OnHardCap, TypeOK
    <2>3. QED
      BY <1>2, <2>1, <2>2 DEF Refuse, TypeOK, BackoffHasRetry, callVars
  <1>3. ASSUME NEW c \in Calls, Reply(c)
        PROVE  Inv'
    BY <1>3, SuccessTypes, DoneTypes, CostTypes DEF Reply, TypeOK
  <1>4. ASSUME NEW c \in Calls, InvalidReply(c)
        PROVE  Inv'
    <2>1. CASE reask[c]
      BY <1>4, <2>1, SuccessTypes, DoneTypes, CostTypes DEF InvalidReply, TypeOK
    <2>2. CASE ~reask[c]
      <3>1. /\ reask' \in [Calls -> BOOLEAN]
            /\ attempt' \in [Calls -> 0 .. Retries]
        <4>1. /\ reask' = [reask EXCEPT ![c] = TRUE]
              /\ attempt' = [attempt EXCEPT ![c] = 0]
          BY <1>4, <2>2 DEF InvalidReply
        <4>2. reask' \in [Calls -> BOOLEAN]
          BY <4>1 DEF TypeOK
        <4>3. attempt' \in [Calls -> 0 .. Retries]
          BY <4>1, RetryAssumption DEF TypeOK
        <4>4. QED
          BY <4>2, <4>3
      <3>2. BackoffHasRetry'
        BY <1>4, <2>2 DEF InvalidReply, TypeOK, BackoffHasRetry
      <3>3. TypeOK'
        BY <1>4, <2>2, <3>1, SuccessTypes, CostTypes DEF InvalidReply, TypeOK
      <3>4. QED
        BY <3>2, <3>3
    <2>3. QED
      BY <2>1, <2>2
  <1>5. ASSUME NEW c \in Calls, RateLimited(c) \/ GiveUp(c)
        PROVE  Inv'
    BY <1>5, FailureTypes, DoneTypes DEF RateLimited, GiveUp, TypeOK
  <1>6. ASSUME NEW c \in Calls, BackOff(c)
        PROVE  Inv'
    BY <1>6 DEF BackOff, TypeOK, BackoffHasRetry
  <1>7. ASSUME NEW c \in Calls, Retry(c)
        PROVE  Inv'
    BY <1>7, RetryAssumption DEF Retry, TypeOK, BackoffHasRetry
  <1>8. CASE Rollover \/ Pause \/ Resume
    <2>1. CASE Rollover
      BY <2>1 DEF Rollover, callVars, TypeOK, BackoffHasRetry
    <2>2. CASE Pause
      <3>1. paused' \in BOOLEAN
        BY <2>2, Zenon DEF Pause
      <3>2. QED
        BY <2>2, <3>1 DEF Pause, callVars, TypeOK, BackoffHasRetry
    <2>3. CASE Resume
      <3>1. paused' \in BOOLEAN /\ hardStop' \in BOOLEAN
        BY <2>3, Zenon DEF Resume
      <3>2. banner' \in [fog : BOOLEAN, hardStop : BOOLEAN]
        BY <2>3, BannerTypes DEF Resume, TypeOK
      <3>3. QED
        BY <2>3, <3>1, <3>2 DEF Resume, callVars, TypeOK, BackoffHasRetry
    <2>4. QED
      BY <1>8, <2>1, <2>2, <2>3
  <1>9. CASE Publish
    <2>1. banner' \in [fog : BOOLEAN, hardStop : BOOLEAN]
      BY <1>9, BannerTypes DEF Publish, TypeOK
    <2>2. pending' \in Seq(Frames)
      BY <1>9 DEF Publish, TypeOK
    <2>3. QED
      BY <1>9, <2>1, <2>2 DEF Publish, callVars, TypeOK, BackoffHasRetry
  <1>10. CASE UNCHANGED vars
    BY <1>10 DEF vars, callVars, TypeOK, BackoffHasRetry
  <1>11. QED
    BY <1>1, <1>2, <1>3, <1>4, <1>5, <1>6, <1>7, <1>8, <1>9, <1>10
    DEF Next, Answer

\* The variables always have their types; a retry in particular is never one
\* too many.
THEOREM TypeCorrect == Spec => []TypeOK
  <1>1. Inv => TypeOK
    BY DEF Inv
  <1>2. QED
    BY InitInv, InvStep, <1>1, PTL DEF Spec

\* A hard stop is a pause, and the frame of it is on the page or on its way.
HardStopOnItsWay ==
    hardStop =>
        /\ paused
        /\ banner.hardStop \/ \E i \in 1 .. Len(pending) : pending[i] = "hard_stop"

\* A frame queued last leaves the others where they are.
LEMMA EmitKeeps ==
  ASSUME Inv, NEW frame, Emit(frame) \/ UNCHANGED pending
  PROVE  /\ \A i \in 1 .. Len(pending) : i \in 1 .. Len(pending') /\ pending'[i] = pending[i]
         /\ Emit(frame) => \E i \in 1 .. Len(pending') : pending'[i] = frame
  <1>1. CASE Emit(frame)
    <2>1. /\ Len(pending') = Len(pending) + 1
          /\ pending'[Len(pending) + 1] = frame
          /\ \A i \in 1 .. Len(pending) : pending'[i] = pending[i]
          /\ Len(pending) \in Nat
      BY <1>1 DEF Emit, Inv, TypeOK
    <2>2. QED
      BY <2>1
  <1>2. CASE UNCHANGED pending /\ ~Emit(frame)
    BY <1>2
  <1>3. QED
    BY <1>1, <1>2

\* Publishing a frame takes only that frame from the queue, and a hard stop
\* goes on the page.
LEMMA PublishHardStop ==
  ASSUME Inv, HardStopOnItsWay, Publish
  PROVE  HardStopOnItsWay'
  <1>1. /\ Len(pending') = Len(pending) - 1
        /\ \A i \in 1 .. Len(pending') : pending'[i] = pending[i + 1]
        /\ Len(pending) \in Nat \ {0}
        /\ Head(pending) = pending[1]
        /\ pending[1] \in Frames
    BY DEF Publish, Inv, TypeOK
  <1>2. /\ pending[1] = "hard_stop" => banner'.hardStop
        /\ banner.hardStop => banner'.hardStop
    <2>1. banner \in [fog : BOOLEAN, hardStop : BOOLEAN]
      BY DEF Inv, TypeOK
    <2>2. banner' = CASE pending[1] = "fog_on"  -> [banner EXCEPT !.fog = TRUE]
                      [] pending[1] = "fog_off" -> [banner EXCEPT !.fog = FALSE]
                      [] OTHER -> [banner EXCEPT !.hardStop = TRUE]
      BY <1>1 DEF Publish
    <2>3. pending[1] = "hard_stop" => banner' = [banner EXCEPT !.hardStop = TRUE]
      BY <2>2
    <2>4. banner' \in {[banner EXCEPT !.fog = TRUE], [banner EXCEPT !.fog = FALSE],
                        [banner EXCEPT !.hardStop = TRUE]}
      BY <1>1, <2>2 DEF Frames
    <2>5. QED
      BY <2>1, <2>3, <2>4
  <1>3. ASSUME NEW i \in 1 .. Len(pending), pending[i] = "hard_stop", i # 1
        PROVE  \E j \in 1 .. Len(pending') : pending'[j] = "hard_stop"
    <2>1. i - 1 \in 1 .. Len(pending') /\ pending'[i - 1] = "hard_stop"
      BY <1>1, <1>3
    <2>2. QED
      BY <2>1
  <1>4. UNCHANGED <<paused, hardStop>>
    BY DEF Publish
  <1>5. QED
    BY <1>2, <1>3, <1>4 DEF HardStopOnItsWay

\* A world the cap has stopped is paused and the page comes to say so, for any
\* interleaving of refused calls with the Keeper's pauses and resumes.
THEOREM HardStopShown == Spec => []HardStopIsShown
  <1>1. Init => HardStopOnItsWay
    BY DEF Init, HardStopOnItsWay
  <1>2. Inv /\ HardStopOnItsWay /\ [Next]_vars => HardStopOnItsWay'
    <2> SUFFICES ASSUME Inv, HardStopOnItsWay, [Next]_vars
                 PROVE  HardStopOnItsWay'
      OBVIOUS
    <2>1. ASSUME NEW c \in Calls, Refuse(c)
          PROVE  HardStopOnItsWay'
      <3>1. CASE paused
        BY <2>1, <3>1 DEF Refuse, OnHardCap, HardStopOnItsWay
      <3>2. CASE ~paused
        <4>1. paused' /\ Emit("hard_stop")
          BY <2>1, <3>2 DEF Refuse, OnHardCap
        <4>2. QED
          BY <4>1, EmitKeeps DEF HardStopOnItsWay
      <3>3. QED
        BY <3>1, <3>2
    <2>2. ASSUME NEW c \in Calls,
                 Reply(c) \/ InvalidReply(c) \/ RateLimited(c) \/ GiveUp(c)
          PROVE  HardStopOnItsWay'
      <3>1. UNCHANGED <<paused, hardStop, banner>>
        BY <2>2 DEF Reply, InvalidReply, RateLimited, GiveUp
      <3>2. Emit("fog_on") \/ Emit("fog_off") \/ UNCHANGED pending
        BY <2>2 DEF Reply, InvalidReply, RateLimited, GiveUp, ReportSuccess, ReportFailure
      <3>3. \A i \in 1 .. Len(pending) : i \in 1 .. Len(pending') /\ pending'[i] = pending[i]
        BY <3>2, EmitKeeps
      <3>4. QED
        BY <3>1, <3>3 DEF HardStopOnItsWay
    <2>3. ASSUME NEW c \in Calls, Admit(c) \/ BackOff(c) \/ Retry(c)
          PROVE  HardStopOnItsWay'
      BY <2>3 DEF Admit, BackOff, Retry, HardStopOnItsWay
    <2>4. CASE Publish
      BY <2>4, PublishHardStop
    <2>5. CASE Resume
      BY <2>5 DEF Resume, HardStopOnItsWay
    <2>6. CASE Rollover \/ Pause \/ UNCHANGED vars
      BY <2>6 DEF Rollover, Pause, vars, HardStopOnItsWay
    <2>7. QED
      BY <2>1, <2>2, <2>3, <2>4, <2>5, <2>6 DEF Next, Answer
  <1>3. HardStopOnItsWay => HardStopIsShown
    BY DEF HardStopOnItsWay, HardStopIsShown
  <1>4. QED
    BY <1>1, <1>2, <1>3, InitInv, InvStep, PTL DEF Spec

-----------------------------------------------------------------------------
(* The fog.                                                                *)

FogFrame == IF outage THEN "fog_on" ELSE "fog_off"

\* The last fog frame that is still to be published, or else the page, is
\* about the outage as it is now.
FogOnItsWay ==
    \/ /\ \A i \in 1 .. Len(pending) : pending[i] = "hard_stop"
       /\ banner.fog = outage
    \/ \E i \in 1 .. Len(pending) :
         /\ pending[i] = FogFrame
         /\ \A j \in i + 1 .. Len(pending) : pending[j] = "hard_stop"

\* A hard-stop frame queued last hides no fog frame.
LEMMA EmitHardStop ==
  ASSUME Inv, FogOnItsWay, UNCHANGED <<outage, banner>>,
         Emit("hard_stop") \/ UNCHANGED pending
  PROVE  FogOnItsWay'
  <1>1. CASE Emit("hard_stop")
    <2>1. /\ Len(pending') = Len(pending) + 1
          /\ pending'[Len(pending) + 1] = "hard_stop"
          /\ \A i \in 1 .. Len(pending) : pending'[i] = pending[i]
          /\ Len(pending) \in Nat
      BY <1>1 DEF Emit, Inv, TypeOK
    <2>2. CASE /\ \A i \in 1 .. Len(pending) : pending[i] = "hard_stop"
               /\ banner.fog = outage
      BY <2>1, <2>2 DEF FogOnItsWay
    <2>3. ASSUME NEW i \in 1 .. Len(pending), pending[i] = FogFrame,
                 \A j \in i + 1 .. Len(pending) : pending[j] = "hard_stop"
          PROVE  FogOnItsWay'
      BY <2>1, <2>3 DEF FogOnItsWay, FogFrame
    <2>4. QED
      BY <2>2, <2>3 DEF FogOnItsWay
  <1>2. CASE UNCHANGED pending
    BY <1>2 DEF FogOnItsWay, FogFrame
  <1>3. QED
    BY <1>1, <1>2

\* A fog frame queued last tells what the tracker says now.
LEMMA EmitFog ==
  ASSUME Inv, Emit(FogFrame')
  PROVE  FogOnItsWay'
  <1>1. /\ Len(pending') = Len(pending) + 1
        /\ pending'[Len(pending) + 1] = FogFrame'
        /\ Len(pending) \in Nat
    BY DEF Emit, Inv, TypeOK
  <1>2. QED
    BY <1>1 DEF FogOnItsWay, FogFrame

\* Every change of the tracker queues the frame that tells of it.
LEMMA ReportFog ==
  ASSUME Inv, FogOnItsWay, ReportSuccess \/ ReportFailure, UNCHANGED banner
  PROVE  FogOnItsWay'
  <1>1. CASE UNCHANGED <<outage, pending>>
    BY <1>1 DEF FogOnItsWay, FogFrame
  <1>2. CASE outage' # outage
    <2>1. Emit(FogFrame')
      BY <1>2 DEF ReportSuccess, ReportFailure, FogFrame, Inv, TypeOK
    <2>2. QED
      BY <2>1, EmitFog
  <1>3. outage' # outage \/ UNCHANGED <<outage, pending>>
    <2>1. outage \in BOOLEAN
      BY DEF Inv, TypeOK
    <2>2. CASE ReportSuccess
      BY <2>1, <2>2 DEF ReportSuccess
    <2>3. CASE ReportFailure
      BY <2>1, <2>3 DEF ReportFailure
    <2>4. QED
      BY <2>2, <2>3
  <1>4. QED
    BY <1>1, <1>2, <1>3

\* Publishing the oldest frame leaves the page waiting for the others.
LEMMA PublishFog ==
  ASSUME Inv, FogOnItsWay, Publish
  PROVE  FogOnItsWay'
  <1>1. /\ Len(pending') = Len(pending) - 1
        /\ \A i \in 1 .. Len(pending') : pending'[i] = pending[i + 1]
        /\ Len(pending) \in Nat \ {0}
        /\ Head(pending) = pending[1]
        /\ pending[1] \in Frames
    BY DEF Publish, Inv, TypeOK
  <1>2. outage' = outage /\ FogFrame' = FogFrame /\ outage \in BOOLEAN
    BY DEF Publish, FogFrame, Inv, TypeOK
  <1>3. /\ pending[1] = "fog_on" => banner'.fog = TRUE
        /\ pending[1] = "fog_off" => banner'.fog = FALSE
        /\ pending[1] = "hard_stop" => banner'.fog = banner.fog
    <2>1. banner \in [fog : BOOLEAN, hardStop : BOOLEAN]
      BY DEF Inv, TypeOK
    <2>2. banner' = CASE pending[1] = "fog_on"  -> [banner EXCEPT !.fog = TRUE]
                      [] pending[1] = "fog_off" -> [banner EXCEPT !.fog = FALSE]
                      [] OTHER -> [banner EXCEPT !.hardStop = TRUE]
      BY <1>1 DEF Publish
    <2>3. QED
      BY <2>1, <2>2, BannerTypes
  <1>4. CASE /\ \A i \in 1 .. Len(pending) : pending[i] = "hard_stop"
             /\ banner.fog = outage
    BY <1>1, <1>2, <1>3, <1>4 DEF FogOnItsWay
  <1>5. ASSUME NEW i \in 1 .. Len(pending), pending[i] = FogFrame,
               \A j \in i + 1 .. Len(pending) : pending[j] = "hard_stop"
        PROVE  FogOnItsWay'
    <2>1. CASE i = 1
      <3>1. banner'.fog = outage
        BY <1>2, <1>3, <1>5, <2>1 DEF FogFrame
      <3>2. QED
        BY <1>1, <1>2, <1>5, <2>1, <3>1 DEF FogOnItsWay
    <2>2. CASE i > 1
      <3>1. /\ i - 1 \in 1 .. Len(pending')
            /\ pending'[i - 1] = FogFrame'
            /\ \A j \in (i - 1) + 1 .. Len(pending') : pending'[j] = "hard_stop"
        BY <1>1, <1>2, <1>5, <2>2
      <3>2. QED
        BY <3>1 DEF FogOnItsWay
    <2>3. QED
      BY <1>5, <2>1, <2>2
  <1>6. QED
    BY <1>4, <1>5 DEF FogOnItsWay

\* Frames of the two handlers are published by tasks of their own, yet once
\* they have run the page shows fog exactly while the tracker has an outage.
THEOREM FogAgrees == Spec => []FogSettles
  <1>1. Init => FogOnItsWay
    <2> SUFFICES ASSUME Init
                 PROVE  FogOnItsWay
      OBVIOUS
    <2>1. banner.fog = outage
      BY DEF Init
    <2>2. \A i \in 1 .. Len(pending) : pending[i] = "hard_stop"
      BY DEF Init
    <2>3. QED
      BY <2>1, <2>2, Zenon DEF FogOnItsWay
  <1>2. Inv /\ FogOnItsWay /\ [Next]_vars => FogOnItsWay'
    <2> SUFFICES ASSUME Inv, FogOnItsWay, [Next]_vars
                 PROVE  FogOnItsWay'
      OBVIOUS
    <2>1. ASSUME NEW c \in Calls, Refuse(c)
          PROVE  FogOnItsWay'
      BY <2>1, EmitHardStop DEF Refuse, OnHardCap
    <2>2. ASSUME NEW c \in Calls,
                 Reply(c) \/ InvalidReply(c) \/ RateLimited(c) \/ GiveUp(c)
          PROVE  FogOnItsWay'
      BY <2>2, ReportFog DEF Reply, InvalidReply, RateLimited, GiveUp
    <2>3. ASSUME NEW c \in Calls, Admit(c) \/ BackOff(c) \/ Retry(c)
          PROVE  FogOnItsWay'
      BY <2>3 DEF Admit, BackOff, Retry, FogOnItsWay, FogFrame
    <2>4. CASE Publish
      BY <2>4, PublishFog
    <2>5. CASE Resume
      BY <2>5, BannerTypes DEF Resume, Inv, TypeOK, FogOnItsWay, FogFrame
    <2>6. CASE Rollover \/ Pause \/ UNCHANGED vars
      BY <2>6 DEF Rollover, Pause, vars, FogOnItsWay, FogFrame
    <2>7. QED
      BY <2>1, <2>2, <2>3, <2>4, <2>5, <2>6 DEF Next, Answer
  <1>3. FogOnItsWay => FogSettles
    BY DEF FogOnItsWay, FogSettles
  <1>4. QED
    BY <1>1, <1>2, <1>3, InitInv, InvStep, PTL DEF Spec

-----------------------------------------------------------------------------
(* The cap.                                                                *)

\* The replies a call in flight can still have to pay for: <<c, 1>> for the
\* one it waits for and <<c, 2>> for a re-ask.
Payable ==
    {x \in Calls \X {1, 2} :
        /\ pc[x[1]] # "idle"
        /\ x[2] = 2 => kind[x[1]] = "schema" /\ ~reask[x[1]]}

Limit == HardCap - 1 + MaxCost * (2 * Cardinality(Calls))

\* What was spent and what the calls in flight can still spend.
CommitmentBounded == spend + MaxCost * Cardinality(Payable) <= Limit

\* No more than two replies of every call site.
LEMMA ReplySets ==
  ASSUME NEW S \in SUBSET (Calls \X {1, 2})
  PROVE  /\ IsFiniteSet(S)
         /\ Cardinality(S) \in Nat
         /\ Cardinality(Calls) \in Nat
         /\ Cardinality(S) <= 2 * Cardinality(Calls)
  <1>1. /\ IsFiniteSet({1, 2})
        /\ Cardinality({1, 2}) = 2
    <2>1. IsFiniteSet({1}) /\ Cardinality({1}) = 1
      BY FS_Singleton
    <2>2. {1, 2} = {1} \cup {2}
      OBVIOUS
    <2>3. QED
      BY <2>1, <2>2, FS_AddElement
  <1>2. /\ IsFiniteSet(Calls \X {1, 2})
        /\ Cardinality(Calls \X {1, 2}) = Cardinality(Calls) * 2
    BY <1>1, FS_Product, CallsAssumption
  <1>3. Cardinality(Calls) \in Nat
    BY FS_CardinalityType, CallsAssumption
  <1>4. IsFiniteSet(S) /\ Cardinality(S) <= Cardinality(Calls \X {1, 2})
    BY <1>2, FS_Subset
  <1>5. Cardinality(S) \in Nat
    BY <1>4, FS_CardinalityType
  <1>6. QED
    BY <1>2, <1>3, <1>4, <1>5

\* Fewer replies cost no more.
LEMMA ScaleMonotone ==
  ASSUME NEW m \in Nat, NEW a \in Nat, NEW b \in Nat, a <= b
  PROVE  m * a <= m * b
  OBVIOUS

\* One reply less leaves room for the cost of one.
LEMMA ScaleStep ==
  ASSUME NEW m \in Nat, NEW a \in Nat, NEW b \in Nat, a + 1 <= b
  PROVE  m * a + m <= m * b
  OBVIOUS

\* A reply still to come is the first or the second of a call.
LEMMA PayableTypes ==
  Payable \in SUBSET (Calls \X {1, 2}) /\ Payable' \in SUBSET (Calls \X {1, 2})
  BY DEF Payable

\* A call is only admitted below the cap, whatever the others can still spend.
LEMMA AdmitBounded ==
  ASSUME TypeOK, spend < HardCap, UNCHANGED spend
  PROVE  CommitmentBounded'
  <1>1. /\ Cardinality(Payable') \in Nat /\ Cardinality(Calls) \in Nat
        /\ Cardinality(Payable') <= 2 * Cardinality(Calls)
    BY ReplySets, PayableTypes
  <1>2. MaxCost * Cardinality(Payable') <= MaxCost * (2 * Cardinality(Calls))
    BY <1>1, ScaleMonotone, CapAssumption
  <1>3. QED
    BY <1>1, <1>2, CapAssumption DEF CommitmentBounded, Limit, TypeOK

\* Without a reply the commitment does not grow.
LEMMA NothingPaid ==
  ASSUME TypeOK, CommitmentBounded, spend' \in Nat, spend' <= spend,
         Payable' \subseteq Payable
  PROVE  CommitmentBounded'
  <1>1. /\ Cardinality(Payable') \in Nat /\ Cardinality(Payable) \in Nat
        /\ Cardinality(Payable') <= Cardinality(Payable)
        /\ Cardinality(Calls) \in Nat
    BY ReplySets, PayableTypes, FS_Subset
  <1>2. MaxCost * Cardinality(Payable') <= MaxCost * Cardinality(Payable)
    BY <1>1, ScaleMonotone, CapAssumption
  <1>3. QED
    BY <1>1, <1>2, CapAssumption DEF CommitmentBounded, Limit, TypeOK

\* A reply is paid out of what was committed for it.
LEMMA ReplyPaid ==
  ASSUME TypeOK, CommitmentBounded, NEW cost \in 0 .. MaxCost,
         spend' = spend + cost, NEW x \in Payable, Payable' \subseteq Payable \ {x}
  PROVE  CommitmentBounded'
  <1>1. /\ IsFiniteSet(Payable \ {x}) /\ Cardinality(Payable) \in Nat
        /\ Cardinality(Payable \ {x}) = Cardinality(Payable) - 1
        /\ Cardinality(Calls) \in Nat
    BY ReplySets, PayableTypes, FS_RemoveElement
  <1>2. /\ Cardinality(Payable') \in Nat
        /\ Cardinality(Payable') + 1 <= Cardinality(Payable)
    BY <1>1, ReplySets, PayableTypes, FS_Subset
  <1>3. MaxCost * Cardinality(Payable') + MaxCost <= MaxCost * Cardinality(Payable)
    BY <1>1, <1>2, ScaleStep, CapAssumption
  <1> DEFINE before == MaxCost * Cardinality(Payable)
             after == MaxCost * Cardinality(Payable')
  <1>4. before \in Nat /\ after \in Nat /\ after + MaxCost <= before
    BY <1>1, <1>2, <1>3, CapAssumption
  <1>5. Limit \in Int /\ spend + before <= Limit
    BY <1>1, CapAssumption DEF CommitmentBounded, Limit
  <1>6. spend + cost + after <= Limit
    <2> HIDE DEF before, after
    <2> QED
      BY <1>4, <1>5, CapAssumption DEF TypeOK
  <1>7. QED
    BY <1>6 DEF CommitmentBounded, Limit

\* A day never costs more than the cap and two replies of every call that can
\* be in flight.  The spend alone is no inductive invariant: what the calls in
\* flight can still cost has to be counted with it.
THEOREM OvershootBounded == Spec => []BoundedOvershoot
  <1>1. Init => CommitmentBounded
    <2> SUFFICES ASSUME Init
                 PROVE  CommitmentBounded
      OBVIOUS
    <2>1. Payable = {}
      BY DEF Init, Payable
    <2>2. Cardinality(Payable) = 0
      BY <2>1, FS_EmptySet
    <2>3. Cardinality(Calls) \in Nat
      BY ReplySets, PayableTypes
    <2>4. MaxCost * (2 * Cardinality(Calls)) \in Nat /\ MaxCost * 0 = 0
      BY <2>3, CapAssumption
    <2>5. QED
      BY <2>2, <2>4, CapAssumption DEF Init, CommitmentBounded, Limit
  <1>2. Inv /\ CommitmentBounded /\ [Next]_vars => CommitmentBounded'
    <2> SUFFICES ASSUME Inv, CommitmentBounded, [Next]_vars
                 PROVE  CommitmentBounded'
      OBVIOUS
    <2> USE DEF Inv
    <2>1. ASSUME NEW c \in Calls, Admit(c)
          PROVE  CommitmentBounded'
      BY <2>1, AdmitBounded DEF Admit
    <2>2. ASSUME NEW c \in Calls, Reply(c)
          PROVE  CommitmentBounded'
      <3>1. <<c, 1>> \in Payable
        BY <2>2 DEF Reply, Payable
      <3>2. Payable' \subseteq Payable \ {<<c, 1>>}
        BY <2>2 DEF Reply, Done, Payable, TypeOK
      <3>3. QED
        BY <2>2, <3>1, <3>2, ReplyPaid DEF Reply
    <2>3. ASSUME NEW c \in Calls, InvalidReply(c)
          PROVE  CommitmentBounded'
      <3>1. CASE reask[c]
        <4>1. <<c, 1>> \in Payable
          BY <2>3 DEF InvalidReply, Payable
        <4>2. Payable' \subseteq Payable \ {<<c, 1>>}
          BY <2>3, <3>1 DEF InvalidReply, Done, Payable, TypeOK
        <4>3. QED
          BY <2>3, <4>1, <4>2, ReplyPaid DEF InvalidReply
      <3>2. CASE ~reask[c]
        <4>1. <<c, 2>> \in Payable
          BY <2>3, <3>2 DEF InvalidReply, Payable
        <4>2. Payable' \subseteq Payable \ {<<c, 2>>}
          BY <2>3, <3>2 DEF InvalidReply, Payable, TypeOK
        <4>3. QED
          BY <2>3, <4>1, <4>2, ReplyPaid DEF InvalidReply
      <3>3. QED
        BY <3>1, <3>2
    <2>4. ASSUME NEW c \in Calls, RateLimited(c) \/ GiveUp(c)
          PROVE  CommitmentBounded'
      <3>1. Payable' \subseteq Payable
        BY <2>4 DEF RateLimited, GiveUp, Done, Payable, TypeOK
      <3>2. QED
        BY <2>4, <3>1, NothingPaid DEF RateLimited, GiveUp, TypeOK
    <2>5. ASSUME NEW c \in Calls, BackOff(c) \/ Retry(c)
          PROVE  CommitmentBounded'
      <3>1. Payable' \subseteq Payable
        BY <2>5 DEF BackOff, Retry, Payable, TypeOK
      <3>2. QED
        BY <2>5, <3>1, NothingPaid DEF BackOff, Retry, TypeOK
    <2>6. CASE \/ \E c \in Calls : Refuse(c)
               \/ Rollover \/ Pause \/ Resume \/ Publish \/ UNCHANGED vars
      <3>1. Payable' = Payable
        BY <2>6
        DEF Refuse, Rollover, Pause, Resume, Publish, vars, callVars, Payable
      <3>2. spend' \in Nat /\ spend' <= spend
        BY <2>6 DEF Refuse, Rollover, Pause, Resume, Publish, vars, TypeOK
      <3>3. QED
        BY <3>1, <3>2, NothingPaid
    <2>7. QED
      BY <2>1, <2>2, <2>3, <2>4, <2>5, <2>6 DEF Next, Answer
  <1>3. Inv /\ CommitmentBounded => BoundedOvershoot
    <2> SUFFICES ASSUME Inv, CommitmentBounded
                 PROVE  BoundedOvershoot
      OBVIOUS
    <2>1. Cardinality(Payable) \in Nat /\ Cardinality(Calls) \in Nat
      BY ReplySets, PayableTypes
    <2>2. /\ MaxCost * Cardinality(Payable) \in Nat
          /\ MaxCost * (2 * Cardinality(Calls)) \in Nat
      BY <2>1, CapAssumption
    <2>3. QED
      BY <2>2, CapAssumption
      DEF CommitmentBounded, BoundedOvershoot, Limit, Inv, TypeOK
  <1>4. QED
    BY <1>1, <1>2, <1>3, InitInv, InvStep, PTL DEF Spec

-----------------------------------------------------------------------------
(* How long a call can last.                                               *)

\* The answers and sleeps that are left to one request of a call.
OfRequest(c) == 2 * (Retries - attempt[c]) + IF pc[c] = "dispatched" THEN 1 ELSE 0

\* Those of a call: an answer that breaks the schema can start it over once.
Left(c) ==
    IF pc[c] = "idle" THEN 0
    ELSE OfRequest(c) + IF kind[c] = "schema" /\ ~reask[c] THEN 2 * Retries + 1 ELSE 0

\* A call in flight has at least one answer or sleep before it, and no more than
\* the attempts of a request and of its re-ask.
CallsAreShort ==
    \A c \in Calls : IF pc[c] = "idle" THEN Left(c) = 0
                     ELSE Left(c) \in 1 .. 4 * Retries + 2

\* Whatever the transport answers to a call, and every sleep of it that ends,
\* brings it nearer to its end; nothing else that happens sets it back.
CallsWindDown ==
    [][\A c \in Calls : pc[c] # "idle" => /\ Left(c)' <= Left(c)
                                          /\ Answer(c) \/ Retry(c) => Left(c)' < Left(c)]_vars

\* What is left is a number within those bounds.
LEMMA LeftBounds == Inv => CallsAreShort
  <1> SUFFICES ASSUME Inv, NEW c \in Calls
               PROVE  IF pc[c] = "idle" THEN Left(c) = 0
                      ELSE Left(c) \in 1 .. 4 * Retries + 2
    BY DEF CallsAreShort
  <1>1. /\ attempt[c] \in 0 .. Retries /\ Retries \in Nat
        /\ pc[c] \in {"idle", "dispatched", "backoff"}
        /\ pc[c] = "backoff" => attempt[c] < Retries
    BY RetryAssumption DEF Inv, TypeOK, BackoffHasRetry
  <1>2. pc[c] # "idle" => OfRequest(c) \in 1 .. 2 * Retries + 1
    BY <1>1 DEF OfRequest
  <1>3. QED
    BY <1>1, <1>2 DEF Left

\* What a step leaves alone of a call keeps what is left of it.
LEMMA LeftSame ==
  ASSUME NEW c \in Calls, pc'[c] = pc[c], kind'[c] = kind[c],
         attempt'[c] = attempt[c], reask'[c] = reask[c]
  PROVE  Left(c)' = Left(c)
  BY DEF Left, OfRequest

\* A call that ends has nothing left.
LEMMA LeftDone ==
  ASSUME Inv, NEW c \in Calls, pc[c] # "idle", Done(c)
  PROVE  Left(c)' < Left(c)
  <1>1. Left(c)' = 0
    BY DEF Left, Done, Inv, TypeOK
  <1>2. Left(c) \in 1 .. 4 * Retries + 2 /\ Retries \in Nat
    BY LeftBounds, RetryAssumption DEF CallsAreShort
  <1>3. QED
    BY <1>1, <1>2

\* Every answer and every sleep that ends leaves less of its call.
LEMMA LeftDrops ==
  ASSUME Inv, NEW c \in Calls, Answer(c) \/ Retry(c)
  PROVE  /\ pc[c] # "idle"
         /\ Left(c)' < Left(c)
         /\ \A d \in Calls \ {c} : Left(d)' = Left(d)
  <1>1. /\ attempt[c] \in 0 .. Retries /\ Retries \in Nat
        /\ attempt \in [Calls -> 0 .. Retries]
        /\ reask \in [Calls -> BOOLEAN]
        /\ pc \in [Calls -> {"idle", "dispatched", "backoff"}]
        /\ kind \in [Calls -> Kinds]
    BY RetryAssumption DEF Inv, TypeOK
  <1>2. pc[c] # "idle"
    BY DEF Answer, Reply, InvalidReply, RateLimited, BackOff, GiveUp, Retry
  <1>3. CASE Done(c)
    <2>1. \A d \in Calls \ {c} : Left(d)' = Left(d)
      BY <1>1, <1>3, LeftSame DEF Done
    <2>2. QED
      BY <1>2, <1>3, <2>1, LeftDone
  <1>4. CASE BackOff(c)
    <2>1. Left(c)' < Left(c)
      BY <1>1, <1>4 DEF BackOff, Left, OfRequest
    <2>2. \A d \in Calls \ {c} : Left(d)' = Left(d)
      BY <1>1, <1>4, LeftSame DEF BackOff
    <2>3. QED
      BY <1>2, <2>1, <2>2
  <1>5. CASE Retry(c)
    <2>1. Left(c)' < Left(c)
      BY <1>1, <1>5 DEF Retry, Left, OfRequest
    <2>2. \A d \in Calls \ {c} : Left(d)' = Left(d)
      BY <1>1, <1>5, LeftSame DEF Retry
    <2>3. QED
      BY <1>2, <2>1, <2>2
  <1>6. CASE InvalidReply(c) /\ ~reask[c]
    <2>1. /\ pc[c] = "dispatched" /\ kind[c] = "schema"
          /\ pc' = pc /\ kind' = kind
          /\ reask' = [reask EXCEPT ![c] = TRUE]
          /\ attempt' = [attempt EXCEPT ![c] = 0]
      BY <1>6 DEF InvalidReply
    <2>2. Left(c) = 2 * (Retries - attempt[c]) + 1 + 2 * Retries + 1
      BY <1>1, <1>6, <2>1 DEF Left, OfRequest
    <2>3. reask'[c] /\ attempt'[c] = 0
      BY <1>1, <2>1
    <2>4. Left(c)' = 2 * Retries + 1
      BY <1>1, <2>1, <2>3 DEF Left, OfRequest
    <2>5. \A d \in Calls \ {c} : Left(d)' = Left(d)
      BY <1>1, <2>1, LeftSame
    <2>6. QED
      BY <1>1, <1>2, <2>2, <2>4, <2>5
  <1>7. QED
    BY <1>3, <1>4, <1>5, <1>6
    DEF Answer, Reply, InvalidReply, RateLimited, GiveUp

\* A call takes at most 4 * Retries + 2 answers and sleeps, the attempts of a
\* request and of its re-ask.
THEOREM CallsStayShort == Spec => []CallsAreShort
  BY InitInv, InvStep, LeftBounds, PTL DEF Spec

\* Every answer and sleep of a call uses one of them up: with answers that come,
\* this is why every call ends.
THEOREM EveryAnswerCounts == Spec => CallsWindDown
  <1>1. Inv /\ [Next]_vars
          => [\A c \in Calls : pc[c] # "idle" =>
                /\ Left(c)' <= Left(c)
                /\ Answer(c) \/ Retry(c) => Left(c)' < Left(c)]_vars
    <2> SUFFICES ASSUME Inv, Next, NEW c \in Calls, pc[c] # "idle"
                 PROVE  /\ Left(c)' <= Left(c)
                        /\ Answer(c) \/ Retry(c) => Left(c)' < Left(c)
      OBVIOUS
    <2>1. Answer(c) \/ Retry(c) => Left(c)' < Left(c)
      BY LeftDrops
    <2>2. Left(c) \in Nat
      BY LeftBounds, RetryAssumption DEF CallsAreShort
    <2>3. Left(c)' <= Left(c)
      <3>1. ASSUME NEW d \in Calls, Answer(d) \/ Retry(d)
            PROVE  Left(c)' <= Left(c)
        <4>1. CASE c = d
          <5>1. Left(c)' < Left(c) /\ Inv'
            BY <3>1, <4>1, LeftDrops, InvStep
          <5>2. Inv' => CallsAreShort'
            BY LeftBounds, PTL
          <5>3. Left(c)' \in Nat
            BY <5>1, <5>2, RetryAssumption DEF CallsAreShort
          <5>4. QED
            BY <5>1, <5>3, <2>2
        <4>2. CASE c # d
          BY <3>1, <4>2, <2>2, LeftDrops
        <4>3. QED
          BY <4>1, <4>2
      <3>2. ASSUME NEW d \in Calls, Admit(d)
            PROVE  Left(c)' <= Left(c)
        <4>1. c # d
          BY <3>2 DEF Admit
        <4>2. Left(c)' = Left(c)
          BY <3>2, <4>1, LeftSame DEF Admit, Inv, TypeOK
        <4>3. QED
          BY <4>2, <2>2
      <3>3. CASE UNCHANGED callVars
        <4>1. Left(c)' = Left(c)
          BY <3>3, LeftSame DEF callVars
        <4>2. QED
          BY <4>1, <2>2
      <3>4. QED
        BY <3>1, <3>2, <3>3 DEF Next, Refuse, Rollover, Pause, Resume, Publish
    <2>4. QED
      BY <2>1, <2>3
  <1>2. QED
    BY <1>1, InitInv, InvStep, PTL DEF Spec, CallsWindDown
=============================================================================
