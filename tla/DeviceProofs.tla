---------------------------- MODULE DeviceProofs -----------------------------
(***************************************************************************)
(* Proofs about four devices whose interrupts meet a main program          *)
(* anywhere: the robot's sensor module (RobotSensor), the kernel's console *)
(* over the serial port (Console), the robot's control module              *)
(* (RobotControl) and the kernel's ATA driver (BlockDevices); and about    *)
(* the start and the stop of the kernel (KernelBoot).  They share no       *)
(* variable.                                                               *)
(***************************************************************************)
EXTENDS RobotSensor, Console, RobotControl, BlockDevices, KernelBoot, ModuloLemmas,
        SequenceTheorems, FiniteSetTheorems, TLAPS

(***************************************************************************)
(* 1. The sensor module.                                                   *)
(***************************************************************************)

GyroStates == {"idle", "rotating", "settling", "done"}
FillSteps == {"updated", "tracking", "copy", "length", "enable", "busy"}
FillType == [step : FillSteps, now : Nat]
Diodes == 1 .. 2 * LED_COUNT
BytePair == [1 .. 2 -> Int]
ShownType == [tape : [Diodes -> BytePair], raw : BytePair, state : GyroStates, angle : BytePair,
              distance : BytePair]

LocalsOK ==
  /\ diode \in Nat /\ adcValue \in Int /\ currentTime \in Nat /\ deltaTime \in Int
  /\ copied \in Int /\ fresh \in Int /\ switched \in GyroStates /\ timestamp \in Nat
GyroOK ==
  /\ currentState \in GyroStates /\ stableCount \in Int /\ currentAngle \in Int
  /\ lastUpdateTime \in Nat /\ millisCounter \in 0 .. MaxMillis
  /\ quiet \in 0 .. CONSECUTIVE_READINGS /\ turned \in Int /\ since \in Nat
ReportOK == shown \in ShownType /\ measured \in ShownType
BusOK ==
  /\ i2c_index \in Nat /\ tx_buffer \in [1 .. I2C_BUFFER_SIZE -> Int] /\ fills \in Seq(FillType)
  /\ phase \in {"idle", "addressed", "written", "filled", "reading"}
  /\ got \in Seq(Int) /\ expected \in Seq(Int)

RsTypeOK == LocalsOK /\ GyroOK /\ ReportOK /\ BusOK

LEMMA WordIs == ASSUME NEW v \in Int PROVE Word16(v) \in BytePair
  BY DEF Word16, BytePair

LEMMA BytePairIs == ASSUME NEW p \in BytePair PROVE p \in Seq(Int)
  <1> DEFINE n == 2
  <1>1. n \in Nat /\ p \in [1 .. n -> Int]
    BY DEF BytePair
  <1> HIDE DEF n
  <1> QED BY <1>1

LEMMA PairByte ==
  ASSUME NEW p \in BytePair, NEW b \in 1 .. 2, NEW v \in Int
  PROVE  [p EXCEPT ![b] = Word16(v)[b]] \in BytePair
  BY WordIs DEF BytePair

LEMMA HalfIs ==
  ASSUME NEW tape \in [Diodes -> BytePair], NEW first \in {0, LED_COUNT}
  PROVE  Half(tape, first) \in Seq(Int)
  <1>0. LED_COUNT \in Nat
    BY RsAssumption
  <1>1. ASSUME NEW i \in Diodes PROVE tape[first + (i + 1) \div 2][2 - (i % 2)] \in Int
    <2>1. first + (i + 1) \div 2 \in Diodes
      BY <1>0 DEF Diodes
    <2>2. 2 - (i % 2) \in 1 .. 2
      BY <1>0 DEF Diodes
    <2> QED BY <2>1, <2>2 DEF BytePair
  <1>2. Half(tape, first) \in [1 .. 2 * LED_COUNT -> Int]
    BY <1>1 DEF Half, Diodes
  <1>3. 2 * LED_COUNT \in Nat
    BY <1>0
  <1> QED BY <1>2, <1>3

LEMMA ReplyIs ==
  ASSUME NEW s \in ShownType, NEW c
  PROVE  Reply(c, s) \in Seq(Int)
  <1>1. s.raw \in Seq(Int) /\ s.angle \in Seq(Int) /\ s.distance \in Seq(Int)
    BY BytePairIs DEF ShownType
  <1>2. Half(s.tape, 0) \in Seq(Int) /\ Half(s.tape, LED_COUNT) \in Seq(Int)
    BY HalfIs DEF ShownType
  <1>3. StateCode(s.state) \in Int
    BY DEF ShownType, GyroStates, StateCode
  <1>4. <<StateCode(s.state)>> \in Seq(Int) /\ <<1>> \in Seq(Int) /\ <<>> \in Seq(Int)
        /\ <<170, 187, 204, 221>> \in Seq(Int)
    BY <1>3
  <1> QED BY <1>1, <1>2, <1>4 DEF Reply

LEMMA FilledIs ==
  ASSUME BusOK, NEW bytes \in Seq(Int)
  PROVE  Filled(bytes) \in [1 .. I2C_BUFFER_SIZE -> Int]
  <1>0. I2C_BUFFER_SIZE \in Nat
    BY RsAssumption
  <1>1. ASSUME NEW i \in 1 .. I2C_BUFFER_SIZE
        PROVE  (IF i <= Len(bytes) THEN bytes[i] ELSE tx_buffer[i]) \in Int
    BY <1>0 DEF BusOK
  <1> QED BY <1>1 DEF Filled

LEMMA ReadingIs == ASSUME NEW adc \in readADC PROVE adc \in Int /\ Diff(adc) \in Int
  BY RsAssumption DEF readADC, Failed, Diff, Zero

LEMMA InnerIs ==
  ASSUME BusOK, fills # <<>>
  PROVE  Len(fills) \in 1 .. Len(fills) /\ Inner \in FillType /\ Inner = fills[Len(fills)]
  BY DEF BusOK, Inner

LEMMA InnerStepIs ==
  ASSUME BusOK, NEW from, NEW to \in FillSteps, InnerStep(from, to)
  PROVE  /\ fills' \in Seq(FillType) /\ Len(fills') = Len(fills) /\ Len(fills) \in Nat \ {0}
         /\ \A i \in 1 .. Len(fills) : i # Len(fills) => fills'[i] = fills[i]
         /\ fills[Len(fills)].step = from
         /\ fills'[Len(fills)].step = to /\ fills'[Len(fills)].now = fills[Len(fills)].now
  <1>1. Len(fills) \in 1 .. Len(fills) /\ fills[Len(fills)] \in FillType /\ fills \in Seq(FillType)
    BY InnerIs DEF InnerStep, Inner, BusOK
  <1> DEFINE f == [fills[Len(fills)] EXCEPT !.step = to]
  <1>2. f \in FillType /\ f.step = to /\ f.now = fills[Len(fills)].now
    BY <1>1 DEF FillType
  <1>3. fills' = [fills EXCEPT ![Len(fills)] = f]
    BY DEF InnerStep
  <1> HIDE DEF f
  <1>4. fills' \in Seq(FillType) /\ Len(fills') = Len(fills)
    BY <1>1, <1>2, <1>3
  <1> QED BY <1>1, <1>2, <1>3, <1>4 DEF InnerStep, Inner

LEMMA MainLocals == ASSUME LocalsOK, GyroOK, MainNext PROVE LocalsOK'
  <1> USE DEF LocalsOK, GyroOK, locals, Goto, Return, Take, Copy, GyroStates
  <1>1. CASE CheckBus \/ i2c_restart \/ GyrosWanted \/ StateChanges \/ StartZero \/ StartTime
             \/ TrackingChanges
    BY <1>1 DEF CheckBus, i2c_restart, GyrosWanted, StateChanges, SetState, StartZero, StartTime,
                TrackingChanges
  <1>2. CASE TapeReadSensor
    <2>1. CASE Here("tape")
      <3>1. PICK v \in Tape : Take(v, "tape2")
        BY <1>2, <2>1 DEF TapeReadSensor, Here
      <3>2. v \in Int
        BY RsAssumption
      <3> QED BY <3>1, <3>2
    <2>2. CASE Here("tape2")
      BY <1>2, <2>2 DEF TapeReadSensor, Here
    <2> QED BY <1>2, <2>1, <2>2 DEF TapeReadSensor
  <1>3. CASE TapeDone
    BY <1>3 DEF TapeDone
  <1>4. CASE UpdateReads \/ StoreRaw \/ RotationReads
    BY <1>4, ReadingIs DEF UpdateReads, StoreRaw, RotationReads
  <1>5. CASE UpdateNow \/ StartNow
    BY <1>5, RsAssumption DEF UpdateNow, StartNow, GetMillis, gyrosGetMillis
  <1>6. CASE UpdateDelta
    <2>1. (currentTime - lastUpdateTime) % ClockMod \in Int
      BY RsAssumption
    <2> QED BY <1>6, <2>1 DEF UpdateDelta
  <1>7. CASE UpdateTime \/ UpdateAngle \/ Switch \/ StableChanges \/ ShowState \/ ShowAngle
    BY <1>7 DEF UpdateTime, UpdateAngle, Switch, StableChanges, ShowState, ShowAngle
  <1>8. CASE Ultrasound
    <2>1. \A p \in Pulses : getObstacleDistance(p) \in Int
      BY RsAssumption DEF getObstacleDistance, getPulseTime
    <2> QED BY <1>8, <2>1, RsAssumption DEF Ultrasound
  <1> QED BY <1>1, <1>2, <1>3, <1>4, <1>5, <1>6, <1>7, <1>8 DEF MainNext

LEMMA MainGyro == ASSUME LocalsOK, GyroOK, MainNext PROVE GyroOK'
  <1> USE DEF LocalsOK, GyroOK, gyrovars, truth
  <1>0. UNCHANGED millisCounter
    BY DEF MainNext
  <1>1. CASE CheckBus \/ i2c_restart \/ TapeReadSensor \/ TapeDone \/ GyrosWanted \/ UpdateReads
             \/ UpdateNow \/ UpdateDelta \/ StoreRaw \/ Switch \/ ShowState \/ ShowAngle \/ Ultrasound
    BY <1>0, <1>1 DEF CheckBus, i2c_restart, TapeReadSensor, TapeDone, GyrosWanted, UpdateReads,
                UpdateNow, UpdateDelta, StoreRaw, Switch, ShowState, ShowAngle, Ultrasound
  <1>2. CASE UpdateTime
    BY <1>0, <1>2 DEF UpdateTime
  <1>3. CASE UpdateAngle
    <2>1. copied + (adcValue - Zero) * deltaTime \in Int
          /\ turned + (adcValue - Zero) * (currentTime - since) \in Int
      BY DEF Zero
    <2> QED BY <1>0, <1>3, <2>1 DEF UpdateAngle
  <1>4. CASE RotationReads
    BY <1>0, <1>4, RsAssumption DEF RotationReads
  <1>5. CASE StateChanges \/ TrackingChanges
    BY <1>0, <1>5 DEF StateChanges, SetState, TrackingChanges, GyroStates
  <1>6. CASE StableChanges
    BY <1>0, <1>6 DEF StableChanges
  <1>7. CASE StartZero
    BY <1>0, <1>7 DEF StartZero
  <1>9. CASE StartTime
    BY <1>0, <1>9 DEF StartTime
  <1>8. CASE StartNow
    <2>1. millisCounter \in Nat
      BY RsAssumption
    <2> QED BY <1>0, <1>8, <2>1 DEF StartNow
  <1> QED BY <1>1, <1>2, <1>3, <1>4, <1>5, <1>6, <1>7, <1>8, <1>9 DEF MainNext

LEMMA MainReport == ASSUME LocalsOK, GyroOK, ReportOK, MainNext PROVE ReportOK'
  <1> USE DEF ReportOK
  <1>1. CASE UNCHANGED report
    BY <1>1 DEF report
  <1>2. CASE TapeReadSensor
    <2>1. PICK p \in BytePair :
            /\ shown' = [shown EXCEPT !.tape[diode + 1] = p]
            /\ measured' \in {measured, [measured EXCEPT !.tape[diode + 1] = p]}
      <3>1. CASE Here("tape")
        <4>1. PICK v \in Tape, b \in 1 .. 2 : shown' = [shown EXCEPT !.tape[diode + 1][b] = Word16(v)[b]]
          BY <1>2, <3>1 DEF TapeReadSensor, Here
        <4>2. diode < 2 * LED_COUNT /\ measured' = measured
          BY <1>2, <3>1 DEF TapeReadSensor, Here
        <4>3. diode + 1 \in Diodes
          BY <4>2, RsAssumption DEF LocalsOK, Diodes
        <4>4. shown.tape[diode + 1] \in BytePair /\ v \in Int
          BY <4>3, RsAssumption DEF ShownType
        <4> QED BY <4>1, <4>2, <4>4, PairByte
      <3>2. CASE Here("tape2")
        BY <1>2, <3>2, WordIs DEF TapeReadSensor, Here, LocalsOK
      <3> QED BY <1>2, <3>1, <3>2 DEF TapeReadSensor
    <2> QED BY <2>1 DEF ShownType
  <1>3. CASE StoreRaw
    <2>1. PICK p \in BytePair : /\ shown' = [shown EXCEPT !.raw = p]
                           /\ measured' \in {measured, [measured EXCEPT !.raw = p]}
      <3>1. shown.raw \in BytePair
        BY DEF ShownType
      <3> QED BY <1>3, <3>1, PairByte, WordIs, ReadingIs DEF StoreRaw, LocalsOK
    <2> QED BY <2>1 DEF ShownType
  <1>4. CASE ShowState
    <2>1. PICK g \in GyroStates : /\ shown' \in {shown, [shown EXCEPT !.state = g]}
                                 /\ measured' \in {measured, [measured EXCEPT !.state = g]}
      BY <1>4 DEF ShowState, LocalsOK, report
    <2> QED BY <2>1 DEF ShownType
  <1>5. CASE ShowAngle
    <2>1. PICK p \in BytePair, q \in BytePair :
            /\ shown' \in {shown, [shown EXCEPT !.angle = p]}
            /\ measured' \in {measured, [measured EXCEPT !.angle = q]}
      <3>1. shown.angle \in BytePair
        BY DEF ShownType
      <3>2. CASE Here("angle0")
        BY <1>5, <3>1, <3>2 DEF ShowAngle, Here, report
      <3>3. CASE Here("angle1")
        <4>1. PICK b \in 1 .. 2 : shown' = [shown EXCEPT !.angle[b] = Word16(copied)[b]]
          BY <1>5, <3>3 DEF ShowAngle, Here
        <4> QED BY <1>5, <3>1, <3>3, <4>1, PairByte DEF ShowAngle, Here, LocalsOK
      <3>4. CASE Here("angle2")
        <4>1. Word16(copied) \in BytePair /\ Word16(fresh) \in BytePair
          BY WordIs DEF LocalsOK
        <4> QED BY <1>5, <3>4, <4>1 DEF ShowAngle, Here
      <3> QED BY <1>5, <3>2, <3>3, <3>4 DEF ShowAngle
    <2> QED BY <2>1 DEF ShownType
  <1>6. CASE Ultrasound
    <2>1. PICK p \in BytePair : /\ shown' \in {shown, [shown EXCEPT !.distance = p]}
                           /\ measured' \in {measured, [measured EXCEPT !.distance = p]}
      <3>1. shown.distance \in BytePair /\ \A p \in Pulses : getObstacleDistance(p) \in Int
        BY RsAssumption DEF ShownType, getObstacleDistance, getPulseTime
      <3> QED BY <1>6, <3>1, PairByte, WordIs DEF Ultrasound, LocalsOK, report
    <2> QED BY <2>1 DEF ShownType
  <1>7. CASE CheckBus \/ i2c_restart \/ TapeDone \/ GyrosWanted \/ UpdateReads \/ UpdateNow
             \/ UpdateDelta \/ UpdateTime \/ UpdateAngle \/ RotationReads \/ Switch \/ StateChanges
             \/ StableChanges \/ StartZero \/ StartNow \/ StartTime \/ TrackingChanges
    BY <1>1, <1>7 DEF CheckBus, i2c_restart, TapeDone, GyrosWanted, UpdateReads, UpdateNow, UpdateDelta,
         UpdateTime, UpdateAngle, RotationReads, Switch, StateChanges, StableChanges, StartZero,
         StartNow, StartTime, TrackingChanges
  <1> QED BY <1>2, <1>3, <1>4, <1>5, <1>6, <1>7 DEF MainNext

LEMMA MainBus == ASSUME BusOK, MainNext PROVE BusOK'
  <1>1. UNCHANGED <<fills, mastervars>>
    BY DEF MainNext
  <1>2. CASE i2c_restart
    BY <1>1, <1>2 DEF i2c_restart, BusOK, mastervars
  <1>3. ASSUME UNCHANGED twivars PROVE BusOK'
    BY <1>1, <1>3 DEF twivars, BusOK, mastervars
  <1>4. CASE MainNext /\ ~i2c_restart
    BY <1>3, <1>4 DEF MainNext, CheckBus, TapeReadSensor, TapeDone, GyrosWanted, UpdateReads, UpdateNow,
       UpdateDelta, UpdateTime, UpdateAngle, StoreRaw, RotationReads, Switch, StateChanges,
       StableChanges, StartZero, StartNow, StartTime, TrackingChanges, ShowState, ShowAngle, Ultrasound
  <1> QED BY <1>2, <1>4

LEMMA NowIs == GyroOK => millisCounter \in Nat
  BY RsAssumption DEF GyroOK

LEMMA BusTypes == ASSUME GyroOK, ReportOK, BusOK, BusNext PROVE GyroOK' /\ BusOK'
  <1> USE DEF GyroOK, BusOK
  <1>0. UNCHANGED millisCounter
    BY DEF BusNext
  <1>1. CASE Addressed \/ CommandReceived
    BY <1>0, <1>1 DEF Addressed, CommandReceived, gyrovars, truth
  <1>3. CASE WriteOnly
    BY <1>0, <1>3 DEF WriteOnly, Over, gyrovars, truth, twivars
  <1>8. CASE ReplyEnded \/ BusError
    <2>1. got' = <<>> /\ expected' = <<>> /\ phase' = "idle"
          /\ UNCHANGED <<i2c_index, tx_buffer, fills, gyrovars, truth>>
      BY <1>8 DEF ReplyEnded, BusError, Over
    <2> QED BY <1>0, <2>1 DEF gyrovars, truth
  <1>2. CASE ByteSent
    <2> DEFINE index == IF phase = "filled" THEN 0 ELSE i2c_index
    <2>1. tx_buffer[index + 1] \in Int /\ index + 1 \in Nat
      BY <1>2, RsAssumption DEF ByteSent
    <2> HIDE DEF index
    <2>2. got' = Append(got, tx_buffer[index + 1]) /\ i2c_index' = index + 1
      BY <1>2 DEF ByteSent, index
    <2>3. got' \in Seq(Int)
      BY <2>1, <2>2
    <2> QED BY <1>0, <1>2, <2>1, <2>2, <2>3 DEF ByteSent, gyrovars, truth
  <1>4. CASE I2C_FillTxBuffer
    <2>1. Filled(Reply(request, shown)) \in [1 .. I2C_BUFFER_SIZE -> Int]
          /\ Reply(request, measured) \in Seq(Int)
      BY FilledIs, ReplyIs DEF ReportOK
    <2> QED BY <1>0, <1>4, <2>1 DEF I2C_FillTxBuffer, CommandEnded, i2c_write_response, truth
  <1>5. CASE resetRotationDirection
    <2>1. fills' \in Seq(FillType)
      <3>1. [step |-> "updated", now |-> millisCounter] \in FillType
        BY NowIs DEF FillType, FillSteps
      <3> QED BY <1>5, <3>1 DEF resetRotationDirection
    <2>2. Reply(request, measured) \in Seq(Int)
      BY ReplyIs DEF ReportOK
    <2>3. 0 \in 0 .. CONSECUTIVE_READINGS
      BY RsAssumption
    <2>5. /\ currentState' \in GyroStates /\ stableCount' \in Int /\ quiet' \in 0 .. CONSECUTIVE_READINGS
          /\ currentAngle' = 0 /\ turned' = 0 /\ since' = millisCounter
          /\ UNCHANGED <<lastUpdateTime, angleTracking>>
      BY <1>5, <2>3 DEF resetRotationDirection, CommandEnded, GyroStates
    <2>6. /\ phase' = "filled" /\ expected' = Reply(request, measured)
          /\ UNCHANGED <<i2c_index, tx_buffer, got>>
      BY <1>5 DEF resetRotationDirection, CommandEnded
    <2> QED BY <1>0, <2>1, <2>2, <2>5, <2>6, NowIs
  <1>6. CASE ResetGoesOn
    <2>1. /\ fills' \in Seq(FillType)
          /\ lastUpdateTime' \in {lastUpdateTime, Inner.now}
          /\ tx_buffer' \in {tx_buffer, [tx_buffer EXCEPT ![1] = 1]}
      BY <1>6, InnerStepIs DEF ResetGoesOn, FillSteps, twivars
    <2>2. Inner.now \in Nat
      BY <1>6, InnerIs DEF ResetGoesOn, InnerStep, FillType
    <2>3. UNCHANGED <<currentState, stableCount, currentAngle, i2c_index, mastervars, truth>>
      BY <1>6 DEF ResetGoesOn
    <2>4. lastUpdateTime' \in Nat
      BY <2>1, <2>2
    <2>5. tx_buffer' \in [1 .. I2C_BUFFER_SIZE -> Int]
      BY <2>1, RsAssumption
    <2>6. GyroOK'
      BY <1>0, <2>3, <2>4 DEF truth
    <2>7. BusOK'
      BY <2>1, <2>3, <2>5 DEF mastervars
    <2> QED BY <2>6, <2>7
  <1>7. CASE ResetEnds
    <2>1. fills' \in Seq(FillType)
      BY <1>7, InnerIs DEF ResetEnds
    <2> QED BY <1>0, <1>7, <2>1 DEF ResetEnds, truth, mastervars, gyrovars
  <1> QED BY <1>1, <1>2, <1>3, <1>4, <1>5, <1>6, <1>7, <1>8 DEF BusNext

LEMMA RsTypes ==
  /\ RsInit => RsTypeOK
  /\ RsTypeOK /\ [RsNext]_rsvars => RsTypeOK'
<1>1. RsInit => RsTypeOK
  <2> SUFFICES ASSUME RsInit PROVE RsTypeOK
    OBVIOUS
  <2>1. \A i \in Diodes : <<0, 0>> \in BytePair
    BY DEF BytePair
  <2>2. shown \in ShownType /\ measured \in ShownType
    BY <2>1 DEF RsInit, ShownType, Diodes, BytePair, GyroStates
  <2>3. LocalsOK /\ GyroOK
    BY RsAssumption DEF RsInit, LocalsOK, GyroOK, GyroStates
  <2>4. BusOK
    BY RsAssumption DEF RsInit, BusOK
  <2> QED BY <2>2, <2>3, <2>4 DEF RsTypeOK, ReportOK
<1>2. ASSUME RsTypeOK, RsNext PROVE RsTypeOK'
  <2>1. CASE Tick
    BY <1>2, <2>1, RsAssumption DEF Tick, RsTypeOK, LocalsOK, GyroOK, ReportOK, BusOK, locals, gyrovars, report,
                      twivars, mastervars, truth
  <2>2. CASE MainNext
    BY <1>2, <2>2, MainLocals, MainGyro, MainReport, MainBus DEF RsTypeOK
  <2>3. CASE BusNext
    <3>1. LocalsOK' /\ ReportOK'
      BY <1>2, <2>3 DEF BusNext, RsTypeOK, LocalsOK, ReportOK, locals, report
    <3> QED BY <1>2, <2>3, <3>1, BusTypes DEF RsTypeOK
  <2> QED BY <1>2, <2>1, <2>2, <2>3 DEF RsNext
<1>3. ASSUME RsTypeOK, UNCHANGED rsvars PROVE RsTypeOK'
  BY <1>3 DEF rsvars, RsTypeOK, LocalsOK, GyroOK, ReportOK, BusOK, locals, gyrovars, report,
              twivars, mastervars, truth
<1> QED BY <1>1, <1>2, <1>3

\* The readings below the threshold since the last reset bear the count n.
Covered(n) == n <= quiet \/ quiet = CONSECUTIVE_READINGS

\* What stableCount says, or will say after the step that is due, is covered by the readings.
SettleInv ==
  ~lost =>
    /\ currentState = "done" => quiet = CONSECUTIVE_READINGS
    /\ currentState = "settling" /\ mainStep \notin {"switch", "rotate", "first"}
         => Covered(stableCount)
    /\ mainStep = "switch" /\ Still /\ currentState = "rotating" => Covered(1)
    /\ mainStep = "switch" /\ Still /\ currentState = "settling" => Covered(stableCount + 1)
    /\ mainStep = "settle" => Covered(1)
    /\ mainStep = "first" /\ currentState = "settling" => Covered(1)
    /\ mainStep = "count" => Covered(stableCount + 1)
    /\ mainStep = "counted" => Covered(copied + 1)
    /\ mainStep = "finish" => quiet = CONSECUTIVE_READINGS

LEMMA SettleStep == ASSUME RsTypeOK, SettleInv, MainNext \/ BusNext PROVE SettleInv'
  <1> USE DEF RsTypeOK
  <1>1. ASSUME UNCHANGED <<currentState, stableCount, quiet, lost>>,
               mainStep' \notin {"switch", "settle", "first", "count", "counted", "finish"},
               mainStep \notin {"switch", "rotate", "first"}
        PROVE  SettleInv'
    BY <1>1 DEF SettleInv, Covered
  <1>2. CASE CheckBus \/ i2c_restart \/ TapeReadSensor \/ TapeDone \/ GyrosWanted \/ UpdateReads
             \/ UpdateNow \/ UpdateDelta \/ UpdateTime \/ UpdateAngle \/ StoreRaw
             \/ StartZero \/ StartNow \/ StartTime \/ TrackingChanges \/ ShowState \/ ShowAngle
             \/ Ultrasound
    <2>1. UNCHANGED <<currentState, stableCount, quiet, lost>>
      BY <1>2 DEF CheckBus, i2c_restart, TapeReadSensor, TapeDone, GyrosWanted, UpdateReads,
         UpdateNow, UpdateDelta, UpdateTime, UpdateAngle, StoreRaw, StartZero, StartNow, StartTime,
         TrackingChanges, ShowState, ShowAngle, Ultrasound, gyrovars, truth
    <2>2. mainStep \notin {"switch", "rotate", "first"}
          /\ mainStep' \notin {"switch", "settle", "first", "count", "counted", "finish"}
      BY <1>2 DEF CheckBus, i2c_restart, TapeReadSensor, TapeDone, GyrosWanted, UpdateReads,
         UpdateNow, UpdateDelta, UpdateTime, UpdateAngle, StoreRaw, StartZero, StartNow, StartTime,
         TrackingChanges, ShowState, ShowAngle, Ultrasound, Here, Goto, Return, Take, Copy, GetMillis
    <2> QED BY <1>1, <2>1, <2>2
  <1>3. CASE RotationReads
    <2>1. CASE mainStep' = "show"
      BY <1>1, <1>3, <2>1 DEF RotationReads, Here, Goto, Take, gyrovars
    <2>2. CASE mainStep' # "show"
      <3>1. PICK adc \in readADC :
              /\ Take(adc, "switch")
              /\ quiet' = IF currentState = "done" THEN quiet
                          ELSE IF Diff(adc) >= ROTATION_THRESHOLD THEN 0
                          ELSE IF quiet < CONSECUTIVE_READINGS THEN quiet + 1 ELSE quiet
        BY <1>3, <2>2 DEF RotationReads, Goto
      <3>2. Still' => ~(Diff(adc) >= ROTATION_THRESHOLD)
        <4>1. Diff(adc) \in Int /\ adcValue' = adc
          BY <3>1, ReadingIs DEF Take
        <4> QED BY <4>1 DEF Still, Diff, ROTATION_THRESHOLD
      <3>3. UNCHANGED <<currentState, stableCount, lost>> /\ mainStep' = "switch"
            /\ mainStep = "rotation"
        BY <1>3, <3>1 DEF RotationReads, gyrovars, Take, Here
      <3>4. Still' /\ currentState # "done"
              => quiet' = (IF quiet < CONSECUTIVE_READINGS THEN quiet + 1 ELSE quiet)
        BY <3>1, <3>2
      <3>5. quiet \in 0 .. CONSECUTIVE_READINGS /\ stableCount \in Int
            /\ CONSECUTIVE_READINGS \in Nat \ {0}
        BY RsAssumption DEF GyroOK
      <3>8. currentState = "done" => quiet' = quiet
        BY <3>1
      <3> QED BY <3>3, <3>4, <3>5, <3>8 DEF SettleInv, Covered
    <2> QED BY <2>1, <2>2
  <1>4. CASE Switch
    <2>1. UNCHANGED <<currentState, stableCount, quiet, lost>> /\ mainStep = "switch"
          /\ mainStep' = Case(currentState) /\ adcValue' = adcValue
      BY <1>4 DEF Switch, Here, gyrovars, truth
    <2>2. ASSUME NEW n \in Int, Covered(n + 1) PROVE Covered(n)
      BY <2>2 DEF Covered, GyroOK
    <2>3. stableCount \in Int
      BY DEF GyroOK
    <2> QED BY <2>1, <2>2, <2>3 DEF SettleInv, Case, Covered
  <1>5. CASE StateChanges
    BY <1>5 DEF StateChanges, SetState, Here, Goto, SettleInv, Covered, truth
  <1>6. CASE StableChanges
    <2>1. UNCHANGED <<currentState, quiet, lost>>
      BY <1>6 DEF StableChanges, truth
    <2>2. Covered(0)
      BY DEF Covered, GyroOK
    <2>3. CASE Here("unstable") /\ stableCount' = 0 /\ mainStep' \in {"zero", "show"}
      BY <2>1, <2>2, <2>3 DEF SettleInv, Covered
    <2>4. CASE Here("first") /\ stableCount' = 1 /\ mainStep' = "show"
      BY <2>1, <2>4 DEF SettleInv, Covered, Here
    <2>5. CASE Here("count") /\ copied' = stableCount /\ mainStep' = "counted" /\ UNCHANGED stableCount
      BY <2>1, <2>5 DEF SettleInv, Covered, Here
    <2>6. CASE /\ Here("counted") /\ stableCount' = copied + 1
               /\ mainStep' = IF copied + 1 = CONSECUTIVE_READINGS THEN "finish" ELSE "show"
      <3>1. Covered(CONSECUTIVE_READINGS) => quiet = CONSECUTIVE_READINGS
        BY RsAssumption DEF Covered, GyroOK
      <3> QED BY <2>1, <2>6, <3>1 DEF SettleInv, Covered, Here
    <2> QED BY <1>6, <2>3, <2>4, <2>5, <2>6 DEF StableChanges, Goto, Copy
  <1>7. CASE BusNext /\ resetRotationDirection
    <2>1. UNCHANGED <<currentState, stableCount, quiet, lost, mainStep, adcValue, copied>>
          \/ (currentState' = "idle" /\ stableCount' = 0 /\ quiet' = 0 /\ lost' = (mainStep \in Acting)
              /\ UNCHANGED <<mainStep, adcValue, copied>>)
      BY <1>7 DEF BusNext, resetRotationDirection, locals
    <2>2. CASE UNCHANGED <<currentState, stableCount, quiet, lost, mainStep, adcValue, copied>>
      BY <2>2 DEF SettleInv, Covered, Still, Diff
    <2>3. CASE currentState' = "idle" /\ lost' = (mainStep \in Acting) /\ UNCHANGED mainStep
      BY <2>3 DEF SettleInv, Acting
    <2> QED BY <2>1, <2>2, <2>3
  <1>8. CASE BusNext /\ ~resetRotationDirection
    <2>1. UNCHANGED <<currentState, stableCount, quiet, lost, mainStep, adcValue, copied>>
      BY <1>8 DEF BusNext, Addressed, CommandReceived, I2C_FillTxBuffer, CommandEnded, ResetGoesOn, ResetEnds, WriteOnly,
         ByteSent, ReplyEnded, BusError, gyrovars, truth, locals
    <2> QED BY <2>1 DEF SettleInv, Covered, Still, Diff
  <1> QED BY <1>2, <1>3, <1>4, <1>5, <1>6, <1>7, <1>8 DEF MainNext

\* The resets that have still to turn the tracking on.
Untracked == \E i \in 1 .. Len(fills) : fills[i].step \in {"updated", "tracking"}

\* The tracking is off only where a rotation is done, or a reset is about to turn it on.
FollowInv ==
  /\ ~angleTracking => currentState = "done" \/ lost \/ Untracked
  /\ mainStep = "untrack" /\ ~lost => currentState = "done"
  /\ mainStep \in {"rotate", "settle"} => currentState # "done"

\* What the steps of a reset do to the resets that run.
LEMMA PushIs ==
  ASSUME RsTypeOK, BusNext, resetRotationDirection
  PROVE  /\ Len(fills) \in Nat /\ Len(fills') = Len(fills) + 1
         /\ \A i \in 1 .. Len(fills) : fills'[i] = fills[i]
         /\ fills'[Len(fills) + 1].step = "updated" /\ fills'[Len(fills) + 1].now = millisCounter
  <1> DEFINE e == [step |-> "updated", now |-> millisCounter]
  <1>1. fills' = Append(fills, e) /\ fills \in Seq(FillType) /\ e.step = "updated" /\ e.now = millisCounter
    BY DEF resetRotationDirection, RsTypeOK, BusOK
  <1> HIDE DEF e
  <1>2. e \in FillType
    BY <1>1, NowIs DEF FillType, FillSteps, RsTypeOK, e
  <1>3. Len(fills') = Len(fills) + 1 /\ fills'[Len(fills) + 1] = e
        /\ (\A i \in 1 .. Len(fills) : fills'[i] = fills[i]) /\ Len(fills) \in Nat
    BY <1>1, <1>2
  <1> QED BY <1>1, <1>3, Zenon

LEMMA PopIs ==
  ASSUME RsTypeOK, ResetEnds
  PROVE  /\ Len(fills) \in Nat \ {0} /\ Len(fills') = Len(fills) - 1
         /\ \A i \in 1 .. Len(fills') : fills'[i] = fills[i]
         /\ fills[Len(fills)].step = "busy"
  <1>1. fills \in Seq(FillType) /\ fills # <<>> /\ fills' = SubSeq(fills, 1, Len(fills) - 1)
        /\ fills[Len(fills)].step = "busy"
    BY DEF ResetEnds, Inner, RsTypeOK, BusOK
  <1>2. Len(fills) \in Nat \ {0}
    BY <1>1
  <1>3. PICK n \in Nat : n = Len(fills) - 1
    BY <1>2
  <1>4. \A i \in 1 .. n : fills[i] \in FillType
    BY <1>1, <1>2, <1>3
  <1>5. /\ Len(SubSeq(fills, 1, n)) = IF 1 <= n THEN n - 1 + 1 ELSE 0
        /\ \A i \in 1 .. n - 1 + 1 : SubSeq(fills, 1, n)[i] = fills[1 + i - 1]
    BY <1>4, SubSeqProperties
  <1>6. Len(fills') = n /\ \A i \in 1 .. n : fills'[i] = fills[i]
    BY <1>1, <1>3, <1>5
  <1> QED BY <1>1, <1>2, <1>3, <1>6

LEMMA NoneIs == ASSUME fills = <<>> PROVE ~Untracked /\ \A step : ~Filling(step)
  BY DEF Untracked, Filling

LEMMA FollowStep == ASSUME RsTypeOK, FollowInv, MainNext \/ BusNext PROVE FollowInv'
  <1>1. CASE MainNext
    <2>0. UNCHANGED fills /\ Untracked' = Untracked
      BY <1>1 DEF MainNext, Untracked
    <2>1. ASSUME UNCHANGED <<currentState, lost, angleTracking>>,
                 mainStep' \notin {"untrack", "rotate", "settle"}
          PROVE  FollowInv'
      BY <2>0, <2>1 DEF FollowInv
    <2>2. CASE ~(Switch \/ StateChanges \/ TrackingChanges)
      <3>1. UNCHANGED <<currentState, lost, angleTracking>>
        BY <1>1, <2>2 DEF MainNext, CheckBus, i2c_restart, TapeReadSensor, TapeDone, GyrosWanted,
           UpdateReads, UpdateNow, UpdateDelta, UpdateTime, UpdateAngle, StoreRaw, RotationReads,
           StableChanges, StartZero, StartNow, StartTime, ShowState, ShowAngle, Ultrasound, gyrovars,
           truth
      <3>2. mainStep' \notin {"untrack", "rotate", "settle"}
        BY <1>1, <2>2 DEF MainNext, CheckBus, i2c_restart, TapeReadSensor, TapeDone, GyrosWanted,
           UpdateReads, UpdateNow, UpdateDelta, UpdateTime, UpdateAngle, StoreRaw, RotationReads,
           StableChanges, StartZero, StartNow, StartTime, ShowState, ShowAngle, Ultrasound, Goto,
           Return, Take, Copy, GetMillis
      <3> QED BY <2>1, <3>1, <3>2
    <2>3. CASE Switch
      BY <2>0, <2>3 DEF Switch, Here, Case, FollowInv, gyrovars, truth
    <2>4. CASE StateChanges
      <3>1. ~Untracked
        BY <2>4, NoneIs DEF StateChanges, SetState, Here
      <3> QED BY <2>0, <2>4, <3>1 DEF StateChanges, SetState, Here, Goto, FollowInv, truth
    <2>5. CASE TrackingChanges
      BY <2>0, <2>5 DEF TrackingChanges, Here, Goto, FollowInv, truth
    <2> QED BY <2>2, <2>3, <2>4, <2>5
  <1>2. CASE BusNext
    <2>0. UNCHANGED mainStep
      BY <1>2 DEF BusNext
    <2>1. CASE resetRotationDirection
      <3>1. Untracked'
        BY <1>2, <2>1, PushIs DEF Untracked
      <3>2. (currentState' = currentState /\ lost' = lost)
            \/ (currentState' = "idle" /\ (mainStep = "untrack" => lost'))
        BY <2>1 DEF resetRotationDirection, Acting
      <3>3. CASE currentState' = currentState /\ lost' = lost
        BY <2>0, <3>1, <3>3 DEF FollowInv
      <3>4. CASE currentState' = "idle" /\ (mainStep = "untrack" => lost')
        BY <2>0, <3>1, <3>4 DEF FollowInv
      <3> QED BY <3>2, <3>3, <3>4
    <2>2. CASE ResetGoesOn
      <3>1. UNCHANGED <<currentState, lost>> /\ (angleTracking' = angleTracking \/ angleTracking')
            /\ (InnerStep("tracking", "copy") => angleTracking')
        BY <2>2 DEF ResetGoesOn, truth, InnerStep
      <3>2. Untracked => Untracked' \/ InnerStep("tracking", "copy")
        BY <2>2, InnerStepIs DEF ResetGoesOn, Untracked, FillSteps, RsTypeOK
      <3>3. CASE angleTracking'
        BY <2>0, <3>1, <3>3 DEF FollowInv
      <3>4. CASE ~angleTracking' /\ angleTracking' = angleTracking /\ (Untracked => Untracked')
        BY <2>0, <3>1, <3>4 DEF FollowInv
      <3> QED BY <3>1, <3>2, <3>3, <3>4
    <2>3. CASE ResetEnds
      <3>1. Untracked => Untracked'
        BY <2>3, PopIs DEF Untracked
      <3>2. UNCHANGED <<currentState, lost, angleTracking>>
        BY <2>3 DEF ResetEnds, gyrovars, truth
      <3> QED BY <2>0, <3>1, <3>2 DEF FollowInv
    <2>4. CASE ~(resetRotationDirection \/ ResetGoesOn \/ ResetEnds)
      <3>1. UNCHANGED <<currentState, lost, angleTracking, fills>>
        BY <1>2, <2>4 DEF BusNext, Addressed, CommandReceived, I2C_FillTxBuffer, CommandEnded, WriteOnly,
           ByteSent, ReplyEnded, BusError, gyrovars, truth
      <3> QED BY <2>0, <3>1 DEF FollowInv, Untracked
    <2> QED BY <2>1, <2>2, <2>3, <2>4
  <1> QED BY <1>1, <1>2

\* No time read lies ahead of the counter, those of the resets that run included.
TimeInv ==
  /\ TimeNotAhead /\ since <= millisCounter
  /\ \A i \in 1 .. Len(fills) : fills[i].now <= millisCounter

LEMMA TimeStep == ASSUME RsTypeOK, TimeInv, RsNext PROVE TimeInv'
  <1> USE DEF RsTypeOK, LocalsOK, GyroOK
  <1>1. CASE Tick
    <2>1. millisCounter' = millisCounter + 1 /\ millisCounter \in Nat
          /\ UNCHANGED <<currentTime, timestamp, lastUpdateTime, since, fills>>
      BY <1>1, RsAssumption DEF Tick, locals, gyrovars, truth
    <2>2. \A i \in 1 .. Len(fills) : fills[i].now \in Nat
      <3>1. fills \in Seq(FillType) /\ \A f \in FillType : f.now \in Nat
        BY DEF BusOK, FillType
      <3> QED BY <3>1
    <2> QED BY <2>1, <2>2 DEF TimeInv, TimeNotAhead
  <1>2. CASE MainNext
    <2>1. UNCHANGED <<millisCounter, fills>>
      BY <1>2 DEF MainNext
    <2>2. /\ currentTime' \in {currentTime, 0, millisCounter} /\ timestamp' \in {timestamp, millisCounter}
          /\ lastUpdateTime' \in {lastUpdateTime, currentTime}
          /\ since' \in {since, currentTime, millisCounter}
      BY <1>2 DEF MainNext, CheckBus, i2c_restart, TapeReadSensor, TapeDone, GyrosWanted,
           UpdateReads, UpdateNow, UpdateDelta, UpdateTime, UpdateAngle, StoreRaw, RotationReads,
           Switch, StateChanges, SetState, StableChanges, StartZero, StartNow, StartTime,
           TrackingChanges, ShowState, ShowAngle, Ultrasound, Goto, Return, Take, Copy, GetMillis,
           gyrosGetMillis, locals, gyrovars, truth
    <2>3. millisCounter \in Nat
      BY RsAssumption
    <2> QED BY <2>1, <2>2, <2>3 DEF TimeInv, TimeNotAhead
  <1>3. CASE BusNext
    <2>0. UNCHANGED <<millisCounter, currentTime, timestamp>>
      BY <1>3 DEF BusNext, locals
    <2>1. CASE resetRotationDirection
      <3>1. UNCHANGED lastUpdateTime /\ since' = millisCounter
        BY <2>1 DEF resetRotationDirection, CommandEnded
      <3>2. \A i \in 1 .. Len(fills') : fills'[i].now <= millisCounter
        BY <1>3, <2>1, PushIs, RsAssumption DEF TimeInv
      <3> QED BY <2>0, <3>1, <3>2, RsAssumption DEF TimeInv, TimeNotAhead
    <2>2. CASE ResetGoesOn
      <3>1. UNCHANGED since /\ lastUpdateTime' \in {lastUpdateTime, fills[Len(fills)].now}
        BY <2>2 DEF ResetGoesOn, truth, Inner
      <3>2. Len(fills') = Len(fills) /\ Len(fills) \in Nat \ {0}
            /\ \A i \in 1 .. Len(fills) : fills'[i].now = fills[i].now
        BY <2>2, InnerStepIs DEF ResetGoesOn, FillSteps
      <3> QED BY <2>0, <3>1, <3>2 DEF TimeInv, TimeNotAhead
    <2>3. CASE ResetEnds
      BY <2>0, <2>3, PopIs DEF ResetEnds, TimeInv, TimeNotAhead, gyrovars, truth
    <2>4. CASE ~(resetRotationDirection \/ ResetGoesOn \/ ResetEnds)
      <3>1. UNCHANGED <<lastUpdateTime, since, fills>>
        BY <1>3, <2>4 DEF BusNext, Addressed, CommandReceived, I2C_FillTxBuffer, CommandEnded, WriteOnly,
           ByteSent, ReplyEnded, BusError, gyrovars, truth
      <3> QED BY <2>0, <3>1 DEF TimeInv, TimeNotAhead
    <2> QED BY <2>1, <2>2, <2>3, <2>4
  <1> QED BY <1>1, <1>2, <1>3 DEF RsNext

\* The stored time is the one up to which the angle is counted, unless the main loop is between
\* reading the clock and storing what follows from it, or a reset has still to store its time.
AngleInv ==
  ~crossed =>
    /\ currentAngle = turned
    /\ \A i \in 1 .. Len(fills) : fills[i].step = "updated" => fills[i].now = since
    /\ Filling("updated") => mainStep \notin Timing
    /\ ~Filling("updated") /\ mainStep \notin {"time", "reset", "angle", "store"}
         => lastUpdateTime = since
    /\ mainStep = "delta" => since <= currentTime
    /\ mainStep = "updated" => deltaTime = currentTime - since
    /\ mainStep \in {"angle", "store"}
         => deltaTime = currentTime - since /\ lastUpdateTime = currentTime
    /\ mainStep = "store" => copied = currentAngle
    /\ mainStep = "reset" => currentTime = since

\* A difference that fits the width is not changed by the wrap.
LEMMA DeltaIs ==
  ASSUME RsTypeOK, TimeInv, since <= currentTime
  PROVE  (currentTime - since) % ClockMod = currentTime - since
  <1>1. /\ currentTime - since \in 0 .. ClockMod - 1 /\ ClockMod \in Nat \ {0}
    BY RsAssumption DEF RsTypeOK, LocalsOK, GyroOK, TimeInv, TimeNotAhead
  <1> QED BY <1>1

LEMMA AngleStep == ASSUME RsTypeOK, TimeInv, AngleInv, MainNext \/ BusNext PROVE AngleInv'
  <1> USE DEF RsTypeOK, LocalsOK, GyroOK
  <1>1. CASE MainNext
    <2>0. UNCHANGED fills /\ \A step : Filling(step)' = Filling(step)
      BY <1>1 DEF MainNext, Filling
    <2>1. CASE ~(UpdateNow \/ UpdateDelta \/ UpdateTime \/ UpdateAngle \/ StartZero \/ StartNow
                 \/ StartTime)
      <3>1. UNCHANGED <<currentAngle, turned, since, lastUpdateTime, crossed>>
        BY <1>1, <2>1 DEF MainNext, CheckBus, i2c_restart, TapeReadSensor, TapeDone, GyrosWanted,
           UpdateReads, StoreRaw, RotationReads, Switch, StateChanges, SetState,
           StableChanges, TrackingChanges, ShowState, ShowAngle, Ultrasound, gyrovars, truth
      <3>2. mainStep \notin {"time", "reset", "angle", "store"}
            /\ mainStep' \notin {"delta", "updated", "time", "angle", "store", "reset"}
        BY <1>1, <2>1 DEF MainNext, CheckBus, i2c_restart, TapeReadSensor, TapeDone, GyrosWanted,
           UpdateReads, StoreRaw, RotationReads, Switch, StateChanges, SetState, Case,
           StableChanges, TrackingChanges, ShowState, ShowAngle, Ultrasound, Here, Goto, Return, Take,
           Copy
      <3> QED BY <2>0, <3>1, <3>2 DEF AngleInv, Timing
    <2>2. ASSUME mainStep = "now" \/ mainStep \in Timing \cup {"zero", "time"}, fills = <<>>
          PROVE  ~Filling("updated") /\ Len(fills) = 0 /\ Len(fills)' = 0
      BY <2>0, <2>2, NoneIs
    <2>3. CASE UpdateNow
      <3>1. mainStep = "now" /\ mainStep' = "delta" /\ currentTime' = millisCounter /\ fills = <<>>
            /\ UNCHANGED <<currentAngle, turned, since, lastUpdateTime, crossed>>
        BY <2>3 DEF UpdateNow, GetMillis, Here, gyrosGetMillis, gyrovars, truth
      <3> QED BY <2>0, <2>2, <3>1 DEF AngleInv, Timing, TimeInv
    <2>4. CASE UpdateDelta
      <3>1. mainStep = "delta" /\ mainStep' = "updated" /\ fills = <<>>
            /\ deltaTime' = (currentTime - lastUpdateTime) % ClockMod
            /\ UNCHANGED <<currentAngle, turned, since, lastUpdateTime, crossed, currentTime>>
        BY <2>4 DEF UpdateDelta, Here, gyrovars, truth
      <3> QED BY <2>0, <2>2, <3>1, DeltaIs DEF AngleInv, Timing
    <2>5. CASE UpdateTime
      <3>1. mainStep = "updated" /\ fills = <<>> /\ lastUpdateTime' = currentTime
            /\ UNCHANGED <<currentAngle, turned, crossed>>
            /\ \/ mainStep' = "raw" /\ since' = currentTime
               \/ mainStep' = "angle" /\ UNCHANGED <<since, deltaTime, currentTime>>
        BY <2>5 DEF UpdateTime, Here, Return, Goto, locals
      <3> QED BY <2>0, <2>2, <3>1 DEF AngleInv, Timing
    <2>6. CASE UpdateAngle
      <3>1. UNCHANGED <<crossed, lastUpdateTime>>
        BY <2>6 DEF UpdateAngle
      <3>2. CASE Here("angle") /\ Copy(currentAngle, "store") /\ UNCHANGED <<currentAngle, turned, since>>
        BY <2>0, <2>2, <3>1, <3>2 DEF AngleInv, Timing, Here, Copy
      <3>3. CASE /\ Here("store") /\ mainStep' = "raw" /\ since' = currentTime
                 /\ currentAngle' = copied + (adcValue - Zero) * deltaTime
                 /\ turned' = turned + (adcValue - Zero) * (currentTime - since)
        <4>1. ~crossed' => currentAngle' = turned' /\ lastUpdateTime' = since'
          BY <3>1, <3>3 DEF AngleInv, Here
        <4>2. Len(fills)' = 0 /\ ~Filling("updated")'
          BY <2>0, <2>2, <3>3 DEF Here, Timing
        <4> QED BY <3>3, <4>1, <4>2 DEF AngleInv
      <3> QED BY <2>6, <3>2, <3>3 DEF UpdateAngle, Return
    <2>7. CASE StartZero
      <3>1. mainStep = "zero" /\ fills = <<>> /\ mainStep' = "time" /\ currentAngle' = 0 /\ turned' = 0
        BY <2>7 DEF StartZero, Here, Goto
      <3> QED BY <2>0, <2>2, <3>1 DEF AngleInv
    <2>8. CASE StartNow
      <3>1. mainStep = "time" /\ fills = <<>> /\ mainStep' = "reset" /\ currentTime' = since'
            /\ UNCHANGED <<currentAngle, turned, crossed>>
        BY <2>8 DEF StartNow, GetMillis, gyrosGetMillis, Here, gyrovars
      <3> QED BY <2>0, <2>2, <3>1 DEF AngleInv
    <2>9. CASE StartTime
      <3>1. mainStep = "reset" /\ fills = <<>> /\ mainStep' = "track" /\ lastUpdateTime' = currentTime
            /\ UNCHANGED <<currentAngle, turned, crossed, since>>
        BY <2>9 DEF StartTime, Here, Goto, truth
      <3> QED BY <2>0, <2>2, <3>1 DEF AngleInv, Timing
    <2> QED BY <2>1, <2>3, <2>4, <2>5, <2>6, <2>7, <2>8, <2>9
  <1>2. CASE BusNext
    <2>0. UNCHANGED <<mainStep, currentTime, deltaTime, copied>>
      BY <1>2 DEF BusNext, locals
    <2>1. CASE resetRotationDirection
      <3>1. /\ currentAngle' = 0 /\ turned' = 0 /\ since' = millisCounter
            /\ crossed' = (mainStep \in Timing \/ Filling("updated"))
        BY <2>1 DEF resetRotationDirection
      <3>2. Filling("updated")'
        BY <1>2, <2>1, PushIs DEF Filling
      <3>3. ~crossed' => \A i \in 1 .. Len(fills') : fills'[i].step = "updated" => fills'[i].now = millisCounter
        <4>1. ~crossed' => \A i \in 1 .. Len(fills) : fills[i].step # "updated"
          BY <3>1 DEF Filling
        <4> QED BY <1>2, <2>1, <4>1, PushIs
      <3> QED BY <2>0, <3>1, <3>2, <3>3 DEF AngleInv, Timing
    <2>2. CASE ResetGoesOn
      <3>1. UNCHANGED <<currentAngle, turned, crossed, since>>
        BY <2>2 DEF ResetGoesOn, truth
      <3>2. \/ fills[Len(fills)].step = "updated" /\ lastUpdateTime' = fills[Len(fills)].now
            \/ fills[Len(fills)].step # "updated" /\ UNCHANGED lastUpdateTime
        BY <2>2 DEF ResetGoesOn, InnerStep, Inner
      <3>3. Len(fills') = Len(fills) /\ Len(fills) \in Nat \ {0}
            /\ (\A i \in 1 .. Len(fills) : i # Len(fills) => fills'[i] = fills[i])
            /\ fills'[Len(fills)].step # "updated"
        BY <2>2, InnerStepIs DEF ResetGoesOn, FillSteps
      <3>4. Filling("updated")' => Filling("updated")
        BY <3>3 DEF Filling
      <3>5. fills[Len(fills)].step # "updated" => Filling("updated")' = Filling("updated")
        BY <3>3 DEF Filling
      <3>6. fills[Len(fills)].step = "updated" => Filling("updated")
        BY <3>3 DEF Filling
      <3>7. (\A i \in 1 .. Len(fills) : fills[i].step = "updated" => fills[i].now = since)
            => \A i \in 1 .. Len(fills') : fills'[i].step = "updated" => fills'[i].now = since
        BY <3>3
      <3>8. CASE fills[Len(fills)].step = "updated"
        <4>1. ~crossed => lastUpdateTime' = since
          BY <3>2, <3>3, <3>8 DEF AngleInv
        <4> QED BY <2>0, <3>1, <3>4, <3>6, <3>7, <3>8, <4>1 DEF AngleInv, Timing
      <3>9. CASE fills[Len(fills)].step # "updated"
        BY <2>0, <3>1, <3>2, <3>5, <3>7, <3>9 DEF AngleInv
      <3> QED BY <3>8, <3>9
    <2>3. CASE ResetEnds
      <3>1. UNCHANGED <<currentAngle, turned, crossed, since, lastUpdateTime>>
        BY <2>3 DEF ResetEnds, gyrovars, truth
      <3>2. Filling("updated")' = Filling("updated")
            /\ \A i \in 1 .. Len(fills') : i \in 1 .. Len(fills) /\ fills'[i] = fills[i]
        BY <2>3, PopIs DEF Filling
      <3> QED BY <2>0, <3>1, <3>2 DEF AngleInv
    <2>4. CASE ~(resetRotationDirection \/ ResetGoesOn \/ ResetEnds)
      <3>1. UNCHANGED <<currentAngle, turned, crossed, since, lastUpdateTime, fills>>
        BY <1>2, <2>4 DEF BusNext, Addressed, CommandReceived, I2C_FillTxBuffer, CommandEnded, WriteOnly,
           ByteSent, ReplyEnded, BusError, gyrovars, truth
      <3> QED BY <2>0, <3>1 DEF AngleInv, Filling
    <2> QED BY <2>1, <2>2, <2>3, <2>4
  <1> QED BY <1>1, <1>2

\* The interface is off only between transfers, with the bus not marked busy.
DeafInv ==
  /\ phase # "idle" => twi_on
  /\ ~twi_on /\ ~deaf => ~i2c_busy /\ ~Filling("busy")

LEMMA DeafStep == ASSUME RsTypeOK, DeafInv, MainNext \/ BusNext PROVE DeafInv'
  <1>1. CASE MainNext
    <2>0. UNCHANGED <<phase, deaf>> /\ Filling("busy")' = Filling("busy")
      BY <1>1 DEF MainNext, Filling, mastervars
    <2>1. (twi_on' = twi_on \/ twi_on') /\ (i2c_busy' = i2c_busy \/ ~i2c_busy')
      BY <1>1 DEF MainNext, CheckBus, i2c_restart, TapeReadSensor, TapeDone, GyrosWanted,
           UpdateReads, UpdateNow, UpdateDelta, UpdateTime, UpdateAngle, StoreRaw, RotationReads,
           Switch, StateChanges, StableChanges, StartZero, StartNow, StartTime,
           TrackingChanges, ShowState, ShowAngle, Ultrasound, twivars
    <2> QED BY <2>0, <2>1 DEF DeafInv
  <1>2. CASE BusNext
    <2>1. CASE Addressed \/ CommandReceived \/ ByteSent
      <3>1. twi_on /\ twi_on' = twi_on
        BY <2>1 DEF Addressed, CommandReceived, ByteSent, DeafInv
      <3> QED BY <3>1 DEF DeafInv
    <2>2. CASE I2C_FillTxBuffer \/ resetRotationDirection
      BY <2>2 DEF I2C_FillTxBuffer, resetRotationDirection, CommandEnded, DeafInv
    <2>3. CASE ResetGoesOn
      <3>1. UNCHANGED <<phase, deaf, i2c_busy>> /\ (twi_on' = twi_on \/ twi_on')
        BY <2>3 DEF ResetGoesOn, twivars, mastervars
      <3>2. InnerStep("enable", "busy") => twi_on'
        BY <2>3 DEF ResetGoesOn, InnerStep
      <3>3. ~InnerStep("enable", "busy") => (Filling("busy")' => Filling("busy"))
        BY <2>3, InnerStepIs DEF ResetGoesOn, Filling, FillSteps, RsTypeOK
      <3>4. CASE twi_on'
        BY <3>1, <3>4 DEF DeafInv
      <3>5. CASE twi_on' = twi_on /\ (Filling("busy")' => Filling("busy"))
        BY <3>1, <3>5 DEF DeafInv
      <3> QED BY <3>1, <3>2, <3>3, <3>4, <3>5
    <2>4. CASE ResetEnds
      <3>1. Filling("busy") /\ UNCHANGED <<phase, deaf, twi_on>>
        BY <2>4, PopIs DEF ResetEnds, Filling, mastervars
      <3> QED BY <3>1 DEF DeafInv
    <2>5. CASE WriteOnly \/ ReplyEnded
      <3>1. phase' = "idle" /\ UNCHANGED <<twi_on, deaf, fills>> /\ (i2c_busy' = i2c_busy \/ ~i2c_busy')
        BY <2>5 DEF WriteOnly, ReplyEnded, Over, twivars
      <3> QED BY <3>1 DEF DeafInv, Filling
    <2>6. CASE BusError
      <3>1. /\ phase' = "idle" /\ UNCHANGED <<i2c_busy, fills>>
            /\ (~deaf' => ~i2c_busy /\ ~Filling("busy"))
        BY <2>6 DEF BusError, Over
      <3> QED BY <3>1 DEF DeafInv, Filling
    <2> QED BY <1>2, <2>1, <2>2, <2>3, <2>4, <2>5, <2>6 DEF BusNext
  <1> QED BY <1>1, <1>2

\* What is shown is what was measured but where the main loop has stored one of two bytes.
ShownInv ==
  /\ shown.state = measured.state
  /\ mainStep # "raw2" => shown.raw = measured.raw
  /\ mainStep # "angle2" => shown.angle = measured.angle
  /\ mainStep # "distance2" => shown.distance = measured.distance
  /\ mainStep # "tape2" => shown.tape = measured.tape
  /\ mainStep = "tape2" => \A i \in Diodes \ {diode + 1} : shown.tape[i] = measured.tape[i]
  /\ mainStep \in {"angle1", "angle2"} => fresh = copied

LEMMA ShownStep == ASSUME RsTypeOK, AngleInv, ShownInv, MainNext PROVE ShownInv'
  <1> USE DEF RsTypeOK, ReportOK
  <1>1. CASE ~(TapeReadSensor \/ StoreRaw \/ ShowState \/ ShowAngle \/ Ultrasound)
    <2>1. UNCHANGED <<shown, measured>>
      BY <1>1 DEF MainNext, CheckBus, i2c_restart, TapeDone, GyrosWanted, UpdateReads, UpdateNow,
         UpdateDelta, UpdateTime, UpdateAngle, RotationReads, Switch, StateChanges,
         StableChanges, StartZero, StartNow, StartTime, TrackingChanges, report
    <2>2. /\ mainStep \notin {"raw2", "angle2", "distance2", "tape2", "angle1"}
          /\ mainStep' \notin {"raw2", "angle2", "distance2", "tape2", "angle1"}
      BY <1>1 DEF MainNext, CheckBus, i2c_restart, TapeDone, GyrosWanted, UpdateReads, UpdateNow,
         UpdateDelta, UpdateTime, UpdateAngle, RotationReads, Switch, Case, StateChanges, SetState,
         StableChanges, StartZero, StartNow, StartTime, TrackingChanges, Here, Goto, Return, Take, Copy,
         GetMillis
    <2> QED BY <2>1, <2>2 DEF ShownInv
  <1>2. CASE TapeReadSensor
    <2>1. CASE Here("tape")
      <3>1. PICK v \in Tape, b \in 1 .. 2 : /\ shown' = [shown EXCEPT !.tape[diode + 1][b] = Word16(v)[b]]
                                           /\ Take(v, "tape2")
        BY <1>2, <2>1 DEF TapeReadSensor, Here
      <3>2. UNCHANGED <<measured, diode>> /\ mainStep' = "tape2" /\ mainStep = "tape"
        BY <1>2, <2>1, <3>1 DEF TapeReadSensor, Here, Take
      <3> DEFINE p == [shown.tape[diode + 1] EXCEPT ![b] = Word16(v)[b]]
      <3>3. shown' = [shown EXCEPT !.tape[diode + 1] = p]
        BY <3>1
      <3> HIDE DEF p
      <3>4. /\ UNCHANGED <<shown.state, shown.raw, shown.angle, shown.distance>>
            /\ \A i \in Diodes \ {diode + 1} : shown'.tape[i] = shown.tape[i]
        BY <3>3 DEF ShownType
      <3> QED BY <3>2, <3>4 DEF ShownInv
    <2>2. CASE Here("tape2")
      <3> DEFINE p == Word16(adcValue)
      <3>1. /\ shown' = [shown EXCEPT !.tape[diode + 1] = p] /\ mainStep = "tape2" /\ mainStep' = "tape"
            /\ measured' = [measured EXCEPT !.tape[diode + 1] = p]
        BY <1>2, <2>2 DEF TapeReadSensor, Here
      <3> HIDE DEF p
      <3>2. /\ UNCHANGED <<shown.state, shown.raw, shown.angle, shown.distance>>
            /\ UNCHANGED <<measured.state, measured.raw, measured.angle, measured.distance>>
            /\ shown'.tape = [shown.tape EXCEPT ![diode + 1] = p]
            /\ measured'.tape = [measured.tape EXCEPT ![diode + 1] = p]
        BY <3>1 DEF ShownType
      <3>3. shown.tape \in [Diodes -> BytePair] /\ measured.tape \in [Diodes -> BytePair]
            /\ \A i \in Diodes \ {diode + 1} : shown.tape[i] = measured.tape[i]
        BY <3>1 DEF ShownInv, ShownType
      <3>4. shown'.tape = measured'.tape
        BY <3>2, <3>3
      <3> QED BY <3>1, <3>2, <3>4 DEF ShownInv
    <2> QED BY <1>2, <2>1, <2>2 DEF TapeReadSensor
  <1>3. CASE StoreRaw
    <2>1. CASE Here("raw")
      <3>1. PICK p : shown' = [shown EXCEPT !.raw = p]
        BY <1>3, <2>1 DEF StoreRaw, Here
      <3>2. UNCHANGED measured /\ mainStep' = "raw2" /\ mainStep = "raw"
        BY <1>3, <2>1 DEF StoreRaw, Here, Take
      <3> QED BY <3>1, <3>2 DEF ShownInv, ShownType
    <2>2. CASE Here("raw2")
      <3> DEFINE p == Word16(adcValue)
      <3>1. shown' = [shown EXCEPT !.raw = p] /\ measured' = [measured EXCEPT !.raw = p]
            /\ mainStep' = "rotation" /\ mainStep = "raw2"
        BY <1>3, <2>2 DEF StoreRaw, Here, Return
      <3> HIDE DEF p
      <3> QED BY <3>1 DEF ShownInv, ShownType
    <2> QED BY <1>3, <2>1, <2>2 DEF StoreRaw
  <1>4. CASE ShowState
    <2>1. CASE Here("show")
      BY <1>4, <2>1 DEF ShowState, Here, report, ShownInv
    <2>2. CASE Here("state")
      <3>1. shown' = [shown EXCEPT !.state = switched] /\ measured' = [measured EXCEPT !.state = switched]
            /\ mainStep' = "angle0" /\ mainStep = "state"
        BY <1>4, <2>2 DEF ShowState, Here, Return
      <3> QED BY <3>1 DEF ShownInv, ShownType
    <2> QED BY <1>4, <2>1, <2>2 DEF ShowState
  <1>5. CASE ShowAngle
    <2>1. CASE Here("angle0")
      <3>1. UNCHANGED <<shown, measured>> /\ mainStep' = "angle1" /\ mainStep = "angle0"
        BY <1>5, <2>1 DEF ShowAngle, Here, report
      <3>2. fresh' = copied'
        BY <1>5, <2>1 DEF ShowAngle, Here, AngleInv
      <3> QED BY <3>1, <3>2 DEF ShownInv
    <2>2. CASE Here("angle1")
      <3>1. PICK p : shown' = [shown EXCEPT !.angle = p]
        BY <1>5, <2>2 DEF ShowAngle, Here
      <3>2. UNCHANGED <<measured, fresh, copied>> /\ mainStep' = "angle2" /\ mainStep = "angle1"
        BY <1>5, <2>2 DEF ShowAngle, Here, Goto, locals
      <3> QED BY <3>1, <3>2 DEF ShownInv, ShownType
    <2>3. CASE Here("angle2")
      <3> DEFINE p == Word16(copied)
      <3>1. shown' = [shown EXCEPT !.angle = p] /\ measured' = [measured EXCEPT !.angle = Word16(fresh)]
            /\ mainStep' = "sound" /\ mainStep = "angle2"
        BY <1>5, <2>3 DEF ShowAngle, Here, Return
      <3>2. Word16(fresh) = p
        BY <3>1 DEF ShownInv
      <3> HIDE DEF p
      <3> QED BY <3>1, <3>2 DEF ShownInv, ShownType
    <2> QED BY <1>5, <2>1, <2>2, <2>3 DEF ShowAngle
  <1>6. CASE Ultrasound
    <2>1. CASE Here("sound") \/ Here("soundtime") \/ Here("timestamp")
      <3>1. UNCHANGED <<shown, measured>> /\ mainStep \in {"sound", "soundtime", "timestamp"}
            /\ mainStep' \in {"soundtime", "top", "echo"}
        BY <1>6, <2>1 DEF Ultrasound, Here, report, Goto
      <3> QED BY <3>1 DEF ShownInv
    <2>2. CASE Here("echo")
      <3>1. PICK p : shown' = [shown EXCEPT !.distance = p]
        BY <1>6, <2>2 DEF Ultrasound, Here
      <3>2. UNCHANGED measured /\ mainStep' = "distance2" /\ mainStep = "echo"
        BY <1>6, <2>2 DEF Ultrasound, Here, Take
      <3> QED BY <3>1, <3>2 DEF ShownInv, ShownType
    <2>3. CASE Here("distance2")
      <3> DEFINE p == Word16(adcValue)
      <3>1. shown' = [shown EXCEPT !.distance = p] /\ measured' = [measured EXCEPT !.distance = p]
            /\ mainStep' = "timestamp" /\ mainStep = "distance2"
        BY <1>6, <2>3 DEF Ultrasound, Here, Return
      <3> HIDE DEF p
      <3> QED BY <3>1 DEF ShownInv, ShownType
    <2> QED BY <1>6, <2>1, <2>2, <2>3 DEF Ultrasound
  <1> QED BY <1>1, <1>2, <1>3, <1>4, <1>5, <1>6

\* The bytes are those the master should get, as far as the buffer goes.
Matches(seq) == \A i \in 1 .. Len(expected) : i <= I2C_BUFFER_SIZE => seq[i] = expected[i]

\* A single reset runs, and it has still to make its reply or has made it.
Acknowledging ==
  /\ Len(fills) = 1 /\ expected = <<1>>
  /\ fills[1].step \in {"updated", "tracking", "copy"} \/ tx_buffer[1] = 1

\* The reply is in the buffer when the master starts to read, unless a reset is still at it.
ReplyInv ==
  /\ phase # "reading" => got = <<>>
  /\ phase = "filled" /\ ~unsure => (fills = <<>> /\ Matches(tx_buffer)) \/ Acknowledging
  /\ phase = "reading" => i2c_index \in 1 .. I2C_BUFFER_SIZE /\ Len(got) = i2c_index
  /\ phase = "reading" /\ ~unsure =>
       fills = <<>> /\ Matches(tx_buffer)
       /\ \A i \in 1 .. Len(got) : i <= Len(expected) => got[i] = expected[i]

\* The reply to a command that does not fall between two stores is the measured one.
LEMMA ReplyMeasured ==
  ASSUME RsTypeOK, ShownInv, NEW c, ~Halfway(c)
  PROVE  Reply(c, shown) = Reply(c, measured)
  <1>1. shown.state = measured.state
    BY DEF ShownInv
  <1>2. /\ c = "GYRO_RAW" => shown.raw = measured.raw
        /\ c = "GYRO_GET_ANGLE" => shown.angle = measured.angle
        /\ c = "ULTRASOUND" => shown.distance = measured.distance
        /\ c \in {"READ_TAPE_SENSOR_FRONT", "READ_TAPE_SENSOR_BACK"} => shown.tape = measured.tape
    BY DEF ShownInv, Halfway
  <1> QED BY <1>1, <1>2 DEF Reply

\* A reply in the buffer is the reply the master expects.
LEMMA FilledMatches ==
  ASSUME BusOK, NEW bytes \in Seq(Int), expected' = bytes,
         bytes # <<>> => tx_buffer' = Filled(bytes)
  PROVE  Matches(tx_buffer)'
  <1>1. CASE bytes = <<>>
    BY <1>1 DEF Matches
  <1>2. CASE bytes # <<>>
    <2>1. \A i \in 1 .. Len(bytes) : i <= I2C_BUFFER_SIZE => i \in 1 .. I2C_BUFFER_SIZE
      BY RsAssumption
    <2> QED BY <1>2, <2>1 DEF Matches, Filled
  <1> QED BY <1>1, <1>2

LEMMA ReplyStep ==
  ASSUME RsTypeOK, ShownInv, ReplyInv, MainNext \/ BusNext
  PROVE  ReplyInv'
  <1> USE DEF RsTypeOK, BusOK
  <1>1. CASE MainNext
    <2>1. UNCHANGED <<phase, got, expected, unsure, fills>>
      BY <1>1 DEF MainNext, mastervars
    <2>2. UNCHANGED <<i2c_index, tx_buffer>>
      BY <1>1 DEF MainNext, CheckBus, i2c_restart, TapeReadSensor, TapeDone, GyrosWanted,
         UpdateReads, UpdateNow, UpdateDelta, UpdateTime, UpdateAngle, StoreRaw, RotationReads,
         Switch, StateChanges, StableChanges, StartZero, StartNow, StartTime,
         TrackingChanges, ShowState, ShowAngle, Ultrasound, twivars
    <2> QED BY <2>1, <2>2 DEF ReplyInv, Matches, Acknowledging
  <1>2. CASE BusNext
    <2>1. CASE Addressed \/ CommandReceived
      <3>1. phase \notin {"reading", "filled"} /\ phase' \notin {"reading", "filled"} /\ got' = got
        BY <2>1 DEF Addressed, CommandReceived
      <3> QED BY <3>1 DEF ReplyInv
    <2>2. CASE I2C_FillTxBuffer
      <3>1. /\ phase = "written" /\ phase' = "filled" /\ UNCHANGED <<got, fills>>
            /\ expected' = Reply(request, measured)
            /\ (~unsure' => fills = <<>> /\ ~Halfway(request))
            /\ (Reply(request, shown) # <<>> => tx_buffer' = Filled(Reply(request, shown)))
        BY <2>2 DEF I2C_FillTxBuffer, CommandEnded, i2c_write_response
      <3>2. ~unsure' => Matches(tx_buffer)'
        BY <3>1, ReplyMeasured, ReplyIs, FilledMatches DEF ReportOK
      <3> QED BY <3>1, <3>2 DEF ReplyInv
    <2>3. CASE resetRotationDirection
      <3>1. /\ phase = "written" /\ phase' = "filled" /\ got' = got
            /\ expected' = <<1>> /\ (~unsure' => fills = <<>>)
        BY <2>3 DEF resetRotationDirection, CommandEnded, Resets, Reply
      <3>2. ~unsure' => Len(fills') = 1 /\ fills'[1].step = "updated"
        <4>1. SUFFICES ASSUME ~unsure' PROVE Len(fills') = 1 /\ fills'[1].step = "updated"
          OBVIOUS
        <4>2. Len(fills) = 0
          BY <3>1, <4>1
        <4> QED BY <1>2, <2>3, <4>2, PushIs
      <3> QED BY <3>1, <3>2 DEF ReplyInv, Acknowledging
    <2>4. CASE ResetGoesOn
      <3>1. UNCHANGED <<phase, got, expected, unsure, i2c_index>> /\ fills # <<>>
        BY <2>4 DEF ResetGoesOn, mastervars, InnerStep
      <3>2. /\ Len(fills') = Len(fills) /\ fills # <<>>
            /\ \/ fills[Len(fills)].step \in {"updated", "tracking"} /\ tx_buffer' = tx_buffer
                  /\ fills'[Len(fills)].step \in {"updated", "tracking", "copy"}
               \/ tx_buffer' = [tx_buffer EXCEPT ![1] = 1]
               \/ fills[Len(fills)].step \notin {"updated", "tracking", "copy"} /\ tx_buffer' = tx_buffer
        BY <2>4, <3>1, InnerStepIs DEF ResetGoesOn, FillSteps, twivars
      <3>3. 1 \in 1 .. I2C_BUFFER_SIZE
        BY RsAssumption
      <3>4. Acknowledging => Acknowledging'
        BY <3>1, <3>2, <3>3 DEF Acknowledging
      <3> QED BY <3>1, <3>4 DEF ReplyInv
    <2>5. CASE ResetEnds
      <3>1. UNCHANGED <<phase, got, expected, unsure, i2c_index, tx_buffer>> /\ fills # <<>>
        BY <2>5 DEF ResetEnds, mastervars
      <3>2. Acknowledging => fills' = <<>> /\ Matches(tx_buffer)'
        <4>1. SUFFICES ASSUME Acknowledging PROVE fills' = <<>> /\ Matches(tx_buffer)'
          OBVIOUS
        <4>2. Len(fills') = 0 /\ fills[1].step = "busy"
          BY <2>5, <4>1, PopIs DEF Acknowledging
        <4>3. fills' = <<>>
          BY <1>2, <4>2, BusTypes
        <4> QED BY <3>1, <4>1, <4>2, <4>3 DEF Acknowledging, Matches
      <3> QED BY <3>1, <3>2 DEF ReplyInv
    <2>6. CASE WriteOnly \/ ReplyEnded \/ BusError
      BY <2>6 DEF WriteOnly, ReplyEnded, BusError, Over, ReplyInv
    <2>7. CASE ByteSent
      <3> DEFINE index == IF phase = "filled" THEN 0 ELSE i2c_index
      <3>1. /\ got' = Append(got, tx_buffer[index + 1]) /\ i2c_index' = index + 1
            /\ phase' = "reading" /\ UNCHANGED <<tx_buffer, fills, expected>>
            /\ (~unsure' => ~unsure /\ fills = <<>>)
        BY <2>7 DEF ByteSent
      <3>2. Len(got) = index /\ index \in 0 .. (I2C_BUFFER_SIZE - 1)
        BY <2>7, RsAssumption DEF ByteSent, ReplyInv
      <3>3. ~unsure' => /\ Matches(tx_buffer)
                        /\ \A i \in 1 .. Len(got) : i <= Len(expected) => got[i] = expected[i]
        BY <2>7, <3>1, <3>2 DEF ByteSent, ReplyInv, Acknowledging
      <3> HIDE DEF index
      <3>4. Len(got') = index + 1 /\ got'[index + 1] = tx_buffer[index + 1]
            /\ \A i \in 1 .. Len(got) : got'[i] = got[i]
        <4>1. tx_buffer[index + 1] \in Int
          BY <3>2, RsAssumption
        <4> QED BY <3>1, <3>2, <4>1
      <3>5. ~unsure' => \A i \in 1 .. Len(got') : i <= Len(expected) => got'[i] = expected[i]
        <4>1. index + 1 <= I2C_BUFFER_SIZE
          BY <3>2, RsAssumption
        <4> QED BY <3>2, <3>3, <3>4, <4>1 DEF Matches
      <3>6. i2c_index' \in 1 .. I2C_BUFFER_SIZE
        BY <3>1, <3>2, RsAssumption
      <3> QED BY <3>1, <3>2, <3>3, <3>4, <3>5, <3>6 DEF ReplyInv, Matches
    <2> QED BY <1>2, <2>1, <2>2, <2>3, <2>4, <2>5, <2>6, <2>7 DEF BusNext
  <1> QED BY <1>1, <1>2

RsInv == /\ RsTypeOK /\ SettleInv /\ FollowInv /\ TimeInv /\ AngleInv /\ ShownInv /\ ReplyInv
         /\ DeafInv

LEMMA RsInvInit == RsInit => RsInv
  <1> SUFFICES ASSUME RsInit PROVE RsInv
    OBVIOUS
  <1>1. RsTypeOK
    BY RsTypes
  <1>2. fills = <<>> /\ Len(fills) = 0 /\ ~Filling("updated") /\ ~Filling("busy")
    BY NoneIs DEF RsInit
  <1>3. SettleInv /\ FollowInv /\ TimeInv /\ AngleInv
    BY <1>2, RsAssumption DEF RsInit, SettleInv, FollowInv, TimeInv, TimeNotAhead, AngleInv
  <1>4. ShownInv /\ ReplyInv /\ DeafInv
    BY <1>2 DEF RsInit, ShownInv, ReplyInv, DeafInv
  <1> QED BY <1>1, <1>3, <1>4 DEF RsInv

LEMMA RsInvStep == RsInv /\ [RsNext]_rsvars => RsInv'
  <1>0. RsInv /\ [RsNext]_rsvars => RsTypeOK'
    BY RsTypes DEF RsInv
  <1>1. CASE RsInv /\ MainNext
    <2>1. UNCHANGED millisCounter
      BY <1>1 DEF MainNext
    <2> QED BY <1>0, <1>1, SettleStep, FollowStep, TimeStep, AngleStep, ShownStep, ReplyStep, DeafStep
            DEF RsInv, RsNext
  <1>2. CASE RsInv /\ BusNext
    <2>1. ShownInv'
      BY <1>2 DEF RsInv, BusNext, ShownInv, report, locals
    <2> QED BY <1>0, <1>2, <2>1, SettleStep, FollowStep, TimeStep, AngleStep, ReplyStep, DeafStep
            DEF RsInv, RsNext
  <1>3. CASE RsInv /\ Tick
    <2>1. UNCHANGED <<mainStep, locals, gyrovars, report, twivars, fills, mastervars, truth>>
      BY <1>3 DEF Tick
    <2>2. SettleInv' /\ FollowInv' /\ AngleInv'
      BY <1>3, <2>1 DEF RsInv, SettleInv, FollowInv, AngleInv, Untracked, Filling, Covered, Still,
                        Diff, locals, gyrovars, truth
    <2>3. ShownInv' /\ ReplyInv' /\ DeafInv'
      BY <1>3, <2>1 DEF RsInv, ShownInv, ReplyInv, DeafInv, Matches, Acknowledging, Filling, locals,
                        report, mastervars, twivars
    <2> QED BY <1>0, <1>3, <2>2, <2>3, TimeStep DEF RsInv, RsNext
  <1>4. CASE RsInv /\ UNCHANGED rsvars
    <2>1. UNCHANGED <<mainStep, locals, gyrovars, report, twivars, fills, mastervars, truth, millisCounter>>
      BY <1>4 DEF rsvars
    <2>2. SettleInv' /\ FollowInv' /\ AngleInv' /\ TimeInv'
      BY <1>4, <2>1 DEF RsInv, SettleInv, FollowInv, AngleInv, TimeInv, TimeNotAhead, Untracked,
                        Filling, Covered, Still, Diff, locals, gyrovars, truth
    <2>3. ShownInv' /\ ReplyInv' /\ DeafInv'
      BY <1>4, <2>1 DEF RsInv, ShownInv, ReplyInv, DeafInv, Matches, Acknowledging, Filling, locals,
                        report, mastervars, twivars
    <2> QED BY <1>0, <1>4, <2>2, <2>3 DEF RsInv
  <1> QED BY <1>1, <1>2, <1>3, <1>4 DEF RsNext

(* What the robot's sensor module reports is what it measured, wherever its timer and bus      *)
(* interrupts, and the resets they run with the interrupts on again, fall into the main loop.  *)
THEOREM SensorsCorrect == RsSpec => []SensorsTruthful
<1>1. RsInv => SensorsTruthful
  <2> SUFFICES ASSUME RsInv PROVE SensorsTruthful
    OBVIOUS
  <2>1. AngleFollowed
    BY NoneIs DEF RsInv, FollowInv, AngleFollowed
  <2>2. ReplyIsMeasured
    BY DEF RsInv, ReplyInv, ReplyIsMeasured
  <2> QED BY <2>1, <2>2 DEF RsInv, SensorsTruthful, SettleInv, DoneMeansSettled, TimeInv, AngleInv,
             AngleSinceReset, DeafInv, NeverDeaf
<1> QED BY <1>1, RsInvInit, RsInvStep, PTL DEF RsSpec

(***************************************************************************)
(* 2. The console.                                                         *)
(***************************************************************************)

Threads == Writers \cup Readers
Waits == {"no", "lock", "blocked", "woken"}
Intq == [buf : Seq(Nat), lock : Threads \cup {Nobody}, not_full : Threads \cup {Nobody},
         not_empty : Threads \cup {Nobody}]

CoTypeOK ==
  /\ mode \in {"UNINIT", "POLL", "SWITCH", "QUEUE"}
  /\ txq \in Intq /\ rxq \in Intq
  /\ console_lock \in [holder : Writers \cup {Nobody}, depth : Nat]
  /\ left \in [Writers -> Seq(Nat)]
  /\ waits \in [Threads -> Waits]
  /\ sent \in Seq(Nat) /\ put \in Nat /\ rbr \in Nat

(* Before the queue is in use it is empty.                                 *)
OutInv == SerialInOrder /\ (mode \in {"UNINIT", "POLL"} => txq.buf = <<>>)

(* Who prints has the console's lock, once for every string.               *)
LockInv ==
  /\ console_lock.holder = Nobody => console_lock.depth = 0
  /\ \A w \in Writers :
       /\ left[w] # <<>> => console_lock.holder = w /\ Len(left[w]) = console_lock.depth + 1
       /\ console_lock.holder = w => left[w] # <<>>

(* not_full of the transmit queue is the writer that sleeps, and it sleeps *)
(* with something left to print on a queue that is full.                   *)
TxInv ==
  /\ txq.not_empty = Nobody
  /\ txq.not_full # Nobody => txq.not_full \in Writers /\ waits[txq.not_full] = "blocked"
  /\ \A w \in Writers :
       waits[w] = "blocked" => txq.not_full = w /\ Len(txq.buf) = TxRoom /\ left[w] # <<>>

(* A reader that sleeps or was just woken has the input queue's lock, and  *)
(* not_empty is the one that sleeps, on an empty queue as long as wait's   *)
(* assertion held.                                                         *)
RxInv ==
  /\ rxq.not_full = Nobody
  /\ rxq.not_empty # Nobody => rxq.not_empty \in Readers /\ waits[rxq.not_empty] = "blocked"
  /\ \A r \in Readers :
       /\ waits[r] \in {"blocked", "woken"} => rxq.lock = r
       /\ waits[r] = "blocked" => rxq.not_empty = r /\ (~asserted => rxq.buf = <<>>)

CoInv == CoTypeOK /\ OutInv /\ LockInv /\ InterruptsArmed /\ TxInv /\ RxInv

LEMMA CoInvInit == CoInit => CoInv
  <1> SUFFICES ASSUME CoInit PROVE CoInv
    OBVIOUS
  <1>1. Empty \in Intq
    BY DEF Empty, Intq
  <1>2. CoTypeOK
    BY <1>1 DEF CoInit, CoTypeOK, Threads, Waits
  <1>3. OutInv
    BY DEF CoInit, OutInv, SerialInOrder, Empty
  <1>4. LockInv
    BY CoAssumption DEF CoInit, LockInv
  <1>5. InterruptsArmed
    BY DEF CoInit, InterruptsArmed
  <1>6. TxInv
    BY DEF CoInit, TxInv, Empty
  <1>7. RxInv
    BY DEF CoInit, RxInv, Empty
  <1> QED BY <1>2, <1>3, <1>4, <1>5, <1>6, <1>7 DEF CoInv

-----------------------------------------------------------------------------
(* What the queue's operations do.                                         *)

LEMMA GetcIs ==
  ASSUME NEW q \in Intq, q.buf # <<>>
  PROVE  /\ intq_getc(q) \in Intq /\ intq_getc(q).buf = Tail(q.buf)
         /\ intq_getc(q).lock = q.lock /\ intq_getc(q).not_full = Nobody
         /\ intq_getc(q).not_empty = q.not_empty
  <1>1. q.buf \in Seq(Nat) /\ Tail(q.buf) \in Seq(Nat)
    BY DEF Intq
  <1> DEFINE b == Tail(q.buf)
  <1>2. intq_getc(q) = [q EXCEPT !.buf = b, !.not_full = Nobody]
    BY DEF intq_getc
  <1> HIDE DEF b
  <1>3. b \in Seq(Nat)
    BY <1>1 DEF b
  <1>4. intq_getc(q) \in Intq
    BY <1>2, <1>3 DEF Intq
  <1>5. /\ intq_getc(q).buf = b /\ intq_getc(q).lock = q.lock
        /\ intq_getc(q).not_full = Nobody /\ intq_getc(q).not_empty = q.not_empty
    BY <1>2 DEF Intq
  <1> QED BY <1>4, <1>5 DEF b

LEMMA PutcIs ==
  ASSUME NEW q \in Intq, NEW byte \in Nat
  PROVE  /\ intq_putc(q, byte) \in Intq /\ intq_putc(q, byte).buf = Append(q.buf, byte)
         /\ intq_putc(q, byte).lock = q.lock /\ intq_putc(q, byte).not_full = q.not_full
         /\ intq_putc(q, byte).not_empty = Nobody
  <1> DEFINE b == Append(q.buf, byte)
  <1>1. b \in Seq(Nat)
    BY DEF Intq
  <1>2. intq_putc(q, byte) = [q EXCEPT !.buf = b, !.not_empty = Nobody]
    BY DEF intq_putc
  <1> HIDE DEF b
  <1>4. intq_putc(q, byte) \in Intq
    BY <1>1, <1>2 DEF Intq
  <1>5. /\ intq_putc(q, byte).buf = b /\ intq_putc(q, byte).lock = q.lock
        /\ intq_putc(q, byte).not_full = q.not_full /\ intq_putc(q, byte).not_empty = Nobody
    BY <1>2 DEF Intq
  <1> QED BY <1>4, <1>5 DEF b

WithLock(q, t) == [q EXCEPT !.lock = t]

LEMMA LockedIs ==
  ASSUME NEW q \in Intq, NEW t \in Threads \cup {Nobody}
  PROVE  /\ WithLock(q, t) \in Intq /\ WithLock(q, t).buf = q.buf /\ WithLock(q, t).lock = t
         /\ WithLock(q, t).not_full = q.not_full /\ WithLock(q, t).not_empty = q.not_empty
  BY DEF Intq, WithLock

LEMMA WokenIs ==
  ASSUME CoTypeOK, NEW q \in Intq, NEW who \in {"not_full", "not_empty"}
  PROVE  /\ Woken(q, who) \in [Threads -> Waits]
         /\ q[who] = Nobody => Woken(q, who) = waits
         /\ \A t \in Threads : Woken(q, who)[t] = IF t = q[who] THEN "woken" ELSE waits[t]
  <1>1. q[who] \in Threads \cup {Nobody}
    BY DEF Intq
  <1>2. waits \in [Threads -> Waits] /\ "woken" \in Waits /\ Nobody \notin Threads
    BY CoAssumption DEF CoTypeOK, Waits, Threads
  <1> QED BY <1>1, <1>2 DEF Woken

LEMMA SpentIs ==
  ASSUME CoTypeOK, NEW w \in Writers, left[w] # <<>>, Head(left[w]) > 0
  PROVE  LET l == [left EXCEPT ![w][1] = @ - 1]
         IN /\ l \in [Writers -> Seq(Nat)] /\ \A v \in Writers : Len(l[v]) = Len(left[v])
  <1>1. left[w] \in Seq(Nat) /\ left[w][1] \in Nat \ {0} /\ Len(left[w]) \in Nat \ {0}
    BY DEF CoTypeOK
  <1>2. [left[w] EXCEPT ![1] = left[w][1] - 1] \in Seq(Nat)
    BY <1>1
  <1>3. Len([left[w] EXCEPT ![1] = left[w][1] - 1]) = Len(left[w])
    BY <1>1
  <1>4. [left EXCEPT ![w][1] = @ - 1]
          = [left EXCEPT ![w] = [left[w] EXCEPT ![1] = left[w][1] - 1]]
    BY DEF CoTypeOK
  <1> HIDE <1>1
  <1> QED BY <1>2, <1>3, <1>4 DEF CoTypeOK

-----------------------------------------------------------------------------
(* The UART and serial_init_queue.                                         *)
LEMMA UartKeeps ==
  ASSUME CoInv, Transmitted \/ Received \/ serial_init_queue
  PROVE  CoInv'
  <1>1. /\ UNCHANGED <<txq, rxq, console_lock, left, waits, sent, put, asserted>>
        /\ rbr' \in {rbr, 1}
        /\ \/ UNCHANGED <<mode, ier>>
           \/ mode' = "SWITCH" /\ UNCHANGED ier
           \/ mode = "SWITCH" /\ mode' = "QUEUE" /\ write_ier(txq, rxq)
    BY DEF Transmitted, Received, serial_init_queue
  <1>2. CoTypeOK'
    BY <1>1 DEF CoInv, CoTypeOK
  <1>3. OutInv'
    BY <1>1 DEF CoInv, OutInv, SerialInOrder
  <1>4. LockInv'
    BY <1>1 DEF CoInv, LockInv
  <1>5. InterruptsArmed'
    BY <1>1 DEF CoInv, InterruptsArmed, write_ier, intq_empty, intq_full
  <1>6. TxInv'
    BY <1>1 DEF CoInv, TxInv
  <1>7. RxInv'
    BY <1>1 DEF CoInv, RxInv
  <1> QED BY <1>2, <1>3, <1>4, <1>5, <1>6, <1>7 DEF CoInv

(* Strings begin and end under the console's lock.                         *)
LEMMA AcquireKeeps == ASSUME CoInv, NEW w \in Writers, acquire_console(w) PROVE CoInv'
  <1>1. PICK n \in Lengths : left' = [left EXCEPT ![w] = <<n>> \o @]
    BY DEF acquire_console
  <1>2. /\ UNCHANGED <<mode, txq, rxq, waits, ier, thr, rbr, sent, put, keys, asserted>>
        /\ \/ /\ console_lock.holder = w
              /\ console_lock' = [console_lock EXCEPT !.depth = @ + 1]
           \/ /\ console_lock.holder = Nobody
              /\ console_lock' = [console_lock EXCEPT !.holder = w]
    BY DEF acquire_console
  <1>3. n \in Nat
    BY CoAssumption
  <1>4. /\ left[w] \in Seq(Nat) /\ <<n>> \o left[w] \in Seq(Nat)
        /\ Len(<<n>> \o left[w]) = Len(left[w]) + 1 /\ <<n>> \o left[w] # <<>>
    BY <1>3 DEF CoInv, CoTypeOK
  <1>5. /\ left' \in [Writers -> Seq(Nat)] /\ left'[w] # <<>> /\ Len(left'[w]) = Len(left[w]) + 1
        /\ \A v \in Writers : v # w => left'[v] = left[v]
    BY <1>1, <1>4 DEF CoInv, CoTypeOK
  <1>6. /\ console_lock' \in [holder : Writers \cup {Nobody}, depth : Nat]
        /\ console_lock'.holder = w
        /\ console_lock'.depth = IF console_lock.holder = w THEN console_lock.depth + 1
                                 ELSE console_lock.depth
    BY <1>2, CoAssumption DEF CoInv, CoTypeOK
  <1>7. CoTypeOK'
    BY <1>2, <1>5, <1>6 DEF CoInv, CoTypeOK
  <1>8. Len(left'[w]) = console_lock'.depth + 1
    <2>1. CASE console_lock.holder = w
      BY <1>5, <1>6, <2>1 DEF CoInv, LockInv, CoTypeOK
    <2>2. CASE console_lock.holder = Nobody
      <3>1. left[w] = <<>> /\ Nobody # w /\ console_lock.depth = 0
        BY <2>2, CoAssumption DEF CoInv, LockInv
      <3> QED BY <1>5, <1>6, <2>2, <3>1
    <2> QED BY <1>2, <2>1, <2>2
  <1>9. \A v \in Writers : v # w => left[v] = <<>>
    BY <1>2, CoAssumption DEF CoInv, LockInv
  <1>10. LockInv'
    BY <1>5, <1>6, <1>8, <1>9, CoAssumption DEF LockInv
  <1>11. OutInv' /\ InterruptsArmed' /\ RxInv'
    BY <1>2 DEF CoInv, OutInv, SerialInOrder, InterruptsArmed, RxInv
  <1>12. TxInv'
    BY <1>2, <1>5 DEF CoInv, TxInv
  <1> QED BY <1>7, <1>10, <1>11, <1>12 DEF CoInv

LEMMA PrintDoneKeeps == ASSUME CoInv, NEW w \in Writers, print_done(w) PROVE CoInv'
  <1>1. /\ waits[w] = "no" /\ left[w] # <<>> /\ left' = [left EXCEPT ![w] = Tail(@)]
        /\ release_console(w)
        /\ UNCHANGED <<mode, txq, rxq, waits, ier, thr, rbr, sent, put, keys, asserted>>
    BY DEF print_done
  <1>2. /\ left[w] \in Seq(Nat) /\ Tail(left[w]) \in Seq(Nat)
        /\ Len(Tail(left[w])) = Len(left[w]) - 1 /\ Len(left[w]) \in Nat
        /\ (Tail(left[w]) = <<>> <=> Len(left[w]) = 1)
    <2>1. left[w] \in Seq(Nat) /\ left[w] # <<>>
      BY <1>1 DEF CoInv, CoTypeOK
    <2>2. /\ Tail(left[w]) \in Seq(Nat) /\ Len(Tail(left[w])) = Len(left[w]) - 1
          /\ Len(left[w]) \in Nat
      BY <2>1
    <2>3. Tail(left[w]) = <<>> <=> Len(Tail(left[w])) = 0
      BY <2>2, EmptySeq
    <2> QED BY <2>1, <2>2, <2>3
  <1>3. /\ left' \in [Writers -> Seq(Nat)] /\ left'[w] = Tail(left[w])
        /\ \A v \in Writers : v # w => left'[v] = left[v]
    BY <1>1, <1>2 DEF CoInv, CoTypeOK
  <1>4. /\ console_lock.holder = w /\ Len(left[w]) = console_lock.depth + 1
        /\ console_lock.depth \in Nat /\ Nobody # w
    BY <1>1, CoAssumption DEF CoInv, LockInv, CoTypeOK
  <1>5. \A v \in Writers : v # w => left[v] = <<>>
    BY <1>4 DEF CoInv, LockInv
  <1>8. OutInv' /\ InterruptsArmed' /\ RxInv'
    BY <1>1 DEF CoInv, OutInv, SerialInOrder, InterruptsArmed, RxInv
  <1>9. TxInv'
    BY <1>1, <1>3 DEF CoInv, TxInv
  <1>10. ASSUME LockInv', console_lock' \in [holder : Writers \cup {Nobody}, depth : Nat]
         PROVE  CoInv'
    <2>1. CoTypeOK'
      BY <1>1, <1>3, <1>10 DEF CoInv, CoTypeOK
    <2> QED BY <1>8, <1>9, <1>10, <2>1 DEF CoInv
  <1>6. CASE console_lock.depth > 0
    <2>1. /\ console_lock' \in [holder : Writers \cup {Nobody}, depth : Nat]
          /\ console_lock'.holder = w /\ console_lock'.depth = console_lock.depth - 1
      <3>1. console_lock' = [console_lock EXCEPT !.depth = @ - 1]
        BY <1>1, <1>6 DEF release_console
      <3>2. console_lock \in [holder : Writers \cup {Nobody}, depth : Nat]
        BY DEF CoInv, CoTypeOK
      <3> QED BY <1>4, <1>6, <3>1, <3>2
    <2>2. left'[w] # <<>> /\ Len(left'[w]) = console_lock'.depth + 1
      BY <1>2, <1>3, <1>4, <1>6, <2>1
    <2>3. LockInv'
      BY <1>3, <1>4, <1>5, <2>1, <2>2, CoAssumption DEF LockInv
    <2> QED BY <1>10, <2>1, <2>3
  <1>7. CASE console_lock.depth = 0
    <2>1. /\ console_lock' \in [holder : Writers \cup {Nobody}, depth : Nat]
          /\ console_lock'.holder = Nobody /\ console_lock'.depth = 0
      <3>1. console_lock' = [console_lock EXCEPT !.holder = Nobody]
        BY <1>1, <1>7 DEF release_console
      <3>2. console_lock \in [holder : Writers \cup {Nobody}, depth : Nat]
        BY DEF CoInv, CoTypeOK
      <3> QED BY <1>4, <1>7, <3>1, <3>2
    <2>2. left'[w] = <<>>
      BY <1>2, <1>3, <1>4, <1>7
    <2>3. LockInv'
      BY <1>3, <1>4, <1>5, <2>1, <2>2, CoAssumption DEF LockInv
    <2> QED BY <1>10, <2>1, <2>3
  <1> QED BY <1>4, <1>6, <1>7

-----------------------------------------------------------------------------
(* The input buffer: what its steps leave to the parts about the output.   *)
LEMMA InputKeeps ==
  ASSUME CoInv, UNCHANGED <<mode, txq, console_lock, left, sent, put>>,
         rxq' \in Intq, rbr' \in Nat, waits' \in [Threads -> Waits],
         \A w \in Writers : waits'[w] = waits[w],
         mode = "QUEUE" => (rxq'.buf = rxq.buf /\ ier' = ier) \/ write_ier(txq, rxq'),
         RxInv'
  PROVE  CoInv'
  <1>1. CoTypeOK'
    BY DEF CoInv, CoTypeOK
  <1>2. OutInv'
    BY DEF CoInv, OutInv, SerialInOrder
  <1>3. LockInv'
    BY DEF CoInv, LockInv
  <1>4. InterruptsArmed'
    BY DEF CoInv, InterruptsArmed, write_ier, intq_empty, intq_full
  <1>5. TxInv'
    BY DEF CoInv, TxInv
  <1> QED BY <1>1, <1>2, <1>3, <1>4, <1>5 DEF CoInv

(* A reader goes to sleep under the lock, which nobody else has.           *)
LEMMA SleepKeeps ==
  ASSUME CoInv, NEW r \in Readers, rxq.lock \in {Nobody, r}, waits[r] # "blocked",
         rxq' = [rxq EXCEPT !.lock = r, !.not_empty = r],
         waits' = [waits EXCEPT ![r] = "blocked"],
         asserted \/ asserted' \/ rxq.buf = <<>>, ~asserted' => ~asserted,
         UNCHANGED <<mode, txq, console_lock, left, sent, put, ier, rbr>>
  PROVE  CoInv'
  <1>1. rxq \in Intq /\ waits \in [Threads -> Waits] /\ r \in Threads /\ Nobody \notin Threads
    BY CoAssumption DEF CoInv, CoTypeOK, Threads
  <1>2. /\ rxq' \in Intq /\ rxq'.buf = rxq.buf /\ rxq'.lock = r /\ rxq'.not_empty = r
        /\ rxq'.not_full = rxq.not_full
    BY <1>1 DEF Intq
  <1>3. waits' \in [Threads -> Waits] /\ waits'[r] = "blocked"
    BY <1>1 DEF Waits
  <1>4. \A t \in Threads : t # r => waits'[t] = waits[t]
    BY <1>1
  <1>5. \A w \in Writers : waits'[w] = waits[w]
    BY <1>4, CoAssumption DEF Threads
  <1>6. \A s \in Readers : s # r => waits'[s] \notin {"blocked", "woken"}
    BY <1>1, <1>4 DEF CoInv, RxInv, Threads
  <1>7. RxInv'
    BY <1>2, <1>3, <1>6 DEF CoInv, RxInv
  <1> QED BY <1>2, <1>3, <1>5, <1>7, InputKeeps DEF CoInv, CoTypeOK

(* A reader takes a key of a queue that is not empty.                      *)
LEMMA TakeKeeps ==
  ASSUME CoInv, NEW r \in Readers, rxq.buf # <<>>, ~asserted, TakeKey(r),
         waits[r] \in {"no", "woken"}, NEW lock \in Threads \cup {Nobody},
         lock = IF waits[r] = "woken" THEN Nobody ELSE rxq.lock,
         rxq' = WithLock(intq_getc(rxq), lock), serial_notify(rxq'),
         UNCHANGED <<mode, txq, console_lock, left, sent, put, rbr, asserted>>
  PROVE  CoInv'
  <1>1. rxq \in Intq /\ waits \in [Threads -> Waits] /\ r \in Threads
    BY DEF CoInv, CoTypeOK, Threads
  <1>2. /\ rxq' \in Intq /\ rxq'.lock = lock /\ rxq'.not_full = Nobody
        /\ rxq'.not_empty = rxq.not_empty
    BY <1>1, GetcIs, LockedIs
  <1>3. rxq.not_full = Nobody
    BY DEF CoInv, RxInv
  <1>4. waits' = [waits EXCEPT ![r] = "no"]
    BY <1>3 DEF TakeKey, Woken
  <1>5. waits' \in [Threads -> Waits] /\ \A t \in Threads : t # r => waits'[t] = waits[t]
    BY <1>1, <1>4 DEF Waits
  <1>6. waits'[r] = "no"
    BY <1>1, <1>4
  <1>7. \A w \in Writers : waits'[w] = waits[w]
    BY <1>5, CoAssumption DEF Threads
  <1>8. \A s \in Readers : waits[s] # "blocked"
    BY DEF CoInv, RxInv
  <1>9. \A s \in Readers : waits'[s] \notin {"blocked"} /\ (waits'[s] = "woken" => rxq'.lock = s)
    <2> SUFFICES ASSUME NEW s \in Readers
                 PROVE  waits'[s] # "blocked" /\ (waits'[s] = "woken" => rxq'.lock = s)
      OBVIOUS
    <2>1. CASE s = r
      BY <1>6, <2>1
    <2>2. CASE s # r
      BY <1>2, <1>5, <1>8, <2>2 DEF CoInv, RxInv, Threads
    <2> QED BY <2>1, <2>2
  <1>10. rxq.not_empty = Nobody
    BY <1>8 DEF CoInv, RxInv
  <1>11. RxInv'
    BY <1>2, <1>9, <1>10 DEF RxInv
  <1>12. mode = "QUEUE" => write_ier(txq, rxq')
    BY DEF serial_notify
  <1> QED BY <1>2, <1>5, <1>7, <1>11, <1>12, InputKeeps DEF CoInv, CoTypeOK

LEMMA ReaderKeeps ==
  ASSUME CoInv, ~asserted, NEW r \in Readers, ReaderStep(r)
  PROVE  CoInv'
  <1>1. CASE input_getc(r)
    <2>1. /\ mode = "QUEUE" /\ waits[r] = "no"
          /\ UNCHANGED <<mode, txq, console_lock, left, thr, rbr, sent, put, keys, asserted>>
      BY <1>1 DEF input_getc
    <2>2. CASE rxq.buf # <<>>
      <3>1. TakeKey(r) /\ rxq' = intq_getc(rxq) /\ serial_notify(rxq')
        BY <1>1, <2>2 DEF input_getc, intq_empty
      <3>2. rxq \in Intq
        BY DEF CoInv, CoTypeOK
      <3>3. intq_getc(rxq) \in Intq /\ intq_getc(rxq).lock = rxq.lock
        BY <2>2, <3>2, GetcIs
      <3>4. rxq' = WithLock(intq_getc(rxq), rxq.lock)
        BY <3>1, <3>3 DEF WithLock, Intq
      <3>5. rxq.lock \in Threads \cup {Nobody}
        BY <3>2 DEF Intq
      <3> QED BY <2>1, <2>2, <3>1, <3>4, <3>5, TakeKeeps
    <2>3. CASE rxq.buf = <<>> /\ rxq.lock = Nobody /\ waits'[r] # "lock"
      <3>1. /\ rxq' = [rxq EXCEPT !.lock = r, !.not_empty = r]
            /\ waits' = [waits EXCEPT ![r] = "blocked"] /\ UNCHANGED ier
        BY <1>1, <2>3 DEF input_getc, intq_empty
      <3> QED BY <2>1, <2>3, <3>1, SleepKeeps
    <2>4. CASE rxq.buf = <<>> /\ ~(rxq.lock = Nobody /\ waits'[r] # "lock")
      <3>1. /\ waits' = [waits EXCEPT ![r] = "lock"] /\ UNCHANGED <<rxq, ier>>
        BY <1>1, <2>4 DEF input_getc, intq_empty, CoInv, CoTypeOK, Threads
      <3>2. /\ waits' \in [Threads -> Waits] /\ waits'[r] = "lock"
            /\ \A t \in Threads : t # r => waits'[t] = waits[t]
        BY <3>1 DEF CoInv, CoTypeOK, Waits, Threads
      <3>3. \A w \in Writers : waits'[w] = waits[w]
        BY <3>2, CoAssumption DEF Threads
      <3>4. RxInv'
        BY <2>1, <3>1, <3>2 DEF CoInv, RxInv, Threads
      <3> QED BY <2>1, <3>1, <3>2, <3>3, <3>4, InputKeeps DEF CoInv, CoTypeOK
    <2> QED BY <2>2, <2>3, <2>4
  <1>2. CASE input_lock(r)
    BY <1>2, SleepKeeps DEF input_lock, intq_empty
  <1>3. CASE input_woken(r)
    <2>1. /\ waits[r] = "woken"
          /\ UNCHANGED <<mode, txq, console_lock, left, thr, rbr, sent, put, keys, asserted>>
      BY <1>3 DEF input_woken
    <2>2. rxq \in Intq /\ rxq.lock = r /\ r # Nobody
      BY <2>1, CoAssumption DEF CoInv, CoTypeOK, RxInv
    <2>3. CASE rxq.buf = <<>>
      <3>1. /\ rxq' = [rxq EXCEPT !.not_empty = r]
            /\ waits' = [waits EXCEPT ![r] = "blocked"] /\ UNCHANGED ier
        BY <1>3, <2>3 DEF input_woken, intq_empty
      <3>2. rxq' = [rxq EXCEPT !.lock = r, !.not_empty = r]
        BY <2>2, <3>1 DEF Intq
      <3> QED BY <2>1, <2>2, <2>3, <3>1, <3>2, SleepKeeps
    <2>4. CASE rxq.buf # <<>>
      <3>1. TakeKey(r) /\ rxq' = WithLock(intq_getc(rxq), Nobody) /\ serial_notify(rxq')
        BY <1>3, <2>4 DEF input_woken, intq_empty, WithLock
      <3> QED BY <2>1, <2>2, <2>4, <3>1, TakeKeeps
    <2> QED BY <2>3, <2>4
  <1> QED BY <1>1, <1>2, <1>3 DEF ReaderStep

(* A key is stored: whoever sleeps is woken.                               *)
LEMMA StoreKeeps ==
  ASSUME CoInv, NEW byte \in Nat,
         rxq' = intq_putc(rxq, byte), waits' = Woken(rxq, "not_empty"),
         mode = "QUEUE" => write_ier(txq, rxq'), rbr' \in Nat,
         UNCHANGED <<mode, txq, console_lock, left, sent, put>>
  PROVE  CoInv'
  <1>1. rxq \in Intq
    BY DEF CoInv, CoTypeOK
  <1>2. /\ rxq' \in Intq /\ rxq'.lock = rxq.lock /\ rxq'.not_full = rxq.not_full
        /\ rxq'.not_empty = Nobody
    BY <1>1, PutcIs
  <1>3. /\ waits' \in [Threads -> Waits]
        /\ \A t \in Threads : waits'[t] = IF t = rxq.not_empty THEN "woken" ELSE waits[t]
    BY <1>1, WokenIs DEF CoInv
  <1>4. rxq.not_empty \in Readers \cup {Nobody}
    BY DEF CoInv, RxInv
  <1>5. \A w \in Writers : waits'[w] = waits[w]
    BY <1>3, <1>4, CoAssumption DEF Threads
  <1>6. \A r \in Readers : waits'[r] # "blocked" /\ (waits'[r] = "woken" => rxq.lock = r)
    <2> SUFFICES ASSUME NEW r \in Readers
                 PROVE  waits'[r] # "blocked" /\ (waits'[r] = "woken" => rxq.lock = r)
      OBVIOUS
    <2>1. CASE r = rxq.not_empty
      BY <1>3, <2>1, CoAssumption DEF CoInv, RxInv, Threads
    <2>2. CASE r # rxq.not_empty
      BY <1>3, <2>2 DEF CoInv, RxInv, Threads
    <2> QED BY <2>1, <2>2
  <1>7. RxInv'
    BY <1>2, <1>6 DEF CoInv, RxInv
  <1> QED BY <1>2, <1>3, <1>5, <1>7, InputKeeps

LEMMA KeyboardKeeps == CoInv /\ keyboard_interrupt => CoInv'
  <1> SUFFICES ASSUME CoInv, keyboard_interrupt PROVE CoInv'
    OBVIOUS
  <1>1. UNCHANGED <<mode, txq, console_lock, left, thr, rbr, sent, put, asserted>>
    BY DEF keyboard_interrupt
  <1>2. rbr' \in Nat /\ rxq \in Intq /\ waits \in [Threads -> Waits]
    BY <1>1 DEF CoInv, CoTypeOK
  <1>3. CASE UNCHANGED <<rxq, waits, ier>>
    <2>1. RxInv'
      BY <1>1, <1>3 DEF CoInv, RxInv
    <2> QED BY <1>1, <1>2, <1>3, <2>1, InputKeeps
  <1>4. CASE rxq' = intq_putc(rxq, 1) /\ waits' = Woken(rxq, "not_empty") /\ serial_notify(rxq')
    BY <1>1, <1>2, <1>4, StoreKeeps DEF serial_notify
  <1> QED BY <1>3, <1>4 DEF keyboard_interrupt

-----------------------------------------------------------------------------
(* The numbered characters: handed over, sent, and sent in front of others. *)
Numbers(n) == [i \in 1 .. n |-> i]

LEMMA NumbersIs == \A n \in Nat : Numbers(n) \in Seq(Nat) /\ Len(Numbers(n)) = n
  BY DEF Numbers

LEMMA NumbersNext == ASSUME NEW n \in Nat PROVE Append(Numbers(n), n + 1) = Numbers(n + 1)
  <1>1. /\ Append(Numbers(n), n + 1) \in Seq(Nat) /\ Numbers(n + 1) \in Seq(Nat)
        /\ Len(Append(Numbers(n), n + 1)) = n + 1 /\ Len(Numbers(n + 1)) = n + 1
    BY NumbersIs
  <1>2. \A i \in 1 .. n + 1 : Append(Numbers(n), n + 1)[i] = Numbers(n + 1)[i]
    BY NumbersIs DEF Numbers
  <1> QED BY <1>1, <1>2, SeqEqual

LEMMA AppendLast ==
  ASSUME NEW s \in Seq(Nat), NEW t \in Seq(Nat), NEW x \in Nat
  PROVE  s \o Append(t, x) = Append(s \o t, x)
  <1>1. /\ s \o Append(t, x) \in Seq(Nat) /\ Append(s \o t, x) \in Seq(Nat)
        /\ Len(s \o Append(t, x)) = Len(Append(s \o t, x))
    OBVIOUS
  <1>2. \A i \in 1 .. Len(s \o Append(t, x)) : (s \o Append(t, x))[i] = Append(s \o t, x)[i]
    OBVIOUS
  <1> QED BY <1>1, <1>2, SeqEqual

LEMMA HeadMoves ==
  ASSUME NEW s \in Seq(Nat), NEW t \in Seq(Nat), t # <<>>
  PROVE  /\ Append(s, Head(t)) \in Seq(Nat) /\ Tail(t) \in Seq(Nat)
         /\ Append(s, Head(t)) \o Tail(t) = s \o t
  <1>1. /\ Head(t) \in Nat /\ Tail(t) \in Seq(Nat) /\ Len(t) \in Nat \ {0}
        /\ Len(Tail(t)) = Len(t) - 1 /\ Head(t) = t[1]
        /\ \A i \in 1 .. Len(t) - 1 : Tail(t)[i] = t[i + 1]
    OBVIOUS
  <1>2. Append(s, Head(t)) \in Seq(Nat)
    BY <1>1
  <1>3. /\ Append(s, Head(t)) \o Tail(t) \in Seq(Nat) /\ s \o t \in Seq(Nat)
        /\ Len(Append(s, Head(t)) \o Tail(t)) = Len(s \o t)
    BY <1>1, <1>2
  <1>4. ASSUME NEW i \in 1 .. Len(s \o t)
        PROVE  (Append(s, Head(t)) \o Tail(t))[i] = (s \o t)[i]
    <2>1. CASE i <= Len(s)
      BY <1>1, <1>2, <2>1
    <2>2. CASE i = Len(s) + 1
      BY <1>1, <1>2, <2>2
    <2>3. CASE i > Len(s) + 1
      <3>1. (Append(s, Head(t)) \o Tail(t))[i] = Tail(t)[i - Len(s) - 1]
        BY <1>1, <1>2, <2>3
      <3>2. (s \o t)[i] = t[i - Len(s)]
        BY <1>1, <2>3
      <3>3. Tail(t)[i - Len(s) - 1] = t[i - Len(s)]
        BY <1>1, <2>3
      <3> QED BY <3>1, <3>2, <3>3
    <2> QED BY <2>1, <2>2, <2>3
  <1> QED BY <1>1, <1>2, <1>3, <1>4, SeqEqual

LEMMA OutIs == CoInv => sent \o txq.buf = Numbers(put)
  BY DEF CoInv, OutInv, SerialInOrder, Numbers

-----------------------------------------------------------------------------
(* The output: what its steps leave to the parts about the input.          *)
LEMMA OutputKeeps ==
  ASSUME CoInv, UNCHANGED <<rxq, console_lock, rbr, asserted>>,
         txq' \in Intq, waits' \in [Threads -> Waits], \A r \in Readers : waits'[r] = waits[r],
         left' \in [Writers -> Seq(Nat)], \A w \in Writers : Len(left'[w]) = Len(left[w]),
         mode' = mode \/ (mode \in {"UNINIT", "POLL"} /\ mode' = "POLL"),
         sent' \in Seq(Nat), put' \in Nat, OutInv', TxInv',
         mode = "QUEUE" => (txq'.buf \in {txq.buf, <<>>} /\ ier' = ier) \/ write_ier(txq', rxq)
  PROVE  CoInv'
  <1>1. CoTypeOK'
    BY DEF CoInv, CoTypeOK
  <1>2. \A w \in Writers : left'[w] = <<>> <=> left[w] = <<>>
    BY EmptySeq DEF CoInv, CoTypeOK
  <1>3. LockInv'
    BY <1>2 DEF CoInv, LockInv
  <1>4. InterruptsArmed'
    BY DEF CoInv, InterruptsArmed, write_ier, intq_empty, intq_full
  <1>5. RxInv'
    BY DEF CoInv, RxInv
  <1> QED BY <1>1, <1>3, <1>4, <1>5 DEF CoInv

(* A character leaves the queue: whoever waits for room is woken.          *)
LEMMA RoomMade ==
  ASSUME CoInv, txq' \in Intq, txq'.not_full = Nobody, txq'.not_empty = Nobody,
         \A w \in Writers : waits'[w] = IF w = txq.not_full THEN "woken" ELSE waits[w]
  PROVE  TxInv'
  BY DEF CoInv, TxInv

LEMMA PutcKeeps ==
  ASSUME CoInv, NEW w \in Writers, serial_putc(w)
  PROVE  CoInv'
  <1>1. /\ waits[w] \in {"no", "woken"} /\ left[w] # <<>> /\ Head(left[w]) > 0
        /\ UNCHANGED <<rxq, console_lock, rbr, keys, asserted>>
    BY DEF serial_putc
  <1>2. /\ txq \in Intq /\ sent \in Seq(Nat) /\ put \in Nat /\ left \in [Writers -> Seq(Nat)]
        /\ waits \in [Threads -> Waits] /\ w \in Threads /\ TxRoom \in Nat \ {0}
        /\ Nobody \notin Threads /\ txq.buf \in Seq(Nat)
    BY CoAssumption DEF CoInv, CoTypeOK, Threads, Intq
  <1>3. \A v \in Writers : v # w => left[v] = <<>>
    BY <1>1 DEF CoInv, LockInv
  <1>4. \A v \in Writers : waits[v] # "blocked"
    BY <1>1, <1>3 DEF CoInv, TxInv
  <1>5. txq.not_full = Nobody /\ txq.not_empty = Nobody
    BY <1>4 DEF CoInv, TxInv
  <1> DEFINE spent == [left EXCEPT ![w][1] = @ - 1]
  <1>6. spent \in [Writers -> Seq(Nat)] /\ \A v \in Writers : Len(spent[v]) = Len(left[v])
    BY <1>1, SpentIs DEF CoInv
  <1> HIDE DEF spent
  <1>7. CASE mode \in {"UNINIT", "POLL"}
    <2>1. /\ mode' = "POLL" /\ put' = put + 1 /\ sent' = Append(sent, put + 1) /\ left' = spent
          /\ UNCHANGED <<txq, waits, ier>>
      BY <1>7 DEF serial_putc, init_poll, putc_poll, spent
    <2>2. txq.buf = <<>>
      BY <1>7 DEF CoInv, OutInv
    <2>3. sent = Numbers(put)
      BY <1>2, <2>2, OutIs, ConcatEmptySeq
    <2>4. sent' \in Seq(Nat) /\ put' \in Nat /\ sent' \o txq'.buf = Numbers(put')
      <3>1. sent' \in Seq(Nat) /\ put' \in Nat /\ sent' = Numbers(put')
        <4>1. put + 1 \in Nat /\ Append(sent, put + 1) = Numbers(put + 1)
          <5>1. put \in Nat /\ put + 1 \in Nat
            BY <1>2
          <5>2. Append(Numbers(put), put + 1) = Numbers(put + 1)
            BY <5>1, NumbersNext, Zenon
          <5> QED BY <2>3, <5>1, <5>2, Zenon
        <4>2. Numbers(put + 1) \in Seq(Nat)
          BY <4>1, NumbersIs
        <4> QED BY <2>1, <4>1, <4>2, Zenon
      <3> QED BY <2>1, <2>2, <3>1, ConcatEmptySeq
    <2>5. OutInv'
      BY <2>1, <2>2, <2>4 DEF OutInv, SerialInOrder, Numbers
    <2>6. TxInv'
      BY <1>4, <1>5, <2>1 DEF TxInv
    <2> QED BY <1>1, <1>2, <1>6, <1>7, <2>1, <2>4, <2>5, <2>6, OutputKeeps
  <1>8. CASE mode = "QUEUE" /\ intq_full(txq, TxRoom)
    <2>1. /\ txq' = [txq EXCEPT !.lock = w, !.not_full = w]
          /\ waits' = [waits EXCEPT ![w] = "blocked"]
          /\ UNCHANGED <<left, put, ier, mode, thr, sent>>
      BY <1>8 DEF serial_putc
    <2>2. /\ txq' \in Intq /\ txq'.buf = txq.buf /\ txq'.not_full = w
          /\ txq'.not_empty = txq.not_empty
      BY <1>2, <2>1 DEF Intq
    <2>3. /\ waits' \in [Threads -> Waits] /\ waits'[w] = "blocked"
          /\ \A t \in Threads : t # w => waits'[t] = waits[t]
      BY <1>2, <2>1 DEF Waits
    <2>4. OutInv'
      BY <2>1, <2>2 DEF CoInv, OutInv, SerialInOrder
    <2>5. TxInv'
      BY <1>1, <1>4, <1>5, <1>8, <2>1, <2>2, <2>3 DEF TxInv, intq_full, Threads
    <2>6. \A r \in Readers : waits'[r] = waits[r]
      BY <2>3, CoAssumption DEF Threads
    <2>7. /\ left' \in [Writers -> Seq(Nat)] /\ \A v \in Writers : Len(left'[v]) = Len(left[v])
          /\ sent' \in Seq(Nat) /\ put' \in Nat /\ mode' = mode
          /\ txq'.buf \in {txq.buf, <<>>} /\ ier' = ier
      BY <1>2, <2>1, <2>2
    <2> QED BY <1>1, <2>2, <2>3, <2>4, <2>5, <2>6, <2>7, OutputKeeps
  <1>9. CASE mode = "QUEUE" /\ ~intq_full(txq, TxRoom)
    <2>1. /\ put' = put + 1 /\ txq' = WithLock(intq_putc(txq, put + 1), Nobody)
          /\ waits' = [Woken(txq, "not_empty") EXCEPT ![w] = "no"] /\ left' = spent
          /\ write_ier(txq', rxq) /\ UNCHANGED <<mode, thr, sent>>
      BY <1>9 DEF serial_putc, spent, WithLock
    <2>2. waits' = [waits EXCEPT ![w] = "no"]
      BY <1>5, <2>1 DEF Woken
    <2>3. /\ txq' \in Intq /\ txq'.buf = Append(txq.buf, put + 1) /\ txq'.not_full = Nobody
          /\ txq'.not_empty = Nobody
      <3> DEFINE q == intq_putc(txq, put + 1)
      <3>1. /\ q \in Intq /\ q.buf = Append(txq.buf, put + 1) /\ q.not_full = txq.not_full
            /\ q.not_empty = Nobody
        <4>1. txq \in Intq /\ put + 1 \in Nat
          BY <1>2
        <4> QED BY <4>1, PutcIs
      <3>2. txq' = WithLock(q, Nobody)
        BY <2>1
      <3> HIDE DEF q
      <3> QED BY <1>5, <3>1, <3>2, LockedIs
    <2>4. /\ waits' \in [Threads -> Waits] /\ waits'[w] = "no"
          /\ \A t \in Threads : t # w => waits'[t] = waits[t]
      BY <1>2, <2>2 DEF Waits
    <2>5. sent' \o txq'.buf = Numbers(put') /\ put' \in Nat
      <3>1. sent \o Append(txq.buf, put + 1) = Append(sent \o txq.buf, put + 1)
        BY <1>2, AppendLast
      <3>2. sent \o Append(txq.buf, put + 1) = Numbers(put + 1)
        BY <1>2, <3>1, OutIs, NumbersNext
      <3>3. put + 1 \in Nat
        BY <1>2
      <3> QED BY <2>1, <2>3, <3>2, <3>3, Zenon
    <2>6. OutInv'
      BY <1>9, <2>1, <2>5 DEF OutInv, SerialInOrder, Numbers
    <2>7. TxInv'
      BY <1>4, <2>3, <2>4 DEF TxInv, Threads
    <2>8. \A r \in Readers : waits'[r] = waits[r]
      BY <2>4, CoAssumption DEF Threads
    <2>9. /\ left' \in [Writers -> Seq(Nat)] /\ \A v \in Writers : Len(left'[v]) = Len(left[v])
          /\ sent' \in Seq(Nat) /\ mode' = mode /\ write_ier(txq', rxq)
      BY <1>2, <1>6, <2>1
    <2> QED BY <1>1, <2>3, <2>4, <2>5, <2>6, <2>7, <2>8, <2>9, OutputKeeps
  <1> QED BY <1>7, <1>8, <1>9 DEF serial_putc

LEMMA PutcOffKeeps == CoInv /\ serial_putc_off => CoInv'
  <1> SUFFICES ASSUME CoInv, serial_putc_off PROVE CoInv'
    OBVIOUS
  <1>1. /\ mode \in {"SWITCH", "QUEUE"} /\ put' = put + 1 /\ write_ier(txq', rxq)
        /\ UNCHANGED <<mode, rxq, console_lock, left, rbr, keys, asserted>>
    BY DEF serial_putc_off
  <1>2. /\ txq \in Intq /\ sent \in Seq(Nat) /\ put \in Nat /\ left \in [Writers -> Seq(Nat)]
        /\ waits \in [Threads -> Waits] /\ TxRoom \in Nat \ {0} /\ put + 1 \in Nat
        /\ Nobody \notin Threads /\ txq.buf \in Seq(Nat)
    BY CoAssumption DEF CoInv, CoTypeOK, Threads, Intq
  <1>3. txq.not_empty = Nobody /\ txq.not_full \in Writers \cup {Nobody}
    BY DEF CoInv, TxInv
  <1>4. put' \in Nat /\ mode' = mode /\ left' = left
    BY <1>1, <1>2
  <1>5. CASE intq_full(txq, TxRoom)
    <2>1. /\ sent' = Append(sent, Head(txq.buf)) /\ waits' = Woken(txq, "not_full")
          /\ txq' = intq_putc(intq_getc(txq), put + 1)
      BY <1>1, <1>5 DEF serial_putc_off, putc_poll
    <2>2. txq.buf # <<>>
      BY <1>2, <1>5 DEF intq_full
    <2> DEFINE q == intq_getc(txq)
    <2>3. /\ q \in Intq /\ q.buf = Tail(txq.buf) /\ q.not_full = Nobody
          /\ q.not_empty = Nobody
      BY <1>2, <1>3, <2>2, GetcIs
    <2>4. txq' = intq_putc(q, put + 1)
      BY <2>1
    <2> HIDE DEF q
    <2>5. /\ txq' \in Intq /\ txq'.buf = Append(Tail(txq.buf), put + 1)
          /\ txq'.not_full = Nobody /\ txq'.not_empty = Nobody
      BY <1>2, <2>3, <2>4, PutcIs
    <2>6. /\ waits' \in [Threads -> Waits]
          /\ \A t \in Threads : waits'[t] = IF t = txq.not_full THEN "woken" ELSE waits[t]
      BY <1>2, <2>1, WokenIs DEF CoInv
    <2>7. \A r \in Readers : waits'[r] = waits[r]
      BY <1>3, <2>6, CoAssumption DEF Threads
    <2>8. TxInv'
      BY <2>5, <2>6, RoomMade DEF Threads
    <2>9. sent' \in Seq(Nat) /\ sent' \o txq'.buf = Numbers(put + 1)
      <3>1. /\ sent' \in Seq(Nat) /\ Tail(txq.buf) \in Seq(Nat)
            /\ sent' \o Tail(txq.buf) = Numbers(put)
        BY <1>2, <2>1, <2>2, HeadMoves, OutIs
      <3>2. sent' \o Append(Tail(txq.buf), put + 1) = Append(sent' \o Tail(txq.buf), put + 1)
        BY <1>2, <3>1, AppendLast
      <3>3. Append(Numbers(put), put + 1) = Numbers(put + 1)
        BY <1>2, NumbersNext
      <3> QED BY <2>5, <3>1, <3>2, <3>3, Zenon
    <2>10. OutInv'
      BY <1>1, <2>9 DEF OutInv, SerialInOrder, Numbers
    <2> QED BY <1>1, <1>2, <1>4, <2>5, <2>6, <2>7, <2>8, <2>9, <2>10, OutputKeeps
  <1>6. CASE ~intq_full(txq, TxRoom)
    <2>1. /\ txq' = intq_putc(txq, put + 1) /\ waits' = Woken(txq, "not_empty")
          /\ UNCHANGED <<sent, thr>>
      BY <1>1, <1>6 DEF serial_putc_off
    <2>2. waits' = waits
      BY <1>3, <2>1 DEF Woken
    <2>3. /\ txq' \in Intq /\ txq'.buf = Append(txq.buf, put + 1)
          /\ txq'.not_full = txq.not_full /\ txq'.not_empty = Nobody
      BY <1>2, <2>1, PutcIs
    <2>4. \A w \in Writers : waits[w] # "blocked"
      BY <1>6 DEF CoInv, TxInv, intq_full
    <2>5. TxInv'
      BY <2>2, <2>3, <2>4 DEF CoInv, TxInv
    <2>6. sent' \o txq'.buf = Numbers(put + 1)
      <3>1. sent \o Append(txq.buf, put + 1) = Append(sent \o txq.buf, put + 1)
        BY <1>2, AppendLast
      <3>2. sent \o Append(txq.buf, put + 1) = Numbers(put + 1)
        BY <1>2, <3>1, OutIs, NumbersNext
      <3> QED BY <2>1, <2>3, <3>2, Zenon
    <2>7. OutInv'
      BY <1>1, <2>6 DEF OutInv, SerialInOrder, Numbers
    <2> QED BY <1>1, <1>2, <1>4, <2>1, <2>2, <2>3, <2>5, <2>7, OutputKeeps
  <1> QED BY <1>5, <1>6

LEMMA FlushKeeps == CoInv /\ serial_flush => CoInv'
  <1> SUFFICES ASSUME CoInv, serial_flush PROVE CoInv'
    OBVIOUS
  <1>1. /\ sent' = sent \o txq.buf /\ txq' = [txq EXCEPT !.buf = <<>>, !.not_full = Nobody]
        /\ waits' = Woken(txq, "not_full") /\ txq.buf # <<>>
        /\ UNCHANGED <<mode, rxq, console_lock, left, ier, rbr, put, keys, asserted>>
    BY DEF serial_flush, intq_empty
  <1>2. /\ txq \in Intq /\ sent \in Seq(Nat) /\ put \in Nat /\ left \in [Writers -> Seq(Nat)]
        /\ waits \in [Threads -> Waits] /\ txq.buf \in Seq(Nat)
    BY DEF CoInv, CoTypeOK, Intq
  <1>3. txq.not_empty = Nobody /\ txq.not_full \in Writers \cup {Nobody}
    BY DEF CoInv, TxInv
  <1>4. /\ txq' \in Intq /\ txq'.buf = <<>> /\ txq'.not_full = Nobody /\ txq'.not_empty = Nobody
    <2>1. <<>> \in Seq(Nat) /\ txq' = [txq EXCEPT !.buf = <<>>, !.not_full = Nobody]
      BY <1>1
    <2>2. txq' \in Intq
      BY <1>2, <2>1 DEF Intq
    <2>3. txq'.buf = <<>> /\ txq'.not_full = Nobody /\ txq'.not_empty = txq.not_empty
      BY <1>2, <2>1 DEF Intq
    <2> QED BY <1>3, <2>2, <2>3
  <1>5. /\ waits' \in [Threads -> Waits]
        /\ \A t \in Threads : waits'[t] = IF t = txq.not_full THEN "woken" ELSE waits[t]
    BY <1>1, <1>2, WokenIs DEF CoInv
  <1>6. \A r \in Readers : waits'[r] = waits[r]
    BY <1>3, <1>5, CoAssumption DEF Threads
  <1>7. TxInv'
    BY <1>4, <1>5, RoomMade DEF Threads
  <1>8. sent' \in Seq(Nat) /\ sent' \o txq'.buf = Numbers(put)
    BY <1>1, <1>2, <1>4, OutIs, ConcatEmptySeq, ConcatProperties
  <1>9. OutInv'
    BY <1>1, <1>4, <1>8 DEF OutInv, SerialInOrder, Numbers
  <1> QED BY <1>1, <1>2, <1>4, <1>5, <1>6, <1>7, <1>8, <1>9, OutputKeeps

(* serial_interrupt stores a byte that came in, and sends one.             *)
LEMMA InterruptKeeps == CoInv /\ serial_interrupt => CoInv'
  <1> SUFFICES ASSUME CoInv, serial_interrupt PROVE CoInv'
    OBVIOUS
  <1> DEFINE receive == rbr # 0 /\ ~intq_full(rxq, RxRoom)
             send == ~intq_empty(txq) /\ ~thr
             woken1 == IF receive THEN Woken(rxq, "not_empty") ELSE waits
  <1>1. /\ rxq' = IF receive THEN intq_putc(rxq, rbr) ELSE rxq
        /\ rbr' = IF receive THEN 0 ELSE rbr
        /\ txq' = IF send THEN intq_getc(txq) ELSE txq
        /\ sent' = IF send THEN Append(sent, Head(txq.buf)) ELSE sent
        /\ waits' = IF send /\ txq.not_full # Nobody THEN [woken1 EXCEPT ![txq.not_full] = "woken"]
                    ELSE woken1
        /\ write_ier(txq', rxq')
        /\ UNCHANGED <<mode, console_lock, left, put, keys, asserted>>
    BY DEF serial_interrupt
  <1>2. send => txq.buf # <<>>
    BY DEF intq_empty
  <1> HIDE DEF receive, send
  <1>3. /\ txq \in Intq /\ rxq \in Intq /\ sent \in Seq(Nat) /\ put \in Nat
        /\ waits \in [Threads -> Waits] /\ txq.buf \in Seq(Nat) /\ rbr \in Nat
        /\ Nobody \notin Threads /\ "woken" \in Waits
    BY CoAssumption DEF CoInv, CoTypeOK, Intq, Waits, Threads
  <1>4. /\ txq.not_empty = Nobody /\ txq.not_full \in Writers \cup {Nobody}
        /\ rxq.not_empty \in Readers \cup {Nobody}
    BY DEF CoInv, TxInv, RxInv
  <1>5. /\ woken1 \in [Threads -> Waits]
        /\ \A t \in Threads : woken1[t] = IF receive /\ t = rxq.not_empty THEN "woken" ELSE waits[t]
    BY <1>3, WokenIs DEF CoInv
  <1> HIDE DEF woken1
  <1>6. /\ waits' \in [Threads -> Waits]
        /\ \A t \in Threads : waits'[t] = IF \/ send /\ t = txq.not_full
                                             \/ receive /\ t = rxq.not_empty
                                          THEN "woken" ELSE waits[t]
    <2>1. CASE send /\ txq.not_full # Nobody
      <3>1. waits' = [woken1 EXCEPT ![txq.not_full] = "woken"] /\ txq.not_full \in Threads
        BY <1>1, <1>4, <2>1 DEF Threads
      <3> QED BY <1>3, <1>5, <2>1, <3>1
    <2>2. CASE ~(send /\ txq.not_full # Nobody)
      BY <1>1, <1>3, <1>5, <2>2
    <2> QED BY <2>1, <2>2
  <1>7. /\ rxq' \in Intq /\ rxq'.lock = rxq.lock /\ rxq'.not_full = rxq.not_full
        /\ receive => rxq'.not_empty = Nobody
        /\ ~receive => rxq' = rxq
    BY <1>1, <1>3, PutcIs
  <1>8. /\ txq' \in Intq /\ txq'.not_empty = Nobody
        /\ send => txq'.not_full = Nobody /\ txq'.buf = Tail(txq.buf)
        /\ ~send => txq' = txq
    BY <1>1, <1>2, <1>3, <1>4, GetcIs
  <1>9. sent' \in Seq(Nat) /\ sent' \o txq'.buf = Numbers(put)
    <2>1. CASE send
      BY <1>1, <1>2, <1>3, <1>8, <2>1, OutIs, HeadMoves
    <2>2. CASE ~send
      BY <1>1, <1>3, <1>8, <2>2, OutIs
    <2> QED BY <2>1, <2>2
  <1>10. CoTypeOK'
    BY <1>1, <1>3, <1>6, <1>7, <1>8, <1>9 DEF CoInv, CoTypeOK
  <1>11. OutInv'
    <2>1. mode \in {"UNINIT", "POLL"} => ~send
      BY <1>2 DEF CoInv, OutInv
    <2> QED BY <1>1, <1>8, <1>9, <2>1 DEF CoInv, OutInv, SerialInOrder, Numbers
  <1>12. LockInv'
    BY <1>1 DEF CoInv, LockInv
  <1>13. InterruptsArmed'
    BY <1>1 DEF InterruptsArmed, write_ier, intq_empty, intq_full
  <1>14. TxInv'
    <2>1. \A w \in Writers : waits'[w] = IF send /\ w = txq.not_full THEN "woken" ELSE waits[w]
      BY <1>4, <1>6, CoAssumption DEF Threads
    <2>2. CASE send
      BY <1>8, <2>1, <2>2, RoomMade
    <2>3. CASE ~send
      BY <1>1, <1>8, <2>1, <2>3 DEF CoInv, TxInv
    <2> QED BY <2>2, <2>3
  <1>15. RxInv'
    <2>1. \A r \in Readers : waits'[r] = IF receive /\ r = rxq.not_empty THEN "woken" ELSE waits[r]
      BY <1>4, <1>6, CoAssumption DEF Threads
    <2>2. CASE receive
      <3>1. ASSUME NEW r \in Readers
            PROVE  waits'[r] # "blocked" /\ (waits'[r] = "woken" => rxq.lock = r)
        <4>1. CASE r = rxq.not_empty
          BY <2>1, <2>2, <4>1, CoAssumption DEF CoInv, RxInv
        <4>2. CASE r # rxq.not_empty
          BY <2>1, <4>2 DEF CoInv, RxInv
        <4> QED BY <4>1, <4>2
      <3> QED BY <1>7, <2>2, <3>1 DEF CoInv, RxInv
    <2>3. CASE ~receive
      BY <1>1, <1>7, <2>1, <2>3 DEF CoInv, RxInv
    <2> QED BY <2>2, <2>3
  <1> QED BY <1>10, <1>11, <1>12, <1>13, <1>14, <1>15 DEF CoInv

(* Output leaves the serial port in the order printed, polled or queued,   *)
(* lines are whole, the port's interrupts are on when they are needed and  *)
(* nobody sleeps on a queue that has what it waits for, for every number   *)
(* of threads and every length of the queues and of the strings            *)
(* (console.c, serial.c, intq.c, input.c).                                 *)
THEOREM ConsoleCorrect == CoSpec => []ConsoleSound
  <1>1. CoInit => CoInv
    BY CoInvInit
  <1>2. CoInv /\ [CoNext]_CoVars => CoInv'
    <2> SUFFICES ASSUME CoInv, [CoNext]_CoVars PROVE CoInv'
      OBVIOUS
    <2>1. CASE UNCHANGED CoVars
      BY <2>1 DEF CoVars, CoInv, CoTypeOK, OutInv, SerialInOrder, LockInv, InterruptsArmed,
                  TxInv, RxInv, intq_empty, intq_full
    <2>2. CASE CoNext
      <3>1. ASSUME NEW w \in Writers, WriterStep(w) PROVE CoInv'
        BY <3>1, AcquireKeeps, PutcKeeps, PrintDoneKeeps DEF WriterStep
      <3> QED BY <2>2, <3>1, ReaderKeeps, KeyboardKeeps, PutcOffKeeps, FlushKeeps, InterruptKeeps,
                 UartKeeps DEF CoNext
    <2> QED BY <2>1, <2>2
  <1>3. CoInv => ConsoleSound
    <2> SUFFICES ASSUME CoInv PROVE ConsoleSound
      OBVIOUS
    <2>1. LinesWhole
      BY DEF CoInv, LockInv, LinesWhole
    <2>2. NoSleeperForgotten
      BY DEF CoInv, TxInv, RxInv, NoSleeperForgotten, intq_empty, intq_full
    <2> QED BY <2>1, <2>2 DEF CoInv, OutInv, ConsoleSound
  <1> QED BY <1>1, <1>2, <1>3, PTL DEF CoSpec

(***************************************************************************)
(* 3. The control module.                                                  *)
(***************************************************************************)

(* The arm's movements: axles and angles, and the packets of the set-up.   *)
Moves == ((Axles \cup {"grip"}) \X Int) \cup ({"torque"} \X Int) \cup {<<"setup", InitRobotArmServos>>}

(* The packets that are ever sent: writes that leave the goal of servos 2  *)
(* to 5 alone, and the synchronous writes of a pair's two goals.           *)
Clear == {5, 6, 8, 16, 32, 34}
ClearParams == {q \in Seq(Int) : Len(q) >= 2 /\ Len(q) <= 3 /\ q[1] \in Clear}
ClearWrites ==
  {CreateDynamixelPacket(id, INST_WRITE, params) : id \in Servos \cup {All}, params \in ClearParams}
SingleGoals == {CreateDynamixelPacket(id, INST_WRITE, params) : id \in {1, 6, 7, 8}, params \in Seq(Int)}
GoalsOf(id0, id1, angle) ==
  <<P_GOAL_POSITION_L, 2, id0>> \o Bytes(angle) \o <<id1>> \o Bytes(1023 - angle)
PairGoal(id0, id1, angle) == CreateDynamixelPacket(All, INST_SYNC_WRITE, GoalsOf(id0, id1, angle))
PairGoals == {PairGoal(2, 3, angle) : angle \in Int} \cup {PairGoal(4, 5, angle) : angle \in Int}
Packets == ClearWrites \cup SingleGoals \cup PairGoals

RxType == [buffer : Seq(Int), index : Nat, done : BOOLEAN]
CpuSteps == {"top", "command", "diff", "execute", "run", "steer"}
CpuType == [pc : CpuSteps, command : Int, diff : Int, float : Seq(Int)]
DrvType == [forward : BOOLEAN, drive : Int, turn : Int, amplitude : Int, positive : BOOLEAN]
WheelsType == [a : Int, b : Int, d6 : Int, d7 : Int]
LastType == [sent : Nat, command : Int, argument : Int, wheel : WheelCommands]

RcTypeOK ==
  /\ rx \in RxType /\ Len(rx.buffer) >= 6 /\ bus \in [message : Messages \cup {<<>>}, sent : Nat]
  /\ bus.message = <<>> => bus = Idle
  /\ cpu \in CpuType /\ Len(cpu.float) < 4
  /\ todo \in Seq(Moves) /\ packets \in Seq(Packets)
  /\ rot \in [Axles -> Int] /\ drv \in DrvType /\ wheels \in WheelsType /\ last \in LastType

(* While the bus is quiet, what the main loop has read of the buffer is    *)
(* what is in it, and what it executed last is.                            *)
CommandReads ==
  bus = Idle /\ ~rx.done =>
    /\ cpu.pc = "diff" => cpu.command = rx.buffer[1]
    /\ cpu.pc = "execute" =>
         /\ cpu.command = rx.buffer[1] /\ cpu.diff = rx.buffer[2]
         /\ \A i \in 1 .. Len(cpu.float) : cpu.float[i] = rx.buffer[1 + i]
    /\ cpu.pc \in {"run", "steer", "top"} =>
         last.command = rx.buffer[1] /\ last.argument = rx.buffer[2]

(* The wheels do as told, but between DRIVE_FORWARD and the end of the     *)
(* main loop's round.                                                      *)
WheelsSay ==
  /\ last.wheel = "STOP" => wheels.a = 0 /\ wheels.b = 0
  /\ last.wheel = "DRIVE_FORWARD" => wheels.d6 = 1 /\ wheels.d7 = 0
  /\ last.wheel = "DRIVE_BACKWARD" => wheels.d6 = 0 /\ wheels.d7 = 1 /\ wheels.a = wheels.b
  /\ last.wheel \in {"ROTATE_LEFT", "ROTATE_RIGHT"} => wheels.d6 = wheels.d7 /\ wheels.a = wheels.b
WheelsInv ==
  /\ drv.forward <=> last.wheel = "DRIVE_FORWARD"
  /\ (~drv.forward \/ cpu.pc = "top") => WheelsSay

RcInv == RcTypeOK /\ CommandReads /\ WheelsInv /\ PairsMirrored

-----------------------------------------------------------------------------
(* Packets.                                                                *)

LEMMA PacketIs ==
  ASSUME NEW id \in Int, NEW instruction \in Int, NEW parameters \in Seq(Int)
  PROVE  LET p == CreateDynamixelPacket(id, instruction, parameters)
         IN /\ Len(p) = 6 + Len(parameters)
            /\ p[3] = id /\ p[4] = 2 + Len(parameters) /\ p[5] = instruction
            /\ SubSeq(p, 1, 4 + p[4]) = p /\ Parameters(p) = parameters
  <1> DEFINE body == <<id, 2 + Len(parameters), instruction>> \o parameters
             check == 255 - ByteSum(body)
             p == CreateDynamixelPacket(id, instruction, parameters)
             X == Int \cup {check}
  <1>0. Len(parameters) \in Nat
    OBVIOUS
  <1>1. body \in Seq(Int) /\ Len(body) = 3 + Len(parameters)
    BY <1>0
  <1>2. body[1] = id /\ body[2] = 2 + Len(parameters) /\ body[3] = instruction
        /\ \A i \in 1 .. Len(parameters) : body[3 + i] = parameters[i]
    BY <1>0
  <1> HIDE DEF body
  <1>3. body \in Seq(X) /\ <<255, 255>> \in Seq(X) /\ <<check>> \in Seq(X)
    BY <1>1
  <1> DEFINE q == <<255, 255>> \o body
  <1>4. q \in Seq(X) /\ Len(q) = 5 + Len(parameters)
        /\ \A i \in 1 .. Len(body) : q[2 + i] = body[i]
    BY <1>0, <1>1, <1>3
  <1>5. p = q \o <<check>>
    BY DEF CreateDynamixelPacket, body
  <1> HIDE DEF p, check, q
  <1>6. p \in Seq(X) /\ Len(p) = 6 + Len(parameters)
        /\ \A i \in 1 .. 5 + Len(parameters) : p[i] = q[i]
    BY <1>0, <1>3, <1>4, <1>5
  <1>7. p[3] = id /\ p[4] = 2 + Len(parameters) /\ p[5] = instruction
    BY <1>0, <1>1, <1>2, <1>4, <1>6
  <1>8. \A i \in 1 .. Len(parameters) : p[5 + i] = parameters[i]
    <2> TAKE i \in 1 .. Len(parameters)
    <2>1. 3 + i \in 1 .. Len(body) /\ 5 + i \in 1 .. 5 + Len(parameters) /\ 2 + (3 + i) = 5 + i
      BY <1>0, <1>1
    <2>2. p[5 + i] = q[5 + i] /\ q[2 + (3 + i)] = body[3 + i] /\ body[3 + i] = parameters[i]
      BY <2>1, <1>2, <1>4, <1>6
    <2> QED BY <2>1, <2>2
  <1>9. SubSeq(p, 1, Len(p)) = p
    BY <1>6
  <1>10. SubSeq(p, 6, Len(p) - 1) = parameters
    <2>1. SubSeq(p, 6, Len(p) - 1) \in Seq(X) /\ Len(SubSeq(p, 6, Len(p) - 1)) = Len(parameters)
      BY <1>0, <1>6
    <2>2. \A i \in 1 .. Len(parameters) : SubSeq(p, 6, Len(p) - 1)[i] = parameters[i]
      BY <1>0, <1>6, <1>8
    <2>3. parameters \in Seq(X)
      OBVIOUS
    <2> QED BY <2>1, <2>2, <2>3, SeqEqual
  <1> QED BY <1>0, <1>6, <1>7, <1>9, <1>10 DEF p, Parameters

LEMMA TwoBytes ==
  ASSUME NEW short \in Int, NEW q \in Int, NEW y \in Int, NEW r \in Nat, NEW t \in Nat,
         r < 256, t < 256, short = 256 * q + r, q = 256 * y + t
  PROVE  short % 65536 = r + 256 * t
  <1>1. PICK w \in Nat : w = r + 256 * t /\ w < 65536
    OBVIOUS
  <1>2. short = 65536 * y + w
    BY <1>1
  <1>3. short % 65536 = w
    BY ONLY short \in Int, y \in Int, w \in Nat, <1>1, <1>2
  <1> QED BY <1>1, <1>3

Reads(bytes, short) == bytes[1] + 256 * bytes[2] = short % 65536
LEMMA BytesAre ==
  ASSUME NEW short \in Int
  PROVE  /\ Bytes(short) \in Seq(Int) /\ Len(Bytes(short)) >= 2 /\ Len(Bytes(short)) <= 2
         /\ Reads(Bytes(short), short)
  <1>1. PICK q \in Int, r \in Nat : r < 256 /\ q = short \div 256 /\ r = short % 256 /\ short = 256 * q + r
    OBVIOUS
  <1>2. PICK y \in Int, t \in Nat : t < 256 /\ t = q % 256 /\ q = 256 * y + t
    OBVIOUS
  <1>3. short % 65536 = r + 256 * t
    <2>1. short = 256 * q + r /\ q = 256 * y + t /\ r < 256 /\ t < 256
      BY <1>1, <1>2
    <2> QED BY <2>1, TwoBytes
  <1>4. Bytes(short) = <<r, t>>
    <2>1. Bytes(short) = <<short % 256, (short \div 256) % 256>>
      BY DEF Bytes
    <2>2. short % 256 = r /\ (short \div 256) % 256 = t
      BY ONLY <1>1, <1>2, Zenon
    <2> QED BY ONLY <2>1, <2>2, Zenon
  <1> QED BY <1>3, <1>4 DEF Reads

MirrorSum(angle) == (angle % 65536) + ((1023 - angle) % 65536)
LEMMA Mirror ==
  ASSUME NEW angle \in Int
  PROVE  MirrorSum(angle) \in {1023, 1023 + 65536}
  BY DEF MirrorSum

LEMMA WriteIs ==
  ASSUME NEW id \in Int, NEW params \in Seq(Int), NEW tables
  PROVE  ServoObeys(tables, CreateDynamixelPacket(id, INST_WRITE, params)) \in
           {tables, [s \in Servos |-> IF id \in {s, All}
                       THEN Store(tables[s], params[1], SubSeq(params, 2, Len(params)))
                       ELSE tables[s]]}
  <1> DEFINE packet == CreateDynamixelPacket(id, INST_WRITE, params)
  <1>1. packet[3] = id /\ packet[5] = INST_WRITE /\ Parameters(packet) = params
    BY PacketIs DEF INST_WRITE
  <1> HIDE DEF packet
  <1>2. packet[5] # INST_SYNC_WRITE
    BY <1>1 DEF INST_WRITE, INST_SYNC_WRITE
  <1>3. ServoObeys(tables, packet) \in {tables, Written(tables, id, params)}
    BY <1>1, <1>2 DEF ServoObeys
  <1> QED BY <1>3 DEF packet, Written

LEMMA RestIs ==
  ASSUME NEW s \in Seq(Int), NEW n \in Nat, n = Len(s), n >= 1
  PROVE  SubSeq(s, 2, Len(s)) \in Seq(Int) /\ Len(SubSeq(s, 2, Len(s))) = n - 1
  <1>1. \A i \in 2 .. n : s[i] \in Int
    OBVIOUS
  <1> QED BY <1>1, SubSeqProperties

LEMMA ConcatAt ==
  ASSUME NEW s \in Seq(Int), NEW t \in Seq(Int)
  PROVE  /\ s \o t \in Seq(Int) /\ Len(s \o t) = Len(s) + Len(t)
         /\ \A i \in 1 .. Len(s) : (s \o t)[i] = s[i]
         /\ \A i \in 1 .. Len(t) : (s \o t)[Len(s) + i] = t[i]
  OBVIOUS

LEMMA ConcatFrom ==
  ASSUME NEW s \in Seq(Int), NEW t \in Seq(Int)
  PROVE  /\ s \o t \in Seq(Int) /\ Len(s \o t) = Len(s) + Len(t)
         /\ \A i \in Int : 1 <= i /\ i <= Len(s) => (s \o t)[i] = s[i]
         /\ \A i \in Int : 1 <= i - Len(s) /\ i - Len(s) <= Len(t) => (s \o t)[i] = t[i - Len(s)]
  <1>1. \A i \in Int : 1 <= i - Len(s) /\ i - Len(s) <= Len(t) => (s \o t)[i] = t[i - Len(s)]
    <2> TAKE i \in Int
    <2> HAVE 1 <= i - Len(s) /\ i - Len(s) <= Len(t)
    <2> DEFINE j == i - Len(s)
    <2>1. j \in 1 .. Len(t) /\ i = Len(s) + j
      OBVIOUS
    <2> HIDE DEF j
    <2>2. (s \o t)[i] = t[j]
      BY <2>1, ConcatAt
    <2> QED BY <2>2 DEF j
  <1> QED BY <1>1, ConcatAt
(* Two sequences put together, their lengths named.                        *)
Joined(s, t) == s \o t
Joins(u, s, t, m, n) ==
  /\ u \in Seq(Int) /\ Len(u) = m + n
  /\ \A i \in Int : 1 <= i /\ i <= m => u[i] = s[i]
  /\ \A i \in Int : 1 <= i - m /\ i - m <= n => u[i] = t[i - m]
LEMMA ConcatBy ==
  ASSUME NEW s \in Seq(Int), NEW t \in Seq(Int), NEW m \in Nat, NEW n \in Nat, Len(s) = m, Len(t) = n
  PROVE  Joined(s, t) \in Seq(Int) /\ Len(Joined(s, t)) = m + n /\ Joins(Joined(s, t), s, t, m, n)
  <1> DEFINE u == s \o t
  <1>1. u \in Seq(Int) /\ Len(u) = Len(s) + Len(t)
    BY ONLY s \in Seq(Int), t \in Seq(Int)
  <1>2. /\ \A i \in Int : 1 <= i /\ i <= Len(s) => u[i] = s[i]
        /\ \A i \in Int : 1 <= i - Len(s) /\ i - Len(s) <= Len(t) => u[i] = t[i - Len(s)]
    BY ONLY ConcatFrom, s \in Seq(Int), t \in Seq(Int)
  <1> HIDE DEF u
  <1>3. \A i \in Int : 1 <= i /\ i <= m => u[i] = s[i]
    BY ONLY <1>2, Len(s) = m, m \in Nat
  <1>4. \A i \in Int : 1 <= i - m /\ i - m <= n => u[i] = t[i - m]
    BY ONLY <1>2, Len(s) = m, Len(t) = n, m \in Nat, n \in Nat
  <1>5. u \in Seq(Int) /\ Len(u) = m + n
    BY ONLY <1>1, Len(s) = m, Len(t) = n, m \in Nat, n \in Nat
  <1> QED BY ONLY <1>3, <1>4, <1>5 DEF u, Joined, Joins


(* A servo's goal is what it was unless the packet writes it.              *)
SameGoal(tables, old, id) == \A a \in {30, 31} : tables[id][a] = old[id][a]

LEMMA StoreElsewhere ==
  ASSUME NEW table, NEW first \in Clear, NEW bytes \in Seq(Int), Len(bytes) >= 1, Len(bytes) <= 2, NEW a \in {30, 31}
  PROVE  Store(table, first, bytes)[a] = table[a]
  <1>1. a \in Table
    BY DEF Table
  <1>2. PICK n \in Nat : n = Len(bytes) /\ n >= 1 /\ n <= 2
    OBVIOUS
  <1>3. a \notin first .. first + n - 1
    BY <1>2 DEF Clear
  <1> QED BY <1>1, <1>2, <1>3 DEF Store

LEMMA ClearWriteKeeps ==
  ASSUME NEW p \in ClearWrites, NEW tables, NEW id \in 2 .. 5
  PROVE  SameGoal(ServoObeys(tables, p), tables, id)
  <1>0. PICK to \in Servos \cup {All}, params \in ClearParams :
          p = CreateDynamixelPacket(to, INST_WRITE, params)
    BY DEF ClearWrites
  <1>1. params \in Seq(Int) /\ params[1] \in Clear /\ Len(params) >= 2 /\ Len(params) <= 3
    BY DEF ClearParams
  <1>2. to \in Int /\ id \in Servos
    BY DEF Servos, All
  <1> DEFINE bytes == SubSeq(params, 2, Len(params))
  <1>3. bytes \in Seq(Int) /\ Len(bytes) >= 1 /\ Len(bytes) <= 2
    <2>1. PICK n \in Nat : n = Len(params)
      BY ONLY <1>1
    <2>2. n >= 2 /\ n <= 3
      BY ONLY <1>1, <2>1
    <2>3. bytes \in Seq(Int) /\ Len(bytes) = n - 1
      BY ONLY <1>1, <2>1, <2>2, RestIs
    <2> QED BY ONLY <2>2, <2>3
  <1>4. ServoObeys(tables, p)[id] \in {tables[id], Store(tables[id], params[1], bytes)}
    BY <1>0, <1>1, <1>2, WriteIs
  <1> HIDE DEF bytes
  <1>5. \A a \in {30, 31} : Store(tables[id], params[1], bytes)[a] = tables[id][a]
    BY <1>1, <1>3, StoreElsewhere
  <1> QED BY <1>4, <1>5 DEF SameGoal

LEMMA SingleGoalKeeps ==
  ASSUME NEW p \in SingleGoals, NEW tables, NEW id \in 2 .. 5
  PROVE  SameGoal(ServoObeys(tables, p), tables, id)
  <1>1. PICK to \in {1, 6, 7, 8}, params \in Seq(Int) : p = CreateDynamixelPacket(to, INST_WRITE, params)
    BY DEF SingleGoals
  <1>2. id \in Servos /\ to \in Int /\ to # id /\ to # All
    BY DEF Servos, All
  <1>3. ServoObeys(tables, p)[id] = tables[id]
    BY <1>1, <1>2, WriteIs
  <1> QED BY <1>3 DEF SameGoal

(* Two neighbours of a sequence.                                           *)
LEMMA TwoOf ==
  ASSUME NEW s \in Seq(Int), NEW m \in Nat, 1 <= m, m + 1 <= Len(s), NEW t, t = SubSeq(s, m, m + 1)
  PROVE  t \in Seq(Int) /\ Len(t) >= 2 /\ Len(t) <= 2 /\ t[1] = s[m] /\ t[2] = s[m + 1]
  <1> DEFINE n == m + 1
  <1>1. n \in Int /\ m <= n /\ n - m + 1 = 2
    OBVIOUS
  <1>2. \A i \in m .. n : s[i] \in Int
    OBVIOUS
  <1>3. t = SubSeq(s, m, n)
    OBVIOUS
  <1>4. n - m + 1 >= 2 /\ n - m + 1 <= 2 /\ m + 1 - 1 = m /\ m + 2 - 1 = n
    OBVIOUS
  <1> HIDE DEF n
  <1>5. t \in Seq(Int) /\ Len(t) = n - m + 1 /\ \A i \in 1 .. n - m + 1 : t[i] = s[m + i - 1]
    BY <1>1, <1>2, <1>3, SubSeqProperties
  <1>6. Len(t) >= 2 /\ Len(t) <= 2
    BY <1>4, <1>5
  <1>7. 1 \in 1 .. n - m + 1 /\ 2 \in 1 .. n - m + 1
    BY <1>1, <1>4
  <1>8. t[1] = s[m + 1 - 1] /\ t[2] = s[m + 2 - 1]
    BY ONLY <1>5, <1>7
  <1> QED BY <1>4, <1>5, <1>6, <1>8 DEF n

(* A synchronous write to a pair reaches both servos or none.             *)
NamesGoals(params, id0, id1, angle) ==
  /\ params \in Seq(Int) /\ Len(params) >= 8 /\ Len(params) <= 8
  /\ params[1] = 30 /\ params[2] = 2 /\ params[3] = id0 /\ params[6] = id1
  /\ params[4] = Bytes(angle)[1] /\ params[5] = Bytes(angle)[2]
  /\ params[7] = Bytes(1023 - angle)[1] /\ params[8] = Bytes(1023 - angle)[2]

LEMMA PairParams ==
  ASSUME NEW id0 \in Int, NEW id1 \in Int, NEW angle \in Int
  PROVE  NamesGoals(GoalsOf(id0, id1, angle), id0, id1, angle)
  <1> DEFINE one == 1
             two == 2
             three == 3
             params == GoalsOf(id0, id1, angle)
             lead == <<P_GOAL_POSITION_L, two, id0>>
             low == Bytes(angle)
             mid == <<id1>>
             high == Bytes(1023 - angle)
             five == Joined(lead, low)
             six == Joined(five, mid)
             all == Joined(six, high)
  <1>0. one \in Nat /\ two \in Nat /\ three \in Nat /\ three + two \in Nat /\ three + two + one \in Nat
    OBVIOUS
  <1>1. lead \in Seq(Int) /\ Len(lead) = three /\ lead[1] = 30 /\ lead[2] = 2 /\ lead[3] = id0
    BY DEF P_GOAL_POSITION_L
  <1>2. low \in Seq(Int) /\ Len(low) = two /\ high \in Seq(Int) /\ Len(high) = two
    <2>1. 1023 - angle \in Int
      OBVIOUS
    <2>2. low \in Seq(Int) /\ Len(low) >= 2 /\ Len(low) <= 2
      BY BytesAre
    <2>3. high \in Seq(Int) /\ Len(high) >= 2 /\ Len(high) <= 2
      BY <2>1, BytesAre
    <2> HIDE DEF low, high
    <2>4. Len(low) \in Nat /\ Len(high) \in Nat
      BY <2>2, <2>3
    <2>5. ASSUME NEW n \in Nat, n >= 2, n <= 2 PROVE n = two
      BY <2>5 DEF two
    <2>6. Len(low) = two /\ Len(high) = two
      BY ONLY <2>2, <2>3, <2>4, <2>5
    <2> QED BY <2>2, <2>3, <2>6
  <1>3. mid \in Seq(Int) /\ Len(mid) = one /\ mid[1] = id1
    OBVIOUS
  <1>4. params = all
    BY DEF Joined, GoalsOf, params
  <1> HIDE DEF one, two, three, lead, low, mid, high, five, six, all, params
  <1>5. five \in Seq(Int) /\ Len(five) = three + two /\ Joins(five, lead, low, three, two)
    BY <1>0, <1>1, <1>2, ConcatBy DEF five
  <1>6. six \in Seq(Int) /\ Len(six) = three + two + one /\ Joins(six, five, mid, three + two, one)
    BY <1>0, <1>3, <1>5, ConcatBy DEF six
  <1>7. /\ params \in Seq(Int) /\ Len(params) = three + two + one + two
        /\ Joins(params, six, high, three + two + one, two)
    BY <1>0, <1>2, <1>6, ConcatBy, <1>4 DEF all
  <1>8. five[1] = lead[1] /\ five[2] = lead[2] /\ five[3] = lead[3] /\ five[4] = low[1] /\ five[5] = low[2]
    BY ONLY <1>5 DEF one, two, three, Joins
  <1>9. /\ six[1] = five[1] /\ six[2] = five[2] /\ six[3] = five[3] /\ six[4] = five[4]
        /\ six[5] = five[5] /\ six[6] = mid[1]
    BY ONLY <1>6 DEF one, two, three, Joins
  <1>10. /\ params[1] = six[1] /\ params[2] = six[2] /\ params[3] = six[3] /\ params[4] = six[4]
         /\ params[5] = six[5] /\ params[6] = six[6] /\ params[7] = high[1] /\ params[8] = high[2]
    BY ONLY <1>7 DEF one, two, three, Joins
  <1>11. Len(params) >= 8 /\ Len(params) <= 8
    BY ONLY <1>7 DEF one, two, three
  <1>12. /\ params[1] = 30 /\ params[2] = 2 /\ params[3] = id0 /\ params[6] = id1
         /\ params[4] = low[1] /\ params[5] = low[2] /\ params[7] = high[1] /\ params[8] = high[2]
    BY <1>1, <1>3, <1>8, <1>9, <1>10
  <1> QED BY <1>7, <1>11, <1>12 DEF low, high, params, NamesGoals

LEMMA SyncIs ==
  ASSUME NEW id0 \in Servos, NEW id1 \in Servos, id0 # id1, NEW angle \in Int, NEW tables, NEW id \in Servos
  PROVE  LET after == ServoObeys(tables, PairGoal(id0, id1, angle))
         IN \/ after = tables
            \/ /\ id \notin {id0, id1} => after[id] = tables[id]
               /\ after[id0][30] + 256 * after[id0][31] = angle % 65536
               /\ after[id1][30] + 256 * after[id1][31] = (1023 - angle) % 65536
  <1> DEFINE packet == PairGoal(id0, id1, angle)
  <1>0. id0 \in Int /\ id1 \in Int /\ 1023 - angle \in Int /\ id0 # All /\ id1 # All
    BY DEF Servos, All
  <1>1. PICK params : params = GoalsOf(id0, id1, angle)
    OBVIOUS
  <1>2. /\ params \in Seq(Int) /\ Len(params) >= 8 /\ Len(params) <= 8
        /\ params[1] = 30 /\ params[2] = 2 /\ params[3] = id0 /\ params[6] = id1
        /\ params[4] = Bytes(angle)[1] /\ params[5] = Bytes(angle)[2]
        /\ params[7] = Bytes(1023 - angle)[1] /\ params[8] = Bytes(1023 - angle)[2]
    <2>1. NamesGoals(params, id0, id1, angle)
      BY <1>0, <1>1, PairParams
    <2> QED BY <2>1 DEF NamesGoals
  <1>3. packet[5] = INST_SYNC_WRITE /\ Parameters(packet) = params
    <2>1. params \in Seq(Int) /\ All \in Int /\ INST_SYNC_WRITE \in Int
      BY <1>2 DEF All, INST_SYNC_WRITE
    <2>2. packet = CreateDynamixelPacket(All, INST_SYNC_WRITE, params)
      BY <1>1 DEF PairGoal
    <2> HIDE DEF packet
    <2> QED BY <2>1, <2>2, PacketIs
  <1> HIDE DEF packet
  <1>4. packet[5] # INST_WRITE
    BY <1>3 DEF INST_WRITE, INST_SYNC_WRITE
  <1>5. ServoObeys(tables, packet) \in {tables, SyncWritten(tables, params)}
    BY <1>3, <1>4 DEF ServoObeys
  <1>6. 1 .. (Len(params) - 2) \div (params[2] + 1) = {1, 2}
    <2>1. PICK n \in Nat : n = Len(params)
      BY <1>2
    <2>2. n >= 8 /\ n <= 8 /\ params[2] + 1 = 3
      BY <1>2, <2>1
    <2>3. (n - 2) \div (params[2] + 1) = 2
      BY ONLY <2>2
    <2>4. (Len(params) - 2) \div (params[2] + 1) = 2
      BY ONLY <2>1, <2>3
    <2> QED BY ONLY <2>4
  <1>7. params[3 + (1 - 1) * (params[2] + 1)] = id0 /\ params[3 + (2 - 1) * (params[2] + 1)] = id1
    <2>1. 3 + (1 - 1) * (2 + 1) = 3 /\ 3 + (2 - 1) * (2 + 1) = 6
      OBVIOUS
    <2> QED BY <1>2, <2>1
  <1>8. \A s \in Servos : /\ 1 \in SharesOf(s, params) <=> s = id0
                          /\ 2 \in SharesOf(s, params) <=> s = id1
                          /\ SharesOf(s, params) \subseteq {1, 2}
    BY <1>0, <1>6, <1>7 DEF SharesOf
  <1>9. /\ SharesOf(id0, params) = {1} /\ SharesOf(id1, params) = {2}
        /\ id \notin {id0, id1} => SharesOf(id, params) = {}
    BY <1>8
  <1>10. Latest({1}) = 1 /\ Latest({2}) = 2
    BY DEF Latest
  <1>11. /\ Share(1, params) = SubSeq(params, 4, 4 + 1)
         /\ Share(2, params) = SubSeq(params, 7, 7 + 1)
    <2>1. /\ 4 + (1 - 1) * (2 + 1) = 4 /\ 2 + 1 * (2 + 1) = 4 + 1
          /\ 4 + (2 - 1) * (2 + 1) = 7 /\ 2 + 2 * (2 + 1) = 7 + 1
      OBVIOUS
    <2> QED BY <1>2, <2>1 DEF Share
  <1>12. ASSUME NEW table, NEW k \in {1, 2}, NEW m \in Nat, m >= 1, m + 1 <= 8,
                Share(k, params) = SubSeq(params, m, m + 1)
         PROVE  /\ Store(table, 30, Share(k, params))[30] = params[m]
                /\ Store(table, 30, Share(k, params))[31] = params[m + 1]
    <2>1. m + 1 <= Len(params)
      BY <1>2, <1>12
    <2>2. /\ Share(k, params) \in Seq(Int) /\ Len(Share(k, params)) >= 2
          /\ Len(Share(k, params)) <= 2
          /\ Share(k, params)[1] = params[m] /\ Share(k, params)[2] = params[m + 1]
      BY <1>2, <1>12, <2>1, TwoOf
    <2> QED BY ONLY <2>2 DEF Store, Table
  <1>13. /\ SyncWritten(tables, params)[id0] = Store(tables[id0], 30, Share(1, params))
         /\ SyncWritten(tables, params)[id1] = Store(tables[id1], 30, Share(2, params))
         /\ id \notin {id0, id1} => SyncWritten(tables, params)[id] = tables[id]
    <2>1. params[1] = 30
      BY <1>2
    <2> QED BY ONLY <1>9, <1>10, <2>1 DEF SyncWritten
  <1>14. /\ SyncWritten(tables, params)[id0][30] = Bytes(angle)[1]
         /\ SyncWritten(tables, params)[id0][31] = Bytes(angle)[2]
    <2>1. /\ Store(tables[id0], 30, Share(1, params))[30] = params[4]
          /\ Store(tables[id0], 30, Share(1, params))[31] = params[4 + 1]
      <3>1. 1 \in {1, 2} /\ 4 \in Nat /\ 4 >= 1 /\ 4 + 1 <= 8
        OBVIOUS
      <3> QED BY <1>11, <1>12, <3>1, Zenon
    <2>2. params[4] = Bytes(angle)[1] /\ params[4 + 1] = Bytes(angle)[2]
      BY <1>2
    <2> QED BY ONLY <1>13, <2>1, <2>2
  <1>15. /\ SyncWritten(tables, params)[id1][30] = Bytes(1023 - angle)[1]
         /\ SyncWritten(tables, params)[id1][31] = Bytes(1023 - angle)[2]
    <2>1. /\ Store(tables[id1], 30, Share(2, params))[30] = params[7]
          /\ Store(tables[id1], 30, Share(2, params))[31] = params[7 + 1]
      <3>1. 2 \in {1, 2} /\ 7 \in Nat /\ 7 >= 1 /\ 7 + 1 <= 8
        OBVIOUS
      <3> QED BY <1>11, <1>12, <3>1, Zenon
    <2>2. params[7] = Bytes(1023 - angle)[1] /\ params[7 + 1] = Bytes(1023 - angle)[2]
      BY <1>2
    <2> QED BY ONLY <1>13, <2>1, <2>2
  <1>16. /\ Bytes(angle)[1] + 256 * Bytes(angle)[2] = angle % 65536
         /\ Bytes(1023 - angle)[1] + 256 * Bytes(1023 - angle)[2] = (1023 - angle) % 65536
    <2>1. ASSUME NEW a \in Int PROVE Reads(Bytes(a), a)
      BY BytesAre, Zenon
    <2>2. Reads(Bytes(angle), angle) /\ Reads(Bytes(1023 - angle), 1023 - angle)
      BY <1>0, <2>1
    <2> QED BY ONLY <2>2 DEF Reads
  <1> QED BY <1>5, <1>13, <1>14, <1>15, <1>16 DEF packet

LEMMA PairGoalKeeps ==
  ASSUME NEW p \in PairGoals, PairsMirrored, servo' = ServoObeys(servo, p)
  PROVE  PairsMirrored'
  <1> DEFINE Goal1(t, id) == t[id][30] + 256 * t[id][31]
             Fine(t, a, b) == {Goal1(t, a), Goal1(t, b)} = {0} \/ Goal1(t, a) + Goal1(t, b) \in {1023, 1023 + 65536}
  <1>1. PairsMirrored <=> Fine(servo, 2, 3) /\ Fine(servo, 4, 5)
    BY DEF PairsMirrored, Goal, Word, P_GOAL_POSITION_L
  <1>2. PairsMirrored' <=> Fine(servo', 2, 3) /\ Fine(servo', 4, 5)
    BY DEF PairsMirrored, Goal, Word, P_GOAL_POSITION_L
  <1>3. {2, 3, 4, 5} \subseteq Servos
    BY DEF Servos
  <1>4. CASE \E angle \in Int : p = PairGoal(2, 3, angle)
    <2>1. PICK angle \in Int : p = PairGoal(2, 3, angle)
      BY <1>4
    <2>2. CASE servo' = servo
      BY <1>1, <1>2, <2>2
    <2>3. CASE servo' # servo
      <3>1. /\ servo'[4] = servo[4] /\ servo'[5] = servo[5]
            /\ Goal1(servo', 2) = angle % 65536 /\ Goal1(servo', 3) = (1023 - angle) % 65536
        BY <1>3, <2>1, <2>3, SyncIs
      <3>2. Fine(servo', 2, 3)
        <4>1. Goal1(servo', 2) + Goal1(servo', 3) = MirrorSum(angle)
          BY ONLY <3>1 DEF MirrorSum
        <4>2. Goal1(servo', 2) + Goal1(servo', 3) \in {1023, 1023 + 65536}
          BY <4>1, Mirror
        <4> QED BY ONLY <4>2
      <3>3. Fine(servo', 4, 5)
        BY <1>1, <3>1
      <3> QED BY <1>2, <3>2, <3>3
    <2> QED BY <2>2, <2>3
  <1>5. CASE \E angle \in Int : p = PairGoal(4, 5, angle)
    <2>1. PICK angle \in Int : p = PairGoal(4, 5, angle)
      BY <1>5
    <2>2. CASE servo' = servo
      BY <1>1, <1>2, <2>2
    <2>3. CASE servo' # servo
      <3>1. /\ servo'[2] = servo[2] /\ servo'[3] = servo[3]
            /\ Goal1(servo', 4) = angle % 65536 /\ Goal1(servo', 5) = (1023 - angle) % 65536
        BY <1>3, <2>1, <2>3, SyncIs
      <3>2. Fine(servo', 4, 5)
        <4>1. Goal1(servo', 4) + Goal1(servo', 5) = MirrorSum(angle)
          BY ONLY <3>1 DEF MirrorSum
        <4>2. Goal1(servo', 4) + Goal1(servo', 5) \in {1023, 1023 + 65536}
          BY <4>1, Mirror
        <4> QED BY ONLY <4>2
      <3>3. Fine(servo', 2, 3)
        BY <1>1, <3>1
      <3> QED BY <1>2, <3>2, <3>3
    <2> QED BY <2>2, <2>3
  <1> QED BY <1>4, <1>5 DEF PairGoals

LEMMA PacketKeeps ==
  ASSUME NEW p \in Packets, PairsMirrored, servo' = ServoObeys(servo, p)
  PROVE  PairsMirrored'
  <1>1. CASE p \in PairGoals
    BY <1>1, PairGoalKeeps
  <1>2. CASE p \notin PairGoals
    <2>1. \A id \in 2 .. 5 : SameGoal(servo', servo, id)
      BY <1>2, ClearWriteKeeps, SingleGoalKeeps DEF Packets
    <2>2. \A id \in {2, 3, 4, 5} : Goal(id)' = Goal(id)
      BY <2>1 DEF SameGoal, Goal, Word, P_GOAL_POSITION_L
    <2> QED BY <2>2 DEF PairsMirrored
  <1> QED BY <1>1, <1>2
-----------------------------------------------------------------------------
(* Movements and the packets of a turn.                                    *)

LEMMA MoveIs ==
  ASSUME NEW axle \in Axles \cup {"grip", "torque"}, NEW degrees \in Int
  PROVE  <<axle, degrees>> \in Moves
  BY DEF Moves

LEMMA MovesAre ==
  /\ ReturnToDefaultPosition \in Seq(Moves) /\ DropObject \in Seq(Moves)
  /\ StartLeftPickup \in Seq(Moves) /\ StartRightPickup \in Seq(Moves)
  /\ GrabObjectLeft \in Seq(Moves) /\ GrabObjectRight \in Seq(Moves)
  /\ EndPickupSequence \in Seq(Moves) /\ RobotArm_DropOfItems \in Seq(Moves)
  /\ <<ClawOpen>> \in Seq(Moves) /\ <<ClawClose>> \in Seq(Moves)
  <1>1. ClawOpen \in Moves /\ ClawClose \in Moves
    BY DEF ClawOpen, ClawClose, Moves
  <1>2. ReturnToDefaultPosition \in Seq(Moves)
    <2>1. /\ <<"base", 60>> \in Moves /\ <<"top", 60>> \in Moves /\ <<"arm", 150>> \in Moves
          /\ <<"middle", 60>> \in Moves /\ <<"claw", 150>> \in Moves
      BY DEF Moves, Axles
    <2> QED BY <1>1, <2>1 DEF ReturnToDefaultPosition
  <1>3. DropObject \in Seq(Moves)
    <2>1. /\ <<"base", 60>> \in Moves /\ <<"top", 150>> \in Moves /\ <<"arm", 130>> \in Moves
          /\ <<"middle", 60>> \in Moves /\ <<"claw", 150>> \in Moves /\ <<"base", 85>> \in Moves
      BY DEF Moves, Axles
    <2> QED BY <1>1, <2>1 DEF DropObject
  <1>4. ASSUME NEW arm \in Int PROVE StartPickup(arm) \in Seq(Moves)
    <2>1. <<"arm", arm>> \in Moves
      BY <1>4, MoveIs DEF Axles
    <2>2. /\ <<"claw", 60>> \in Moves /\ <<"base", 150>> \in Moves /\ <<"middle", 130>> \in Moves
          /\ <<"top", 185>> \in Moves /\ <<"base", 185>> \in Moves
      BY DEF Moves, Axles
    <2> QED BY <2>1, <2>2 DEF StartPickup
  <1>5. StartLeftPickup \in Seq(Moves) /\ StartRightPickup \in Seq(Moves)
    BY <1>4 DEF StartLeftPickup, StartRightPickup
  <1>6. <<<<"arm", 60>>, ClawClose>> \in Seq(Moves) /\ <<<<"arm", 240>>, ClawClose>> \in Seq(Moves)
    <2>1. <<"arm", 60>> \in Moves /\ <<"arm", 240>> \in Moves
      BY DEF Moves, Axles
    <2> QED BY <1>1, <2>1
  <1>7. GrabObjectLeft \in Seq(Moves) /\ GrabObjectRight \in Seq(Moves)
    BY <1>5, <1>6, ConcatProperties DEF GrabObjectLeft, GrabObjectRight
  <1>8. EndPickupSequence \in Seq(Moves)
    BY <1>2, <1>3, ConcatProperties DEF EndPickupSequence
  <1>9. RobotArm_DropOfItems \in Seq(Moves)
    <2>1. /\ <<"torque", 819>> \in Moves /\ <<"arm", 90>> \in Moves /\ <<"base", 145>> \in Moves
          /\ <<"middle", 120>> \in Moves /\ <<"top", 215>> \in Moves /\ <<"claw", 205>> \in Moves
          /\ <<"arm", 110>> \in Moves /\ <<"base", 143>> \in Moves /\ <<"top", 218>> \in Moves
          /\ <<"base", 141>> \in Moves /\ <<"top", 220>> \in Moves /\ <<"arm", 109>> \in Moves
          /\ <<"base", 139>> \in Moves /\ <<"top", 222>> \in Moves /\ <<"arm", 60>> \in Moves
          /\ <<"middle", 150>> \in Moves /\ <<"base", 150>> \in Moves /\ <<"base", 200>> \in Moves
          /\ <<"top", 180>> \in Moves
      BY DEF Moves, Axles
    <2> QED BY <1>1, <1>2, <2>1, ConcatProperties DEF RobotArm_DropOfItems
  <1> QED BY <1>1, <1>2, <1>3, <1>5, <1>7, <1>8, <1>9

LEMMA MovementIs ==
  ASSUME NEW name, NEW diff \in Int, rot \in [Axles -> Int]
  PROVE  Movement(name, diff) \in Seq(Moves)
  <1> DEFINE d == IF diff >= 128 THEN diff - 256 ELSE diff
  <1>1. /\ rot.arm + d \in Int /\ rot.base + d \in Int /\ rot.middle + d \in Int
        /\ rot.top + d \in Int /\ rot.claw + d \in Int
    BY DEF Axles
  <1>2. /\ <<<<"arm", rot.arm + d>>>> \in Seq(Moves) /\ <<<<"base", rot.base + d>>>> \in Seq(Moves)
        /\ <<<<"middle", rot.middle + d>>>> \in Seq(Moves) /\ <<<<"top", rot.top + d>>>> \in Seq(Moves)
        /\ <<<<"claw", rot.claw + d>>>> \in Seq(Moves)
    BY <1>1, MoveIs DEF Axles
  <1>3. GrabObjectLeft \o EndPickupSequence \in Seq(Moves) /\ GrabObjectRight \o EndPickupSequence \in Seq(Moves)
    BY MovesAre, ConcatProperties
  <1>4. <<>> \in Seq(Moves)
    OBVIOUS
  <1> HIDE DEF d
  <1> QED BY <1>2, <1>3, <1>4, MovesAre, Zenon DEF Movement, d

LEMMA WriteClear ==
  ASSUME NEW id \in Servos \cup {All}, NEW address \in Clear, NEW short \in Int
  PROVE  Write(id, address, short) \in Packets
  <1> DEFINE params == <<address>> \o Bytes(short)
  <1>1. Bytes(short) \in Seq(Int) /\ Len(Bytes(short)) >= 2 /\ Len(Bytes(short)) <= 2 /\ address \in Int
    BY BytesAre DEF Clear
  <1>2. params \in Seq(Int) /\ Len(params) = 1 + Len(Bytes(short)) /\ params[1] = address
    BY <1>1
  <1> HIDE DEF params
  <1>3. params \in ClearParams
    BY <1>1, <1>2 DEF ClearParams
  <1> QED BY <1>3 DEF params, Write, Packets, ClearWrites

LEMMA WriteGoal ==
  ASSUME NEW id \in {1, 6, 7, 8}, NEW address \in Int, NEW short \in Int
  PROVE  Write(id, address, short) \in Packets
  <1> DEFINE params == <<address>> \o Bytes(short)
  <1>1. Bytes(short) \in Seq(Int)
    BY BytesAre
  <1>2. params \in Seq(Int)
    BY <1>1
  <1> HIDE DEF params
  <1>3. CreateDynamixelPacket(id, INST_WRITE, params) \in SingleGoals
    BY <1>2 DEF SingleGoals
  <1> QED BY <1>3 DEF params, Write, Packets

LEMMA AngleIs ==
  ASSUME NEW degrees \in Int
  PROVE  DegreesToAngle(degrees) \in Int
  BY DEF DegreesToAngle

LEMMA SetupIs == InitRobotArmServos \in Seq(Packets)
  <1> DEFINE Lead == <<CreateDynamixelPacket(All, INST_WRITE, <<P_RETURN_LEVEL, 1>>),
                       CreateDynamixelPacket(All, INST_WRITE, <<P_RETURN_DELAY_TIME, 2>>),
                       Write(All, P_TORQUE_LIMIT_L, 1023), Write(8, P_TORQUE_LIMIT_L, 563),
                       Write(All, P_GOAL_SPEED_L, 136)>>
             Limit(k) == LET id == (k + 1) \div 2
                         IN IF k % 2 = 1 THEN Write(id, P_CW_ANGLE_LIMIT_L, DegreesToAngle(Limits[id][1]))
                            ELSE Write(id, P_CCW_ANGLE_LIMIT_L, DegreesToAngle(Limits[id][2]))
             Rest == [k \in 1 .. 16 |-> Limit(k)]
  <1>1. /\ CreateDynamixelPacket(All, INST_WRITE, <<P_RETURN_LEVEL, 1>>) \in Packets
        /\ CreateDynamixelPacket(All, INST_WRITE, <<P_RETURN_DELAY_TIME, 2>>) \in Packets
    <2>1. <<P_RETURN_LEVEL, 1>> \in ClearParams /\ <<P_RETURN_DELAY_TIME, 2>> \in ClearParams
      BY DEF ClearParams, Clear, P_RETURN_LEVEL, P_RETURN_DELAY_TIME
    <2> QED BY <2>1 DEF Packets, ClearWrites
  <1>2. /\ Write(All, P_TORQUE_LIMIT_L, 1023) \in Packets /\ Write(8, P_TORQUE_LIMIT_L, 563) \in Packets
        /\ Write(All, P_GOAL_SPEED_L, 136) \in Packets
    BY WriteClear DEF Clear, Servos, P_TORQUE_LIMIT_L, P_GOAL_SPEED_L
  <1>3. Lead \in Seq(Packets)
    BY <1>1, <1>2
  <1>4. ASSUME NEW k \in 1 .. 16 PROVE Limit(k) \in Packets
    <2>1. PICK id \in 1 .. 8 : id = (k + 1) \div 2
      BY <1>4
    <2>2. Limits[id][1] \in Int /\ Limits[id][2] \in Int
      BY DEF Limits
    <2>3. DegreesToAngle(Limits[id][1]) \in Int /\ DegreesToAngle(Limits[id][2]) \in Int
      BY <2>2, AngleIs
    <2>4. /\ Write(id, P_CW_ANGLE_LIMIT_L, DegreesToAngle(Limits[id][1])) \in Packets
          /\ Write(id, P_CCW_ANGLE_LIMIT_L, DegreesToAngle(Limits[id][2])) \in Packets
      BY <2>3, WriteClear DEF Clear, Servos, P_CW_ANGLE_LIMIT_L, P_CCW_ANGLE_LIMIT_L
    <2> QED BY <2>1, <2>4
  <1> HIDE DEF Limit
  <1>5. Rest \in Seq(Packets)
    BY <1>4
  <1>6. InitRobotArmServos = Lead \o Rest
    BY DEF InitRobotArmServos, Limit
  <1> QED BY <1>3, <1>5, <1>6, ConcatProperties

LEMMA TurnIs ==
  ASSUME NEW move \in Moves
  PROVE  Turn(move[1], move[2]) \in Seq(Packets)
  <1>1. ASSUME NEW id \in {1, 6, 7, 8}, NEW angle \in Int, NEW speed \in Int
        PROVE  TurnSingle(id, angle, speed) \in Seq(Packets)
    BY <1>1, WriteGoal DEF TurnSingle, P_GOAL_SPEED_L, P_GOAL_POSITION_L
  <1>2. ASSUME NEW pair \in {<<2, 3>>, <<4, 5>>}, NEW angle \in Int, NEW speed \in Int
        PROVE  TurnPairMirrored(pair[1], pair[2], angle, speed) \in Seq(Packets)
    <2>1. PairGoal(pair[1], pair[2], angle) \in Packets
      BY <1>2 DEF Packets, PairGoals
    <2>2. Write(pair[1], P_GOAL_SPEED_L, speed) \in Packets /\ Write(pair[2], P_GOAL_SPEED_L, speed) \in Packets
      BY <1>2, WriteClear DEF Clear, Servos, P_GOAL_SPEED_L
    <2> QED BY <2>1, <2>2 DEF TurnPairMirrored, PairGoal, GoalsOf
  <1>3. GLOBALSERVOSPEED \in Int /\ CLAW_SPEED \in Int
    BY DEF GLOBALSERVOSPEED, CLAW_SPEED
  <1>4. CASE move \in (Axles \cup {"grip"}) \X Int
    <2>1. move[1] \in Axles \cup {"grip"} /\ DegreesToAngle(move[2]) \in Int
      BY <1>4, AngleIs
    <2>2. \A speed \in Int, angle \in Int :
             /\ \A id \in {1, 6, 7, 8} : TurnSingle(id, angle, speed) \in Seq(Packets)
             /\ TurnPairMirrored(2, 3, angle, speed) \in Seq(Packets)
             /\ TurnPairMirrored(4, 5, angle, speed) \in Seq(Packets)
      BY <1>1, <1>2
    <2> QED BY <1>3, <2>1, <2>2 DEF Turn, Axles
  <1>5. CASE move \in {"torque"} \X Int
    <2>1. Write(8, P_TORQUE_LIMIT_L, move[2]) \in Packets
      BY <1>5, WriteClear DEF Clear, Servos, P_TORQUE_LIMIT_L
    <2>2. move[1] = "torque" /\ <<Write(8, P_TORQUE_LIMIT_L, move[2])>> \in Seq(Packets)
      BY <1>5, <2>1
    <2> QED BY <2>2 DEF Turn
  <1>6. CASE move = <<"setup", InitRobotArmServos>>
    BY <1>6, SetupIs DEF Turn
  <1> QED BY <1>4, <1>5, <1>6 DEF Moves

-----------------------------------------------------------------------------
(* The steps.                                                              *)

LEMMA ServosSame ==
  ASSUME PairsMirrored, servo' = servo
  PROVE  PairsMirrored'
  BY DEF PairsMirrored, Goal, Word

LEMMA WheelsSame ==
  ASSUME WheelsInv, drv' = drv, wheels' = wheels, last'.wheel = last.wheel, cpu'.pc = "top" => cpu.pc = "top"
  PROVE  WheelsInv'
  BY DEF WheelsInv, WheelsSay

LEMMA RcFirst ==
  ASSUME RcInit
  PROVE  RcInv
  <1>1. todo \in Seq(Moves)
    <2>1. <<"setup", InitRobotArmServos>> \in Moves
      BY DEF Moves
    <2>2. <<<<"setup", InitRobotArmServos>>>> \in Seq(Moves)
      BY <2>1
    <2> QED BY <2>2, MovesAre, ConcatProperties DEF RcInit
  <1>2. rx \in RxType /\ Len(rx.buffer) >= 6
    BY DEF RcInit, RcReset, RxType
  <1>3. bus \in [message : Messages \cup {<<>>}, sent : Nat] /\ bus = Idle
    BY DEF RcInit, RcReset, Idle
  <1>4. cpu \in CpuType /\ Len(cpu.float) < 4
    BY DEF RcInit, RcReset, CpuType, CpuSteps
  <1>5. packets \in Seq(Packets) /\ rot \in [Axles -> Int] /\ drv \in DrvType
    BY DEF RcInit, RcReset, DrvType
  <1>6. wheels \in WheelsType /\ last \in LastType
    BY DEF RcInit, RcReset, WheelMotors_Init, WheelMotors, WheelsType, LastType, WheelCommands
  <1>7. CommandReads
    BY DEF RcInit, RcReset, CommandReads
  <1>8. WheelsInv
    BY DEF RcInit, RcReset, WheelsInv, WheelsSay, WheelMotors_Init, WheelMotors
  <1>9. PairsMirrored
    <2>1. \A id \in {2, 3, 4, 5} : servo[id][30] = 0 /\ servo[id][31] = 0
      BY DEF RcInit, RcReset, Servos, Table
    <2> QED BY ONLY <2>1 DEF PairsMirrored, Goal, Word, P_GOAL_POSITION_L
  <1> QED BY <1>1, <1>2, <1>3, <1>4, <1>5, <1>6, <1>7, <1>8, <1>9 DEF RcInv, RcTypeOK

LEMMA SlaveAddressedKeeps ==
  ASSUME RcInv, SlaveAddressed
  PROVE  RcInv'
  <1> USE DEF RcInv, SlaveAddressed
  <1>1. PICK m \in Messages : bus' = [message |-> m, sent |-> 0]
    OBVIOUS
  <1>2. m # <<>>
    BY RcAssumption
  <1>3. RcTypeOK'
    <2>1. rx' = [buffer |-> rx.buffer, index |-> 0, done |-> rx.done] /\ rx.buffer \in Seq(Int)
          /\ Len(rx.buffer) >= 6 /\ rx.done \in BOOLEAN
      BY DEF RcTypeOK, RxType
    <2>2. rx' \in RxType /\ Len(rx'.buffer) >= 6
      BY ONLY <2>1 DEF RxType
    <2>3. last' \in LastType
      <3>1. last' = [sent |-> last.sent + 1, command |-> last.command, argument |-> last.argument,
                     wheel |-> last.wheel]
        BY DEF RcTypeOK, LastType
      <3>2. last \in LastType
        BY DEF RcTypeOK
      <3> QED BY ONLY <3>1, <3>2 DEF LastType
    <2>4. bus' \in [message : Messages \cup {<<>>}, sent : Nat] /\ bus'.message # <<>>
      BY <1>1, <1>2
    <2> QED BY <2>2, <2>3, <2>4 DEF RcTypeOK
  <1>4. CommandReads'
    BY <1>1, <1>2 DEF CommandReads, Idle
  <1>5. WheelsInv'
    BY WheelsSame DEF RcTypeOK, LastType
  <1> QED BY <1>3, <1>4, <1>5, ServosSame

LEMMA DataReceivedKeeps ==
  ASSUME RcInv, DataReceived
  PROVE  RcInv'
  <1> USE DEF RcInv, DataReceived
  <1>1. bus.message \in Seq(Int) /\ bus.message[bus.sent + 1] \in Int
    BY RcAssumption DEF RcTypeOK
  <1>2. rx' \in RxType /\ Len(rx'.buffer) >= 6
    <2>1. CASE rx.index < Len(rx.buffer)
      <3> DEFINE byte == bus.message[bus.sent + 1]
                 at == rx.index + 1
      <3>0. rx.buffer \in Seq(Int) /\ Len(rx.buffer) >= 6 /\ rx.index \in Nat /\ rx.done \in BOOLEAN
        BY DEF RcTypeOK, RxType
      <3>1. at \in 1 .. Len(rx.buffer) /\ byte \in Int
        BY ONLY <1>1, <2>1, <3>0
      <3>2. rx' = [rx EXCEPT !.buffer[at] = byte, !.index = @ + 1]
        BY <2>1
      <3> HIDE DEF byte, at
      <3>3. [rx.buffer EXCEPT ![at] = byte] \in Seq(Int)
            /\ Len([rx.buffer EXCEPT ![at] = byte]) = Len(rx.buffer)
        BY ONLY <3>0, <3>1, ExceptSeq
      <3>4. rx' = [buffer |-> [rx.buffer EXCEPT ![at] = byte], index |-> rx.index + 1, done |-> rx.done]
        BY <3>2 DEF RcTypeOK, RxType
      <3> QED BY ONLY <3>0, <3>3, <3>4 DEF RxType
    <2>2. CASE ~(rx.index < Len(rx.buffer))
      BY <2>2 DEF RcTypeOK
    <2> QED BY <2>1, <2>2
  <1>3. bus' = [message |-> bus.message, sent |-> bus.sent + 1]
    BY DEF RcTypeOK
  <1>4. RcTypeOK'
    <2>1. bus' \in [message : Messages \cup {<<>>}, sent : Nat] /\ bus'.message # <<>>
      <3>1. bus.message \in Messages /\ bus.sent \in Nat /\ bus.message # <<>>
        BY DEF RcTypeOK
      <3> QED BY ONLY <1>3, <3>1
    <2> QED BY <1>2, <2>1 DEF RcTypeOK
  <1>5. CommandReads'
    BY <1>3 DEF CommandReads, Idle
  <1>6. WheelsInv'
    BY WheelsSame
  <1> QED BY <1>4, <1>5, <1>6, ServosSame

LEMMA TransferEndedKeeps ==
  ASSUME RcInv, TransferEnded
  PROVE  RcInv'
  <1> USE DEF RcInv, TransferEnded
  <1>1. rx' = [buffer |-> rx.buffer, index |-> rx.index, done |-> TRUE]
    BY DEF RcTypeOK, RxType
  <1>2. RcTypeOK'
    BY <1>1 DEF RcTypeOK, RxType, Idle
  <1>3. CommandReads'
    BY <1>1 DEF CommandReads
  <1>4. WheelsInv'
    BY WheelsSame
  <1> QED BY <1>2, <1>3, <1>4, ServosSame

LEMMA TakeCommandKeeps ==
  ASSUME RcInv, TakeCommand
  PROVE  RcInv'
  <1> USE DEF RcInv, TakeCommand
  <1>1. rx' = [buffer |-> rx.buffer, index |-> rx.index, done |-> FALSE]
    BY DEF RcTypeOK, RxType
  <1>2. cpu' = [pc |-> "command", command |-> cpu.command, diff |-> cpu.diff, float |-> cpu.float]
    BY DEF RcTypeOK, CpuType
  <1>3. RcTypeOK'
    BY <1>1, <1>2 DEF RcTypeOK, RxType, CpuType, CpuSteps
  <1>4. CommandReads'
    BY <1>2 DEF CommandReads
  <1>5. WheelsInv'
    BY <1>2, WheelsSame
  <1> QED BY <1>3, <1>4, <1>5, ServosSame

LEMMA ReadCommandKeeps ==
  ASSUME RcInv, ReadCommand
  PROVE  RcInv'
  <1> USE DEF RcInv, ReadCommand
  <1>1. rx.buffer[1] \in Int /\ cpu.diff \in Int /\ cpu.float \in Seq(Int) /\ Len(cpu.float) < 4
    BY DEF RcTypeOK, RxType, CpuType
  <1>2. cpu' = [pc |-> "diff", command |-> rx.buffer[1], diff |-> cpu.diff, float |-> cpu.float]
    BY DEF RcTypeOK, CpuType
  <1>3. RcTypeOK'
    <2>1. cpu' \in CpuType /\ Len(cpu'.float) < 4
      BY ONLY <1>1, <1>2 DEF CpuType, CpuSteps
    <2> QED BY <2>1 DEF RcTypeOK
  <1>4. CommandReads'
    BY <1>2 DEF CommandReads
  <1>5. WheelsInv'
    BY <1>2, WheelsSame
  <1> QED BY <1>3, <1>4, <1>5, ServosSame

LEMMA ReadDiffKeeps ==
  ASSUME RcInv, ReadDiff
  PROVE  RcInv'
  <1> USE DEF RcInv, ReadDiff
  <1>1. rx.buffer[2] \in Int /\ cpu.command \in Int
    BY DEF RcTypeOK, RxType, CpuType
  <1>2. cpu' = [pc |-> "execute", command |-> cpu.command, diff |-> rx.buffer[2], float |-> <<>>]
    BY DEF RcTypeOK, CpuType
  <1>3. RcTypeOK'
    <2>1. cpu' \in CpuType /\ Len(cpu'.float) < 4
      BY ONLY <1>1, <1>2 DEF CpuType, CpuSteps
    <2> QED BY <2>1 DEF RcTypeOK
  <1>4. CommandReads'
    BY <1>2 DEF CommandReads
  <1>5. WheelsInv'
    BY <1>2, WheelsSame
  <1> QED BY <1>3, <1>4, <1>5, ServosSame

LEMMA ExecuteKeeps ==
  ASSUME RcInv, Execute
  PROVE  RcInv'
  <1> USE DEF RcInv
  <1> DEFINE name == Name(cpu.command)
  <1>1. /\ cpu.pc = "execute" /\ name # "UPDATE_STEER_SIGNAL" /\ todo' = Movement(name, cpu.diff)
        /\ drv' = NewDrive(name) /\ wheels' = NewWheels(name)
        /\ cpu' = [cpu EXCEPT !.pc = "run"] /\ UNCHANGED <<rx, bus, packets, rot, servo>>
    BY DEF Execute
  <1>2. last' = [sent |-> last.sent, command |-> cpu.command,
                 argument |-> IF name \in {"SET_DRIVE_SPEED", "SET_TURN_SPEED"} THEN rx.buffer[2] ELSE cpu.diff,
                 wheel |-> IF name \in WheelCommands THEN name ELSE last.wheel]
    BY DEF Execute, RcTypeOK, LastType
  <1>3. cpu' = [pc |-> "run", command |-> cpu.command, diff |-> cpu.diff, float |-> cpu.float]
    BY <1>1 DEF RcTypeOK, CpuType
  <1>4. /\ rx.buffer[2] \in Int /\ cpu.diff \in Int /\ cpu.command \in Int /\ cpu.float \in Seq(Int)
        /\ Len(cpu.float) < 4 /\ rot \in [Axles -> Int] /\ drv \in DrvType /\ wheels \in WheelsType
        /\ last.sent \in Nat /\ last.wheel \in WheelCommands
    BY DEF RcTypeOK, RxType, CpuType, LastType
  <1> HIDE DEF name
  <1>5. NewDrive(name) \in DrvType /\ NewWheels(name) \in WheelsType
    <2>1. NewDrive(name) \in DrvType
      BY ONLY <1>4 DEF NewDrive, DrvType
    <2>2. NewWheels(name) \in WheelsType
      <3>1. drv.turn \in Int /\ drv.drive \in Int
        BY ONLY <1>4 DEF DrvType
      <3>2. \A a, b, d6, d7 \in Int : WheelMotors(a, b, d6, d7) \in WheelsType
        BY DEF WheelMotors, WheelsType
      <3>3. [wheels EXCEPT !.a = 0, !.b = 0] \in WheelsType
        <4>1. [wheels EXCEPT !.a = 0] \in WheelsType
          BY ONLY <1>4 DEF WheelsType
        <4>2. [[wheels EXCEPT !.a = 0] EXCEPT !.b = 0] \in WheelsType
          BY ONLY <4>1 DEF WheelsType
        <4> QED BY ONLY <4>2
      <3>4. /\ WheelMotors(drv.turn, drv.turn, 0, 0) \in WheelsType
            /\ WheelMotors(drv.turn, drv.turn, 1, 1) \in WheelsType
            /\ WheelMotors(drv.drive, drv.drive, 0, 1) \in WheelsType
        BY ONLY <3>1, <3>2
      <3> QED BY <1>4, <3>3, <3>4, Zenon DEF NewWheels
    <2> QED BY <2>1, <2>2
  <1>6. RcTypeOK'
    <2>1. todo' \in Seq(Moves)
      BY <1>1, <1>4, MovementIs
    <2>2. cpu' \in CpuType /\ Len(cpu'.float) < 4
      BY ONLY <1>3, <1>4 DEF CpuType, CpuSteps
    <2>3. last' \in LastType
      BY ONLY <1>2, <1>4 DEF LastType
    <2>4. drv' \in DrvType /\ wheels' \in WheelsType
      BY <1>1, <1>5
    <2> QED BY <1>1, <2>1, <2>2, <2>3, <2>4 DEF RcTypeOK
  <1>7. CommandReads'
    BY <1>1, <1>2, <1>3 DEF CommandReads
  <1>8. WheelsInv'
    <2>1. cpu'.pc # "top"
      BY <1>3
    <2>2. drv'.forward <=> last'.wheel = "DRIVE_FORWARD"
      BY <1>1, <1>2, <1>4 DEF NewDrive, WheelCommands, WheelsInv, DrvType
    <2>3. ASSUME ~drv'.forward PROVE WheelsSay'
      <3>1. CASE name \in WheelCommands
        BY <1>1, <1>2, <1>4, <2>2, <2>3, <3>1 DEF NewWheels, WheelMotors, WheelCommands, WheelsSay, WheelsType
      <3>2. CASE name \notin WheelCommands
        <4>1. wheels' = wheels /\ last'.wheel = last.wheel /\ (drv'.forward <=> drv.forward)
          BY <1>1, <1>2, <1>4, <3>2 DEF NewWheels, NewDrive, WheelCommands, DrvType
        <4> QED BY <2>3, <4>1 DEF WheelsInv, WheelsSay
      <3> QED BY <3>1, <3>2
    <2> QED BY <2>1, <2>2, <2>3 DEF WheelsInv
  <1> QED BY <1>1, <1>6, <1>7, <1>8, ServosSame

LEMMA ReadSignalKeeps ==
  ASSUME RcInv, ReadSignal
  PROVE  RcInv'
  <1> USE DEF RcInv
  <1> DEFINE byte == rx.buffer[2 + Len(cpu.float)]
             float == Append(cpu.float, byte)
  <1>1. /\ cpu.pc = "execute" /\ UNCHANGED <<rx, bus, todo, packets, rot, wheels, servo>>
        /\ \/ Len(float) < 4 /\ cpu' = [cpu EXCEPT !.float = float] /\ UNCHANGED <<drv, last>>
           \/ /\ ~(Len(float) < 4) /\ cpu' = [cpu EXCEPT !.pc = "run"]
              /\ last' = [last EXCEPT !.command = cpu.command, !.argument = float[1]]
              /\ \E signal \in Signals : drv' = UpdateSteerSignal(signal)
    BY DEF ReadSignal
  <1>2. /\ rx.buffer \in Seq(Int) /\ Len(rx.buffer) >= 6 /\ cpu.float \in Seq(Int) /\ Len(cpu.float) < 4
        /\ cpu.command \in Int /\ cpu.diff \in Int /\ drv \in DrvType
        /\ last.sent \in Nat /\ last.wheel \in WheelCommands
    BY DEF RcTypeOK, RxType, CpuType, LastType
  <1>3. byte \in Int
    BY ONLY <1>2
  <1> HIDE DEF byte
  <1>4. /\ float \in Seq(Int) /\ Len(float) = Len(cpu.float) + 1
        /\ \A i \in 1 .. Len(cpu.float) : float[i] = cpu.float[i]
        /\ float[Len(cpu.float) + 1] = byte
    BY ONLY <1>2, <1>3, AppendProperties
  <1> HIDE DEF float
  <1>5. CASE Len(float) < 4
    <2>1. /\ cpu' = [pc |-> "execute", command |-> cpu.command, diff |-> cpu.diff, float |-> float]
          /\ UNCHANGED <<drv, last>>
      BY <1>1, <1>5 DEF RcTypeOK, CpuType
    <2>2. cpu' \in CpuType /\ Len(cpu'.float) < 4
      BY ONLY <1>2, <1>4, <1>5, <2>1 DEF CpuType, CpuSteps
    <2>3. RcTypeOK'
      BY <1>1, <2>1, <2>2 DEF RcTypeOK
    <2>4. CommandReads'
      <3>1. SUFFICES ASSUME bus = Idle, ~rx.done
                     PROVE  \A i \in 1 .. Len(float) : float[i] = rx.buffer[1 + i]
        BY <1>1, <2>1 DEF CommandReads
      <3>2. \A i \in 1 .. Len(cpu.float) : cpu.float[i] = rx.buffer[1 + i]
        BY <1>1, <3>1 DEF CommandReads
      <3>3. float[Len(cpu.float) + 1] = rx.buffer[1 + (Len(cpu.float) + 1)]
        <4>1. 1 + (Len(cpu.float) + 1) = 2 + Len(cpu.float)
          BY ONLY <1>2
        <4> QED BY <1>4, <4>1 DEF byte
      <3>4. ASSUME NEW i \in 1 .. Len(float) PROVE float[i] = rx.buffer[1 + i]
        <4>1. i \in 1 .. Len(cpu.float) \/ i = Len(cpu.float) + 1
          BY ONLY <1>2, <1>4, <3>4
        <4> QED BY ONLY <1>4, <3>2, <3>3, <4>1
      <3> QED BY <3>4
    <2>5. WheelsInv'
      BY <1>1, <2>1, WheelsSame
    <2> QED BY <1>1, <2>3, <2>4, <2>5, ServosSame
  <1>6. CASE ~(Len(float) < 4)
    <2>1. PICK signal \in Signals : drv' = UpdateSteerSignal(signal)
      BY <1>1, <1>6
    <2>2. /\ cpu' = [pc |-> "run", command |-> cpu.command, diff |-> cpu.diff, float |-> cpu.float]
          /\ last' = [sent |-> last.sent, command |-> cpu.command, argument |-> float[1], wheel |-> last.wheel]
      BY <1>1, <1>6 DEF RcTypeOK, CpuType, LastType
    <2>3. float[1] \in Int /\ float[1] = cpu.float[1] /\ Len(cpu.float) >= 3
      <3>0. PICK n \in Nat : n = Len(cpu.float) /\ ~(n + 1 < 4) /\ Len(float) = n + 1
        BY ONLY <1>2, <1>4, <1>6
      <3>1. Len(cpu.float) >= 3 /\ 1 \in 1 .. Len(cpu.float) /\ 1 \in 1 .. Len(float)
        BY ONLY <3>0
      <3>2. float[1] = cpu.float[1] /\ float[1] \in Int
        BY ONLY <1>4, <3>1
      <3> QED BY ONLY <3>1, <3>2
    <2>4. cpu' \in CpuType /\ Len(cpu'.float) < 4
      BY ONLY <1>2, <2>2 DEF CpuType, CpuSteps
    <2>5. last' \in LastType
      BY ONLY <1>2, <2>2, <2>3 DEF LastType
    <2>6. drv' \in DrvType /\ (drv'.forward <=> drv.forward)
      <3>1. signal \in Int
        BY RcAssumption
      <3>2. PICK n \in Int : drv' = [drv EXCEPT !.amplitude = n, !.positive = signal >= 0]
        <4> DEFINE size == IF signal >= 0 THEN signal ELSE -signal
                   n == IF size >= 255 THEN 255 ELSE size
        <4>1. n \in Int
          BY <3>1
        <4>2. drv' = [drv EXCEPT !.amplitude = n, !.positive = signal >= 0]
          BY ONLY <2>1 DEF UpdateSteerSignal
        <4> HIDE DEF n
        <4> QED BY <4>1, <4>2
      <3>3. drv' = [forward |-> drv.forward, drive |-> drv.drive, turn |-> drv.turn,
                    amplitude |-> n, positive |-> signal >= 0]
        BY ONLY <1>2, <3>2 DEF DrvType
      <3> QED BY ONLY <1>2, <3>1, <3>3 DEF DrvType
    <2>7. RcTypeOK'
      BY <1>1, <2>4, <2>5, <2>6 DEF RcTypeOK
    <2>8. CommandReads'
      <3>1. SUFFICES ASSUME bus = Idle, ~rx.done
                     PROVE  cpu.command = rx.buffer[1] /\ float[1] = rx.buffer[2]
        BY <1>1, <2>2 DEF CommandReads
      <3>2. cpu.command = rx.buffer[1] /\ \A i \in 1 .. Len(cpu.float) : cpu.float[i] = rx.buffer[1 + i]
        BY <1>1, <3>1 DEF CommandReads
      <3>3. cpu.float[1] = rx.buffer[1 + 1]
        BY <2>3, <3>2
      <3> QED BY <2>3, <3>2, <3>3
    <2>9. WheelsInv'
      BY <1>1, <2>2, <2>6 DEF WheelsInv, WheelsSay
    <2> QED BY <1>1, <2>7, <2>8, <2>9, ServosSame
  <1> QED BY <1>5, <1>6

LEMMA StartTurnKeeps ==
  ASSUME RcInv, StartTurn
  PROVE  RcInv'
  <1> USE DEF RcInv
  <1> DEFINE move == Head(todo)
  <1>1. /\ cpu.pc = "run" /\ todo # <<>> /\ packets' = Turn(move[1], move[2]) /\ todo' = Tail(todo)
        /\ rot' = IF move[1] \in Axles THEN [rot EXCEPT ![move[1]] = move[2]] ELSE rot
        /\ UNCHANGED <<rx, bus, cpu, drv, wheels, servo, last>>
    BY DEF StartTurn
  <1>2. move \in Moves /\ todo' \in Seq(Moves)
    BY <1>1, HeadTailProperties DEF RcTypeOK
  <1> HIDE DEF move
  <1>3. packets' \in Seq(Packets)
    BY <1>1, <1>2, TurnIs
  <1>4. rot' \in [Axles -> Int]
    <2>1. move[1] \in Axles => move[2] \in Int
      BY <1>2 DEF Moves, Axles
    <2>2. rot \in [Axles -> Int]
      BY DEF RcTypeOK
    <2> QED BY <1>1, <2>1, <2>2
  <1>5. RcTypeOK'
    BY <1>1, <1>2, <1>3, <1>4 DEF RcTypeOK
  <1>6. CommandReads'
    BY <1>1 DEF CommandReads
  <1>7. WheelsInv'
    BY <1>1, WheelsSame
  <1> QED BY <1>1, <1>5, <1>6, <1>7, ServosSame

LEMMA PacketWhole ==
  ASSUME NEW p \in Packets
  PROVE  SubSeq(p, 1, 4 + p[4]) = p
  <1>1. CASE p \in ClearWrites
    <2>1. PICK to \in Servos \cup {All}, params \in ClearParams : p = CreateDynamixelPacket(to, INST_WRITE, params)
      BY <1>1 DEF ClearWrites
    <2>2. params \in Seq(Int) /\ to \in Int /\ INST_WRITE \in Int
      BY DEF ClearParams, Servos, All, INST_WRITE
    <2> QED BY <2>1, <2>2, PacketIs
  <1>2. CASE p \in SingleGoals
    <2>1. PICK to \in {1, 6, 7, 8}, params \in Seq(Int) : p = CreateDynamixelPacket(to, INST_WRITE, params)
      BY <1>2 DEF SingleGoals
    <2>2. to \in Int /\ INST_WRITE \in Int
      BY DEF INST_WRITE
    <2> QED BY <2>1, <2>2, PacketIs
  <1>3. CASE p \in PairGoals
    <2>1. PICK id0 \in {2, 4}, id1 \in {3, 5}, angle \in Int : p = PairGoal(id0, id1, angle)
      BY <1>3 DEF PairGoals
    <2>2. GoalsOf(id0, id1, angle) \in Seq(Int) /\ All \in Int /\ INST_SYNC_WRITE \in Int
      <3>1. NamesGoals(GoalsOf(id0, id1, angle), id0, id1, angle)
        BY PairParams
      <3> QED BY <3>1 DEF NamesGoals, All, INST_SYNC_WRITE
    <2> QED BY <2>1, <2>2, PacketIs DEF PairGoal
  <1> QED BY <1>1, <1>2, <1>3 DEF Packets

LEMMA TransmitDynamixelPacketKeeps ==
  ASSUME RcInv, TransmitDynamixelPacket
  PROVE  RcInv'
  <1> USE DEF RcInv
  <1> DEFINE packet == Head(packets)
  <1>1. /\ packets # <<>> /\ servo' = ServoObeys(servo, SubSeq(packet, 1, 4 + packet[4]))
        /\ packets' = Tail(packets) /\ UNCHANGED <<rx, bus, cpu, todo, rot, drv, wheels, last>>
    BY DEF TransmitDynamixelPacket
  <1>2. packet \in Packets /\ packets' \in Seq(Packets)
    BY <1>1, HeadTailProperties DEF RcTypeOK
  <1> HIDE DEF packet
  <1>3. PairsMirrored'
    BY <1>1, <1>2, PacketWhole, PacketKeeps
  <1>4. RcTypeOK'
    BY <1>1, <1>2 DEF RcTypeOK
  <1>5. CommandReads'
    BY <1>1 DEF CommandReads
  <1>6. WheelsInv'
    BY <1>1, WheelsSame
  <1> QED BY <1>3, <1>4, <1>5, <1>6

LEMMA RoundKeeps ==
  ASSUME RcInv, MovementDone \/ NoCommand \/ Steer
  PROVE  RcInv'
  <1> USE DEF RcInv, MovementDone, NoCommand, Steer
  <1>1. PICK pc \in CpuSteps :
          /\ cpu' = [cpu EXCEPT !.pc = pc] /\ UNCHANGED <<rx, bus, todo, packets, rot, drv, servo, last>>
          /\ cpu.pc \in {"run", "top", "steer"} /\ pc \in {"steer", "top"}
          /\ pc = "top" => Steer
          /\ pc # "top" => wheels' = wheels
    BY DEF CpuSteps
  <1>2. cpu' = [pc |-> pc, command |-> cpu.command, diff |-> cpu.diff, float |-> cpu.float]
    BY <1>1 DEF RcTypeOK, CpuType
  <1>3. wheels' \in WheelsType
    <2>1. drv \in DrvType /\ wheels \in WheelsType
      BY DEF RcTypeOK
    <2>2. CASE pc = "top"
      <3>1. wheels' = IF drv.forward THEN WheelMotors_DriveForwardWithSteering ELSE wheels
        BY <1>1, <2>2
      <3> QED BY ONLY <2>1, <3>1 DEF WheelMotors_DriveForwardWithSteering, WheelMotors, WheelsType, DrvType, clampInt
    <2> QED BY <1>1, <2>1, <2>2
  <1>4. cpu' \in CpuType /\ Len(cpu'.float) < 4
    BY <1>2 DEF RcTypeOK, CpuType
  <1>5. RcTypeOK'
    BY <1>1, <1>3, <1>4 DEF RcTypeOK
  <1>6. CommandReads'
    BY <1>1, <1>2 DEF CommandReads
  <1>7. WheelsInv'
    <2>1. CASE pc = "top" /\ drv.forward
      <3>1. wheels'.d6 = 1 /\ wheels'.d7 = 0
        BY <1>1, <2>1 DEF WheelMotors_DriveForwardWithSteering, WheelMotors
      <3>2. last.wheel = "DRIVE_FORWARD"
        BY <2>1 DEF WheelsInv
      <3> QED BY <1>1, <2>1, <3>1, <3>2 DEF WheelsInv, WheelsSay
    <2>2. CASE ~(pc = "top" /\ drv.forward)
      BY <1>1, <1>2, <2>2 DEF WheelsInv, WheelsSay
    <2> QED BY <2>1, <2>2
  <1> QED BY <1>1, <1>5, <1>6, <1>7, ServosSame

(* The robot does what it was told last and its paired servos mirror each  *)
(* other, for every set of messages and signals and any number of          *)
(* transfers, wherever the bus interrupts the main loop.                   *)
THEOREM RobotCorrect == RcSpec => []RobotObeys
  <1>1. RcInit => RcInv
    BY RcFirst
  <1>2. RcInv /\ [RcNext]_rcvars => RcInv'
    <2>1. CASE UNCHANGED rcvars
      <3>1. RcTypeOK => RcTypeOK'
        BY <2>1 DEF rcvars, RcTypeOK
      <3>2. CommandReads => CommandReads'
        BY <2>1 DEF rcvars, CommandReads
      <3>3. WheelsInv => WheelsInv'
        BY <2>1 DEF rcvars, WheelsInv, WheelsSay
      <3> QED BY <2>1, <3>1, <3>2, <3>3, ServosSame DEF rcvars, RcInv
    <2>2. ASSUME RcInv, RcNext PROVE RcInv'
      BY <2>2, SlaveAddressedKeeps, DataReceivedKeeps, TransferEndedKeeps, TakeCommandKeeps, ReadCommandKeeps,
         ReadDiffKeeps, ExecuteKeeps, ReadSignalKeeps, StartTurnKeeps, TransmitDynamixelPacketKeeps, RoundKeeps
         DEF RcNext
    <2> QED BY <2>1, <2>2
  <1>3. RcInv => RobotObeys
    <2>1. RcInv => LastCommandExecuted
      BY DEF RcInv, CommandReads, LastCommandExecuted
    <2>2. RcInv => WheelsObey
      BY DEF RcInv, RcTypeOK, LastType, WheelCommands, WheelsInv, WheelsSay, WheelsObey
    <2> QED BY <2>1, <2>2 DEF RcInv, RobotObeys
  <1> QED BY <1>1, <1>2, <1>3, PTL DEF RcSpec

(***************************************************************************)
(* 4. The ATA driver: the boot that looks at one disk after the other, the *)
(* thread that uses a channel, and what the controller and the completion  *)
(* say meanwhile; for any disks, tables and threads.                       *)
(***************************************************************************)

Kind == {"ata", "atafirst", "big", "atapi", "none"}
Dev == Channels \X {0, 1}
DkData == Values \cup {0}
BootSteps == {"init", "identify", "identified"}
InUse == {"select", "issue", "wait", "busy", "release", "panic"}
ChanType == [lock : DkThreads \cup {None}, expecting : BOOLEAN, sema : Nat]
HwType == [dev : {0, 1}, sec : Nat, cmd : {None, "identify", "read", "write", "store"},
           bsy : BOOLEAN, drq : BOOLEAN, data : DkData]
ReqType == [at : {"idle", "lock"} \cup BootSteps \cup InUse, disk : Dev, sec : Nat,
            op : {None, "identify", "read", "write"}, buf : DkData]
DkTypeOK ==
  /\ chan \in [Channels -> ChanType] /\ hw \in [Channels -> HwType] /\ irq \subseteq Channels
  /\ media \in [Dev -> [0 .. Sectors - 1 -> DkData]] /\ is_ata \in [Dev -> BOOLEAN]
  /\ req \in [DkThreads -> ReqType]

\* The initial thread looks at one disk after the other, before anyone reads or writes.
Booting(t) == req[t].op = "identify" \/ req[t].at \in BootSteps
Earlier(d) == {e \in Dev : e[1] < d[1] \/ (e[1] = d[1] /\ e[2] < d[2])}
LookedAt(r) == IF r.op = "identify" \/ r.at \in BootSteps THEN Earlier(r.disk) ELSE Dev
BootInv ==
  /\ \A t \in DkThreads : Booting(t) => t = Boot
  /\ Booting(Boot) => \A t \in DkThreads \ {Boot} : req[t].at = "idle"
  /\ req[Boot].at = "init" => req[Boot].disk[2] = 0
  /\ req[Boot].op = "identify" => req[Boot].at \in InUse \cup {"identified"}
  /\ req[Boot].at = "identified" => req[Boot].op = "identify"

PartsOf(bs, d) == {[start |-> b.start, size |-> b.size] : b \in {a \in bs : a.disk = d /\ a.nr > 0}}
OnDisk(b) == b.start \in Nat /\ b.size \in Nat /\ b.start + b.size <= Sectors
\* The disks D were looked at: those in ata are in use, with the blocks bs on them.
Found(bs, ata, D) ==
  /\ \A b \in bs : b.disk \in D /\ ata[b.disk] /\ OnDisk(b)
  /\ \A d \in D : ata[d] /\ Extensions(d) = {} => PartsOf(bs, d) = Described(d)
BlocksInv == Found(all_blocks, is_ata, LookedAt(req[Boot]))

\* Who uses a channel holds its lock, except at boot.
Using(t, c) == req[t].at \in InUse /\ req[t].disk[1] = c
DkLockInv ==
  /\ \A t \in DkThreads : req[t].at \in InUse /\ req[t].op # "identify" => chan[req[t].disk[1]].lock = t
  /\ \A c \in Channels : chan[c].lock # None => ~Booting(Boot) /\ Using(chan[c].lock, c)
  /\ \A t \in DkThreads : req[t].at \in {"lock"} \cup InUse => req[t].op # None
  /\ \A t \in DkThreads : req[t].at \in {"lock"} \cup InUse /\ req[t].op # "identify" => req[t].sec < Sectors
  /\ \A t \in DkThreads : req[t].at = "lock" => req[t].op # "identify"

Quiet(c) == chan[c].sema = 0 /\ c \notin irq /\ ~hw[c].bsy /\ ~hw[c].drq
Completed(c) == (chan[c].sema = 1 /\ c \notin irq) \/ (chan[c].sema = 0 /\ c \in irq)
NotYet(c) == chan[c].sema = 0 /\ c \notin irq
Selected(t, c) == hw[c].dev = req[t].disk[2] /\ hw[c].sec = req[t].sec
Stored(t) == media[req[t].disk][req[t].sec]

\* What the controller and the completion say while t waits for a sector to come, writes
\* one, and waits for it to be stored.
TakingIn(t, c) ==
  /\ hw[c].bsy => req[t].at = "wait" /\ hw[c].cmd = req[t].op /\ ~hw[c].drq /\ NotYet(c)
  /\ ~hw[c].bsy /\ req[t].at = "wait" => Completed(c)
  /\ req[t].at = "busy" => NotYet(c)
  /\ hw[c].drq /\ req[t].op = "read" => hw[c].data = Stored(t)
GivingOut(t, c) ==
  /\ hw[c].bsy => hw[c].cmd = "write" /\ ~hw[c].drq
  /\ hw[c].drq => hw[c].cmd = "store"
  /\ hw[c].bsy \/ hw[c].drq => NotYet(c)
  /\ ~hw[c].bsy /\ ~hw[c].drq => Completed(c)
Storing(t, c) ==
  /\ ~hw[c].drq
  /\ hw[c].bsy => hw[c].cmd = "store" /\ hw[c].data = req[t].buf /\ NotYet(c)
  /\ ~hw[c].bsy => Completed(c) /\ Stored(t) = req[t].buf

OnTurn(t, c) ==
  /\ req[t].at \in {"select", "issue", "release"} => Quiet(c)
  /\ req[t].at = "release" => req[t].op # "identify" /\ Stored(t) = req[t].buf
  /\ req[t].at \in {"wait", "busy"} => chan[c].expecting
  /\ req[t].at \in {"issue", "wait", "busy"} => Selected(t, c)
  /\ req[t].at \in {"wait", "busy"} /\ req[t].op # "write" => TakingIn(t, c)
  /\ req[t].at = "busy" /\ req[t].op = "write" => GivingOut(t, c)
  /\ req[t].at = "wait" /\ req[t].op = "write" => Storing(t, c)
ChannelOK(c) ==
  /\ (\A t \in DkThreads : ~Using(t, c)) => Quiet(c)
  /\ \A t \in DkThreads : Using(t, c) => OnTurn(t, c)
ChannelInv == \A c \in Channels : ChannelOK(c)

DkInv == DkTypeOK /\ BootInv /\ BlocksInv /\ DkLockInv /\ ChannelInv

-----------------------------------------------------------------------------
(* The partitions found.                                                    *)

LEMMA DkConsts ==
  /\ DkThreads # {} /\ None \notin DkThreads /\ Sectors \in Nat /\ SectorMod \in Nat /\ Sectors < SectorMod
  /\ Channels \subseteq Nat /\ 0 \in Channels /\ Boot \in DkThreads /\ Disks = Dev
  /\ DOMAIN Kinds = Dev /\ \A d \in Dev : Kinds[d] \in Kind
<1>1. PICK top \in Channels : Channels = 0 .. top BY DkAssumption
<1>2. 0 \in Channels BY <1>1, DkAssumption
<1>3. Boot \in DkThreads BY DkAssumption DEF Boot
<1> QED BY <1>2, <1>3, DkAssumption DEF None, Disks, Dev, Kind

LEMMA EntriesAre ==
  ASSUME NEW d \in Dev
  PROVE  /\ DOMAIN PartTable(d).entries \subseteq 1 .. 4 /\ PartTable(d).signed \in BOOLEAN
         /\ \A i \in DOMAIN PartTable(d).entries :
              LET e == PartTable(d).entries[i]
              IN e.offset \in Nat /\ e.offset < SectorMod /\ e.size \in Nat /\ e.size < SectorMod
<1>1. d \in DOMAIN Kinds BY DkConsts DEF Disks
<1>2. /\ MBRs[d][0].signed \in BOOLEAN /\ DOMAIN MBRs[d][0].entries \subseteq 1 .. 4
      /\ \A i \in DOMAIN MBRs[d][0].entries :
           LET e == MBRs[d][0].entries[i] IN e.offset \in 0 .. SectorMod - 1 /\ e.size \in 0 .. SectorMod - 1
  BY <1>1, DkAssumption
<1> QED BY <1>2, DkConsts DEF PartTable

LEMMA SumMod ==
  ASSUME NEW m \in Nat, NEW a \in Nat, NEW b \in Nat, a < m, b < m
  PROVE  (a + b) % m = IF a + b < m THEN a + b ELSE a + b - m
<1>1. CASE a + b < m
  <2>1. a + b \in 0 .. m - 1 /\ a + b = 0 * m + (a + b) /\ m > 0 BY <1>1
  <2> QED BY <1>1, <2>1, ModUnique
<1>2. CASE a + b >= m
  <2> DEFINE r == a + b - m
             x == a + b
  <2>1. r \in 0 .. m - 1 /\ x = 1 * m + r /\ m > 0 /\ x \in Int BY <1>2
  <2> HIDE DEF r, x
  <2>2. x % m = r BY <2>1, ModUnique
  <2> QED BY <1>2, <2>2 DEF x, r
<1> QED BY <1>1, <1>2

\* found_partition finds a partition that lies on the disk, and no other.
LEMMA FoundIs ==
  ASSUME NEW d, NEW type, NEW n, NEW start \in Nat, NEW size \in Nat, start < SectorMod, size < SectorMod
  PROVE  found_partition(d, type, start, size, n) =
           IF start < Sectors /\ start + size <= Sectors THEN {Block(PartitionType(type), size, d, n, start)}
           ELSE {}
<1>1. Sectors \in Nat /\ SectorMod \in Nat /\ Sectors < SectorMod BY DkConsts
<1> DEFINE end == (start + size) % SectorMod
<1>2. end = IF start + size < SectorMod THEN start + size ELSE start + size - SectorMod BY <1>1, SumMod
<1> HIDE DEF end
<1>3. (start >= Sectors \/ end < start \/ end > Sectors) <=> ~(start < Sectors /\ start + size <= Sectors)
  BY <1>1, <1>2
<1>4. found_partition(d, type, start, size, n) =
        IF start >= Sectors \/ end < start \/ end > Sectors THEN {}
        ELSE {Block(PartitionType(type), size, d, n, start)}
  BY DEF found_partition, end
<1> QED BY <1>3, <1>4

LEMMA PlacesAre ==
  ASSUME NEW d \in Dev, NEW p \in read_partition_table(d)
  PROVE  /\ p = <<p[1], p[2]>> /\ p[1] \in 1 .. 4 /\ p[2] \in 0 .. 4 /\ PartTable(d).signed
         /\ p[2] = 0 => p[1] \in DOMAIN PartTable(d).entries /\ ~Extended(PartTable(d).entries[p[1]].type)
         /\ p[2] # 0 => p[1] \in Extensions(d) /\ p[2] \in DOMAIN PartTable(d).entries
         /\ Used(EntryAt(d, p))
<1>1. DOMAIN PartTable(d).entries \subseteq 1 .. 4 /\ Extensions(d) \subseteq DOMAIN PartTable(d).entries
  BY EntriesAre DEF Extensions
<1> DEFINE es == PartTable(d).entries
           plain == {j \in DOMAIN es : Used(es[j]) /\ ~Extended(es[j].type)}
<1>2. PartTable(d).signed /\ (p \in plain \X {0} \/ p \in Extensions(d) \X plain) BY DEF read_partition_table
<1>3. CASE p \in plain \X {0} BY <1>1, <1>2, <1>3 DEF EntryAt
<1>4. CASE p \in Extensions(d) \X plain BY <1>1, <1>2, <1>4 DEF EntryAt
<1> QED BY <1>2, <1>3, <1>4

LEMMA NumberIs ==
  ASSUME NEW d \in Dev, NEW p \in read_partition_table(d)
  PROVE  part_nr(d, p) \in Nat /\ part_nr(d, p) > 0
<1> DEFINE R == read_partition_table(d)
           S == {q \in R : q[1] < p[1] \/ (q[1] = p[1] /\ q[2] <= p[2])}
<1>1. \A q \in R : q \in (1 .. 4) \X (0 .. 4) BY PlacesAre
<1>2. IsFiniteSet((1 .. 4) \X (0 .. 4))
  <2> DEFINE four == 4
             A == 1 .. four
             B == 0 .. four
  <2>1. four \in Int /\ 1 \in Int /\ 0 \in Int OBVIOUS
  <2> HIDE DEF four
  <2>2. IsFiniteSet(A) /\ IsFiniteSet(B) BY <2>1, FS_Interval
  <2> HIDE DEF A, B
  <2>3. IsFiniteSet(A \X B) BY <2>2, FS_Product
  <2> QED BY <2>3 DEF A, B, four
<1>3. IsFiniteSet(S)
  <2> HIDE DEF R
  <2>1. S \subseteq (1 .. 4) \X (0 .. 4) BY <1>1
  <2> QED BY <1>2, <2>1, FS_Subset
<1>4. p \in S BY <1>1
<1>5. Cardinality(S) \in Nat /\ Cardinality(S) # 0 BY <1>3, <1>4, FS_CardinalityType, FS_EmptySet
<1> QED BY <1>5 DEF part_nr

\* The start sector of a partition, in the arithmetic of the table.
StartOf(d, p) == (EntryAt(d, p).offset + TableSector(d, p)) % SectorMod
LEMMA StartIs ==
  ASSUME NEW d \in Dev, NEW p \in read_partition_table(d)
  PROVE  /\ StartOf(d, p) \in Nat /\ StartOf(d, p) < SectorMod
         /\ EntryAt(d, p).size \in Nat /\ EntryAt(d, p).size < SectorMod
         /\ p[2] = 0 => StartOf(d, p) = EntryAt(d, p).offset
<1> DEFINE a == EntryAt(d, p).offset
           b == TableSector(d, p)
<1>1. a \in Nat /\ a < SectorMod /\ EntryAt(d, p).size \in Nat /\ EntryAt(d, p).size < SectorMod
  BY PlacesAre, EntriesAre DEF EntryAt
<1>2. b \in Nat /\ b < SectorMod /\ (p[2] = 0 => b = 0)
  BY PlacesAre, EntriesAre, DkConsts DEF TableSector, Extensions
<1> HIDE DEF a, b
<1>3. SectorMod \in Nat BY DkConsts
<1>4. (a + b) % SectorMod = IF a + b < SectorMod THEN a + b ELSE a + b - SectorMod BY <1>1, <1>2, <1>3, SumMod
<1>5. StartOf(d, p) = IF a + b < SectorMod THEN a + b ELSE a + b - SectorMod BY <1>4 DEF StartOf, a, b
<1>6. StartOf(d, p) \in Nat /\ StartOf(d, p) < SectorMod /\ (p[2] = 0 => StartOf(d, p) = a) BY <1>1, <1>2, <1>3, <1>5
<1> QED BY <1>1, <1>6 DEF a

PartAt(d, p) == Block(PartitionType(EntryAt(d, p).type), EntryAt(d, p).size, d, part_nr(d, p), StartOf(d, p))
Fits(d, p) == StartOf(d, p) < Sectors /\ StartOf(d, p) + EntryAt(d, p).size <= Sectors
LEMMA ScanIs ==
  ASSUME NEW d \in Dev
  PROVE  partition_scan(d) = {PartAt(d, p) : p \in {q \in read_partition_table(d) : Fits(d, q)}}
<1> DEFINE R == read_partition_table(d)
           F(p) == found_partition(d, EntryAt(d, p).type, StartOf(d, p), EntryAt(d, p).size, part_nr(d, p))
<1>1. partition_scan(d) = UNION {F(p) : p \in R} BY DEF partition_scan, StartOf
<1>2. \A p \in R : F(p) = IF Fits(d, p) THEN {PartAt(d, p)} ELSE {}
  BY StartIs, FoundIs DEF Fits, PartAt
<1> HIDE DEF R, F
<1>3. \A b : b \in partition_scan(d) <=> \E p \in R : b \in F(p) BY <1>1
<1>4. \A b : b \in partition_scan(d) <=> \E p \in R : Fits(d, p) /\ b = PartAt(d, p) BY <1>2, <1>3
<1> QED BY <1>4 DEF R

\* What a disk's table adds: blocks on it, those that the table describes.
LEMMA ScanFinds ==
  ASSUME NEW d \in Dev
  PROVE  /\ \A b \in partition_scan(d) : b.disk = d /\ b.nr > 0 /\ OnDisk(b)
         /\ Extensions(d) = {} => {[start |-> b.start, size |-> b.size] : b \in partition_scan(d)} = Described(d)
<1> DEFINE R == read_partition_table(d)
<1>1. \A p \in R : /\ PartAt(d, p).disk = d /\ PartAt(d, p).nr = part_nr(d, p)
                   /\ PartAt(d, p).start = StartOf(d, p) /\ PartAt(d, p).size = EntryAt(d, p).size
  BY DEF PartAt, Block
<1>2. \A b \in partition_scan(d) : \E p \in R : Fits(d, p) /\ b = PartAt(d, p) BY ScanIs
<1>3. \A b \in partition_scan(d) : b.disk = d /\ b.nr > 0 /\ OnDisk(b)
  <2> TAKE b \in partition_scan(d)
  <2>1. PICK p \in R : Fits(d, p) /\ b = PartAt(d, p) BY <1>2
  <2>2. part_nr(d, p) > 0 /\ StartOf(d, p) \in Nat /\ EntryAt(d, p).size \in Nat BY NumberIs, StartIs
  <2> QED BY <1>1, <2>1, <2>2 DEF OnDisk, Fits
<1>4. ASSUME Extensions(d) = {}
      PROVE  {[start |-> b.start, size |-> b.size] : b \in partition_scan(d)} = Described(d)
  <2> DEFINE es == PartTable(d).entries
             E == {f \in {es[i] : i \in DOMAIN es} : Used(f) /\ f.offset + f.size <= Sectors}
             Pair(s, z) == [start |-> s, size |-> z]
  <2>1. \A p \in R : p[2] = 0 /\ p[1] \in DOMAIN es /\ EntryAt(d, p) = es[p[1]] /\ Used(es[p[1]])
    BY <1>4, PlacesAre DEF EntryAt
  <2>2. Sectors \in Nat /\ \A i \in DOMAIN es : es[i].offset \in Nat /\ es[i].size \in Nat
    BY EntriesAre, DkConsts
  <2>3. \A p \in R : Fits(d, p) => es[p[1]] \in E /\ PartAt(d, p).start = es[p[1]].offset
                                   /\ PartAt(d, p).size = es[p[1]].size
    BY <1>1, <2>1, <2>2, StartIs DEF Fits
  <2>4. ASSUME PartTable(d).signed, NEW f \in E
        PROVE  \E p \in R : Fits(d, p) /\ es[p[1]] = f
    <3>1. PICK i \in DOMAIN es : es[i] = f /\ Used(es[i]) /\ f.offset + f.size <= Sectors BY <2>4
    <3>2. f.size # 0 /\ f.offset < Sectors /\ Sectors # 0 BY <2>2, <3>1 DEF Used
    <3>3. ~Extended(es[i].type) BY <1>4, <3>1, <3>2 DEF Extensions
    <3>4. <<i, 0>> \in R BY <2>4, <3>1, <3>2, <3>3 DEF read_partition_table
    <3> DEFINE p == <<i, 0>>
    <3>5. p[1] = i /\ p[2] = 0 OBVIOUS
    <3>6. p \in R BY <3>4
    <3> HIDE DEF p, R
    <3>7. EntryAt(d, p) = f BY <2>1, <3>1, <3>5, <3>6
    <3>8. StartOf(d, p) = f.offset BY <3>5, <3>6, <3>7, StartIs DEF R
    <3>9. Fits(d, p) BY <3>1, <3>2, <3>7, <3>8 DEF Fits
    <3> QED BY <3>1, <3>5, <3>6, <3>9
  <2>5. ~PartTable(d).signed => R = {} BY DEF read_partition_table
  <2>6. Described(d) = IF ~PartTable(d).signed THEN {} ELSE {Pair(e.offset, e.size) : e \in E} BY DEF Described
  <2> HIDE DEF R, E, Pair
  <2>7. \A b \in partition_scan(d) : Pair(b.start, b.size) \in Described(d)
    BY <1>2, <2>3, <2>5, <2>6
  <2>8. \A x \in Described(d) : \E b \in partition_scan(d) : x = Pair(b.start, b.size)
    <3> TAKE x \in Described(d)
    <3>1. PartTable(d).signed BY <2>6
    <3>2. PICK f \in E : x = Pair(f.offset, f.size) BY <2>6, <3>1
    <3>3. PICK p \in R : Fits(d, p) /\ es[p[1]] = f BY <2>4, <3>1
    <3>4. PartAt(d, p) \in partition_scan(d) BY <3>3, ScanIs DEF R
    <3>5. x = Pair(PartAt(d, p).start, PartAt(d, p).size) BY <2>3, <3>2, <3>3
    <3> QED BY <3>4, <3>5
  <2> QED BY <2>7, <2>8 DEF Pair
<1> QED BY <1>3, <1>4
-----------------------------------------------------------------------------
(* The steps.                                                               *)

LEMMA DkInvInit == DkInit => DkInv
<1> SUFFICES ASSUME DkInit PROVE DkInv OBVIOUS
<1>1. /\ \A c \in Channels : /\ chan[c] = [lock |-> None, expecting |-> FALSE, sema |-> 0]
                             /\ hw[c] = [dev |-> 0, sec |-> 0, cmd |-> None, bsy |-> FALSE, drq |-> FALSE, data |-> 0]
      /\ irq = {} /\ all_blocks = {} /\ \A t \in DkThreads \ {Boot} : req[t] = NoReq
      /\ req[Boot] = [NoReq EXCEPT !.at = "init", !.disk = <<0, 0>>]
  BY DkConsts DEF DkInit
<1>2. NoReq = [at |-> "idle", disk |-> <<0, 0>>, sec |-> 0, op |-> None, buf |-> 0] BY DEF NoReq
<1>3. req[Boot] = [at |-> "init", disk |-> <<0, 0>>, sec |-> 0, op |-> None, buf |-> 0] BY <1>1, <1>2
<1>4. 0 \in DkData /\ <<0, 0>> \in Dev BY DkConsts DEF DkData, Dev
<1>5. NoReq \in ReqType /\ req[Boot] \in ReqType BY <1>2, <1>3, <1>4 DEF ReqType, BootSteps
<1>6. DkTypeOK
  <2>1. req \in [DkThreads -> ReqType] BY <1>1, <1>5 DEF DkInit
  <2>2. chan \in [Channels -> ChanType]
    <3>1. [lock |-> None, expecting |-> FALSE, sema |-> 0] \in ChanType BY DEF ChanType
    <3> QED BY <3>1 DEF DkInit
  <2>3. hw \in [Channels -> HwType]
    <3>1. [dev |-> 0, sec |-> 0, cmd |-> None, bsy |-> FALSE, drq |-> FALSE, data |-> 0] \in HwType
      BY <1>4 DEF HwType
    <3> QED BY <3>1 DEF DkInit
  <2>4. media \in [Dev -> [0 .. Sectors - 1 -> DkData]] /\ is_ata \in [Dev -> BOOLEAN]
    BY <1>4, DkConsts DEF DkInit
  <2> QED BY <1>1, <2>1, <2>2, <2>3, <2>4 DEF DkTypeOK
<1>7. \A t \in DkThreads \ {Boot} : req[t].at = "idle" /\ req[t].op = None BY <1>1, <1>2
<1>8. BootInv
  <2>1. \A t \in DkThreads \ {Boot} : ~Booting(t) BY <1>7 DEF Booting, BootSteps, None
  <2>2. req[Boot].disk[2] = 0 /\ req[Boot].at = "init" /\ req[Boot].op = None BY <1>3
  <2> QED BY <1>7, <2>1, <2>2 DEF BootInv, None
<1>9. BlocksInv
  <2>1. req[Boot].disk[1] = 0 /\ req[Boot].disk[2] = 0 /\ req[Boot].at \in BootSteps BY <1>3 DEF BootSteps
  <2>2. ASSUME NEW d, d[1] = 0, d[2] = 0 PROVE Earlier(d) = {}
    <3>1. \A e \in Dev : e[1] \in Channels /\ e[2] \in {0, 1} BY ONLY DEF Dev
    <3>2. \A c \in Channels : c \in Nat BY DkConsts
    <3>3. \A e \in Dev : e[1] \in Nat /\ e[2] \in Nat BY <3>1, <3>2
    <3>4. \A e \in Dev : ~(e[1] < 0 \/ (e[1] = 0 /\ e[2] < 0)) BY ONLY <3>3
    <3> QED BY <2>2, <3>4 DEF Earlier
  <2>3. Earlier(req[Boot].disk) = {} BY <2>1, <2>2
  <2>4. LookedAt(req[Boot]) = {} BY <2>1, <2>3 DEF LookedAt
  <2> QED BY <1>1, <2>4 DEF BlocksInv, Found
<1>10. \A t \in DkThreads : req[t].at \notin InUse /\ req[t].at # "lock" BY <1>3, <1>7 DEF InUse
<1>11. DkLockInv BY <1>1, <1>10 DEF DkLockInv
<1>12. ChannelInv BY <1>1, <1>10 DEF ChannelInv, ChannelOK, Using, Quiet
<1> QED BY <1>6, <1>8, <1>9, <1>11, <1>12 DEF DkInv

\* No two threads use a channel.
LEMMA UserOnly ==
  ASSUME DkInv, NEW c, NEW t \in DkThreads, NEW u \in DkThreads, Using(t, c), Using(u, c)
  PROVE  t = u
<1>1. CASE req[t].op = "identify" \/ req[u].op = "identify"
  <2>1. Booting(Boot) BY <1>1 DEF DkInv, BootInv, Booting
  <2>2. t = Boot /\ u = Boot BY <2>1 DEF DkInv, BootInv, Using, InUse
  <2> QED BY <2>2
<1>2. CASE req[t].op # "identify" /\ req[u].op # "identify"
  BY <1>2 DEF DkInv, DkLockInv, Using
<1> QED BY <1>1, <1>2

\* Channels on which nothing happens.
LEMMA OthersOK ==
  ASSUME DkTypeOK, NEW e \in Channels, ChannelOK(e), chan'[e] = chan[e], hw'[e] = hw[e], e \in irq' <=> e \in irq,
         \A i \in {0, 1} : media'[<<e, i>>] = media[<<e, i>>],
         \A u \in DkThreads : req'[u] = req[u] \/ (~Using(u, e) /\ ~Using(u, e)')
  PROVE  ChannelOK(e)'
<1>1. \A u \in DkThreads : Using(u, e)' <=> Using(u, e) BY DEF Using
<1>2. Quiet(e)' <=> Quiet(e) BY DEF Quiet
<1>3. ASSUME NEW u \in DkThreads, Using(u, e) PROVE OnTurn(u, e)'
  <2>1. req'[u] = req[u] /\ OnTurn(u, e) BY <1>3 DEF ChannelOK
  <2>2. req[u].disk \in Dev /\ req[u].disk[1] = e BY <1>3 DEF Using, DkTypeOK, ReqType
  <2>3. req[u].disk = <<e, req[u].disk[2]>> /\ req[u].disk[2] \in {0, 1} BY <2>2 DEF Dev
  <2>4. Stored(u)' = Stored(u) BY <2>1, <2>3 DEF Stored
  <2>5. Completed(e)' <=> Completed(e) BY DEF Completed
  <2>6. NotYet(e)' <=> NotYet(e) BY DEF NotYet
  <2>7. Selected(u, e)' <=> Selected(u, e) BY <2>1 DEF Selected
  <2>8. TakingIn(u, e)' <=> TakingIn(u, e) BY <2>1, <2>4, <2>5, <2>6 DEF TakingIn
  <2>9. GivingOut(u, e)' <=> GivingOut(u, e) BY <2>1, <2>5, <2>6 DEF GivingOut
  <2>10. Storing(u, e)' <=> Storing(u, e) BY <2>1, <2>4, <2>5, <2>6 DEF Storing
  <2> QED BY <1>2, <2>1, <2>4, <2>7, <2>8, <2>9, <2>10 DEF OnTurn
<1> QED BY <1>1, <1>2, <1>3 DEF ChannelOK

\* A step on channel c of its only user t.
LEMMA OnChannel ==
  ASSUME DkTypeOK, ChannelInv, NEW c \in Channels, NEW t \in DkThreads,
         \A u \in DkThreads \ {t} : ~Using(u, c) /\ req'[u] = req[u],
         \A e \in Channels \ {c} : /\ chan'[e] = chan[e] /\ hw'[e] = hw[e] /\ (e \in irq' <=> e \in irq)
                                   /\ \A i \in {0, 1} : media'[<<e, i>>] = media[<<e, i>>]
                                   /\ ~Using(t, e) /\ ~Using(t, e)',
         Using(t, c)' => OnTurn(t, c)', ~Using(t, c)' => Quiet(c)'
  PROVE  ChannelInv'
<1>1. ASSUME NEW e \in Channels \ {c} PROVE ChannelOK(e)'
  <2>1. ChannelOK(e) BY DEF ChannelInv
  <2>2. \A u \in DkThreads : req'[u] = req[u] \/ (~Using(u, e) /\ ~Using(u, e)') OBVIOUS
  <2> QED BY <2>1, <2>2, OthersOK
<1>2. ChannelOK(c)'
  <2>1. \A u \in DkThreads \ {t} : ~Using(u, c)' BY DEF Using
  <2> QED BY <2>1 DEF ChannelOK
<1> QED BY <1>1, <1>2 DEF ChannelInv

\* A move of a thread that uses its channel and still does, or has identified its disk.
LEMMA UserMoves ==
  ASSUME BootInv, BlocksInv, DkLockInv, DkTypeOK, NEW t \in DkThreads, req[t].at \in InUse,
         \A u \in DkThreads \ {t} : req'[u] = req[u],
         req'[t].disk = req[t].disk, req'[t].sec = req[t].sec, req'[t].op = req[t].op,
         req'[t].at \in InUse \/ (req'[t].at = "identified" /\ req[t].op = "identify"),
         \A c \in Channels : chan'[c].lock = chan[c].lock, UNCHANGED <<is_ata, all_blocks>>
  PROVE  BootInv' /\ BlocksInv' /\ DkLockInv'
<1>1. \A u \in DkThreads : Booting(u)' <=> Booting(u) BY DEF Booting, InUse, BootSteps
<1>2. \A u \in DkThreads : req'[u].disk = req[u].disk /\ req'[u].op = req[u].op /\ req'[u].sec = req[u].sec OBVIOUS
<1>3. BootInv' BY <1>1, <1>2, DkConsts DEF BootInv, InUse
<1>4. LookedAt(req'[Boot]) = LookedAt(req[Boot])
  <2>1. Booting(Boot)' <=> Booting(Boot) BY <1>1, DkConsts
  <2> QED BY <1>2, <2>1, DkConsts DEF LookedAt, Booting
<1>5. BlocksInv' BY <1>4 DEF BlocksInv
<1>6. DkLockInv'
  <2>1. \A u \in DkThreads : req'[u].at \in InUse => req[u].at \in InUse OBVIOUS
  <2>2. \A u \in DkThreads : req[u].disk[1] \in Channels BY DEF DkTypeOK, ReqType, Dev
  <2>3. \A u \in DkThreads : req'[u].at \in InUse /\ req'[u].op # "identify" => chan'[req'[u].disk[1]].lock = u
    BY <1>2, <2>1, <2>2 DEF DkLockInv
  <2>4. ASSUME NEW c \in Channels, chan'[c].lock # None PROVE ~Booting(Boot)' /\ Using(chan[c].lock, c)'
    <3>1. chan[c].lock # None /\ chan'[c].lock = chan[c].lock BY <2>4
    <3>2. ~Booting(Boot) /\ Using(chan[c].lock, c) /\ chan[c].lock \in DkThreads
      BY <3>1 DEF DkLockInv, DkTypeOK, ChanType
    <3>3. ~Booting(Boot)' BY <1>1, <3>2, DkConsts
    <3>4. chan[c].lock = t => req'[t].at \in InUse
      <4>1. \A u \in DkThreads : ~Booting(u) BY <3>2 DEF BootInv
      <4> QED BY <4>1 DEF Booting
    <3>5. PICK w \in DkThreads : w = chan[c].lock BY <3>2
    <3>6. Using(w, c)' BY <1>2, <3>2, <3>4, <3>5 DEF Using
    <3> QED BY <3>1, <3>3, <3>5, <3>6 DEF Using
  <2>5. \A u \in DkThreads : req'[u].at = "lock" => req[u].at = "lock" BY DEF InUse
  <2>6. \A u \in DkThreads : req'[u].at \in {"lock"} \cup InUse =>
          /\ req'[u].op # None /\ (req'[u].op # "identify" => req'[u].sec < Sectors)
    BY <1>2, <2>1, <2>5 DEF DkLockInv
  <2> QED BY <1>2, <2>3, <2>4, <2>5, <2>6 DEF DkLockInv
<1> QED BY <1>3, <1>5, <1>6
\* Steps of the controller, and the handler: nobody moves.
LEMMA NobodyMoves ==
  ASSUME BootInv, BlocksInv, DkLockInv, DkTypeOK, \A c \in Channels : chan'[c].lock = chan[c].lock,
         UNCHANGED <<req, is_ata, all_blocks>>
  PROVE  BootInv' /\ BlocksInv' /\ DkLockInv'
<1>1. BootInv' BY DEF BootInv, Booting
<1>2. BlocksInv' BY DEF BlocksInv
<1>3. \A t \in DkThreads : req[t].disk[1] \in Channels BY DEF DkTypeOK, ReqType, Dev
<1>4. DkLockInv'
  <2>1. \A t \in DkThreads : req'[t] = req[t] OBVIOUS
  <2>2. \A c \in Channels, t \in DkThreads : Using(t, c)' <=> Using(t, c) BY DEF Using
  <2>3. \A t \in DkThreads : req'[t].at \in InUse /\ req'[t].op # "identify" => chan'[req'[t].disk[1]].lock = t
    BY <1>3, <2>1 DEF DkLockInv
  <2>4. \A c \in Channels : chan'[c].lock # None => ~Booting(Boot)' /\ Using(chan[c].lock, c)'
    BY DEF DkLockInv, Booting, Using
  <2> QED BY <2>1, <2>3, <2>4 DEF DkLockInv
<1> QED BY <1>1, <1>2, <1>4

LEMMA DkTypes ==
  ASSUME DkTypeOK
  PROVE  /\ \A c \in Channels : chan[c] \in ChanType /\ hw[c] \in HwType
         /\ \A t \in DkThreads : /\ req[t] \in ReqType /\ req[t].disk \in Dev /\ req[t].disk[1] \in Channels
                                 /\ req[t].disk = <<req[t].disk[1], req[t].disk[2]>>
BY DEF DkTypeOK, ReqType, Dev

LEMMA DkHandler == DkInv /\ (\E c \in Channels : interrupt_handler(c)) => DkInv'
<1> SUFFICES ASSUME DkInv, NEW c \in Channels, interrupt_handler(c) PROVE DkInv' OBVIOUS
<1>1. c \in irq /\ irq' = irq \ {c} /\ UNCHANGED <<hw, media, is_ata, all_blocks, req>> BY DEF interrupt_handler
<1>2. DkTypeOK /\ chan[c] \in ChanType /\ chan[c].sema \in Nat BY DkTypes DEF DkInv, ChanType
<1>3. \A e \in Channels \ {c} : chan'[e] = chan[e] BY <1>2 DEF interrupt_handler, DkTypeOK
<1>4. PICK t \in DkThreads : Using(t, c) BY <1>1 DEF DkInv, ChannelInv, ChannelOK, Quiet
<1>5. OnTurn(t, c) BY <1>4 DEF DkInv, ChannelInv, ChannelOK
<1>6. \A u \in DkThreads \ {t} : ~Using(u, c) BY <1>4, UserOnly
<1>7. CASE req[t].at = "panic"
  <2>1. chan' = [chan EXCEPT ![c].sema = IF chan[c].expecting THEN @ + 1 ELSE @] BY DEF interrupt_handler
  <2>2. chan'[c] \in ChanType /\ chan'[c].lock = chan[c].lock
    <3>1. PICK n \in Nat : chan' = [chan EXCEPT ![c].sema = n]
      <4> DEFINE v == chan[c].sema
                 n == IF chan[c].expecting THEN v + 1 ELSE v
      <4>1. n \in Nat BY <1>2
      <4>2. chan' = [chan EXCEPT ![c].sema = n] BY <1>2, <2>1 DEF DkTypeOK
      <4> HIDE DEF n, v
      <4> QED BY <4>1, <4>2
    <3>2. chan'[c] = [lock |-> chan[c].lock, expecting |-> chan[c].expecting, sema |-> n]
      BY <1>2, <3>1 DEF DkTypeOK, ChanType
    <3> QED BY <1>2, <3>2 DEF ChanType
  <2>3. DkTypeOK' BY <1>1, <1>2, <1>3, <2>1, <2>2 DEF DkTypeOK
  <2>4. BootInv' /\ BlocksInv' /\ DkLockInv' BY <1>1, <1>3, <2>2, NobodyMoves DEF DkInv
  <2>5. OnTurn(t, c)' BY <1>1, <1>7 DEF OnTurn
  <2>6. Using(t, c)' /\ \A e \in Channels \ {c} : ~Using(t, e) /\ ~Using(t, e)' BY <1>1, <1>4 DEF Using
  <2>7. ChannelInv' BY <1>1, <1>2, <1>3, <1>6, <2>5, <2>6, OnChannel DEF DkInv
  <2> QED BY <2>3, <2>4, <2>7 DEF DkInv
<1>8. CASE req[t].at # "panic"
  <2>1. req[t].at \in {"wait", "busy"} /\ chan[c].expecting /\ chan[c].sema = 0 /\ ~hw[c].bsy
    <3>1. req[t].at \in {"wait", "busy"}
      <4>1. ~Quiet(c) BY <1>1 DEF Quiet
      <4>2. req[t].at \in InUse BY <1>4 DEF Using
      <4> QED BY <1>5, <1>8, <4>1, <4>2 DEF OnTurn, InUse
    <3>2. chan[c].expecting BY <1>5, <3>1 DEF OnTurn
    <3>3. ~NotYet(c) /\ (Completed(c) => chan[c].sema = 0) BY <1>1 DEF NotYet, Completed
    <3>4. CASE req[t].op # "write"
      <4>1. TakingIn(t, c) BY <1>5, <3>1, <3>4 DEF OnTurn
      <4> QED BY <3>1, <3>2, <3>3, <4>1 DEF TakingIn
    <3>5. CASE req[t].op = "write" /\ req[t].at = "wait"
      <4>1. Storing(t, c) BY <1>5, <3>5 DEF OnTurn
      <4> QED BY <3>1, <3>2, <3>3, <4>1 DEF Storing
    <3>6. CASE req[t].op = "write" /\ req[t].at = "busy"
      <4>1. GivingOut(t, c) BY <1>5, <3>6 DEF OnTurn
      <4> QED BY <3>1, <3>2, <3>3, <4>1 DEF GivingOut
    <3> QED BY <3>1, <3>4, <3>5, <3>6
  <2>2. chan'[c] = [lock |-> chan[c].lock, expecting |-> TRUE, sema |-> 1]
    <3>1. chan' = [chan EXCEPT ![c].sema = 1] BY <1>2, <2>1 DEF interrupt_handler, DkTypeOK
    <3> QED BY <1>2, <2>1, <3>1 DEF DkTypeOK, ChanType
  <2>3. chan'[c] \in ChanType /\ chan'[c].lock = chan[c].lock /\ chan'[c].sema = 1 /\ chan'[c].expecting
    BY <1>2, <2>2 DEF ChanType
  <2>4. DkTypeOK'
    <3>1. chan' \in [Channels -> ChanType] BY <1>2, <1>3, <2>3 DEF interrupt_handler, DkTypeOK
    <3> QED BY <1>1, <1>2, <3>1 DEF DkTypeOK
  <2>5. BootInv' /\ BlocksInv' /\ DkLockInv' BY <1>1, <1>3, <2>3, NobodyMoves DEF DkInv
  <2>6. OnTurn(t, c)'
    <3>1. Stored(t)' = Stored(t) /\ (Selected(t, c)' <=> Selected(t, c)) BY <1>1 DEF Stored, Selected
    <3>2. Completed(c)' BY <1>1, <2>3 DEF Completed
    <3>3. ~NotYet(c) BY <1>1 DEF NotYet
    <3>4. CASE req[t].op # "write"
      <4>1. TakingIn(t, c) BY <1>5, <2>1, <3>4 DEF OnTurn
      <4>2. req[t].at = "wait" BY <2>1, <3>3, <4>1 DEF TakingIn
      <4>3. TakingIn(t, c)' BY <1>1, <2>1, <3>1, <3>2, <4>1, <4>2 DEF TakingIn
      <4> QED BY <1>1, <1>5, <2>1, <2>3, <3>1, <3>4, <4>2, <4>3 DEF OnTurn
    <3>5. CASE req[t].op = "write" /\ req[t].at = "busy"
      <4>1. GivingOut(t, c)' BY <1>1, <1>5, <3>2, <3>3, <3>5 DEF OnTurn, GivingOut
      <4> QED BY <1>1, <1>5, <2>1, <2>3, <3>1, <3>5, <4>1 DEF OnTurn
    <3>6. CASE req[t].op = "write" /\ req[t].at = "wait"
      <4>1. Storing(t, c)' BY <1>1, <1>5, <2>1, <3>1, <3>2, <3>6 DEF OnTurn, Storing
      <4> QED BY <1>1, <1>5, <2>1, <2>3, <3>1, <3>6, <4>1 DEF OnTurn
    <3> QED BY <2>1, <3>4, <3>5, <3>6
  <2>7. Using(t, c)' /\ \A e \in Channels \ {c} : ~Using(t, e) /\ ~Using(t, e)' BY <1>1, <1>4 DEF Using
  <2>8. ChannelInv' BY <1>1, <1>2, <1>3, <1>6, <2>6, <2>7, OnChannel DEF DkInv
  <2> QED BY <2>4, <2>5, <2>8 DEF DkInv
<1> QED BY <1>7, <1>8

NobodyPanics == \A t \in DkThreads : ~At(t, "panic")

\* The user of a busy channel, and what it has asked for.
Asked(t, c) ==
  \/ req[t].op \in {"read", "identify"} /\ hw[c].cmd = req[t].op /\ req[t].at = "wait" /\ ~hw[c].drq
  \/ req[t].op = "write" /\ hw[c].cmd = "write" /\ req[t].at = "busy" /\ ~hw[c].drq
  \/ req[t].op = "write" /\ hw[c].cmd = "store" /\ req[t].at = "wait" /\ ~hw[c].drq /\ hw[c].data = req[t].buf
Alone(t, c) ==
  /\ Using(t, c) /\ \A u \in DkThreads \ {t} : ~Using(u, c)
  /\ \A e \in Channels \ {c} : ~Using(t, e)
  /\ req[t].disk \in Dev /\ req[t].disk = <<c, req[t].disk[2]>>
LEMMA UserAlone ==
  ASSUME DkInv, NEW c \in Channels, NEW t \in DkThreads, Using(t, c)
  PROVE  Alone(t, c) /\ OnTurn(t, c)
<1>1. OnTurn(t, c) BY DEF DkInv, ChannelInv, ChannelOK
<1>2. \A u \in DkThreads \ {t} : ~Using(u, c) BY UserOnly
<1>3. \A e \in Channels \ {c} : ~Using(t, e) BY DEF Using
<1>4. req[t].disk \in Dev /\ req[t].disk = <<c, req[t].disk[2]>> BY DkTypes DEF DkInv, Using
<1> QED BY <1>1, <1>2, <1>3, <1>4 DEF Alone
LEMMA BusyUser ==
  ASSUME DkInv, NobodyPanics, NEW c \in Channels, hw[c].bsy
  PROVE  \E t \in DkThreads : /\ Alone(t, c) /\ Selected(t, c) /\ chan[c].expecting /\ NotYet(c) /\ Asked(t, c)
<1>1. ~Quiet(c) BY DEF Quiet
<1>2. PICK t \in DkThreads : Using(t, c) BY <1>1 DEF DkInv, ChannelInv, ChannelOK
<1>3. Alone(t, c) /\ OnTurn(t, c) BY <1>2, UserAlone
<1>4. req[t].at \in {"wait", "busy"}
  <2>1. req[t].at # "panic" BY DEF NobodyPanics, At
  <2> QED BY <1>1, <1>2, <1>3, <2>1 DEF OnTurn, Using, InUse
<1>5. Selected(t, c) /\ chan[c].expecting BY <1>3, <1>4 DEF OnTurn
<1>6. req[t].op \in {"identify", "read", "write"}
  <2>1. req[t].op # None BY <1>4 DEF DkInv, DkLockInv, InUse
  <2> QED BY <2>1, DkTypes DEF DkInv, ReqType
<1>7. CASE req[t].op # "write"
  <2>1. TakingIn(t, c) BY <1>3, <1>4, <1>7 DEF OnTurn
  <2> QED BY <1>3, <1>5, <1>6, <1>7, <2>1 DEF TakingIn, Asked
<1>8. CASE req[t].op = "write" /\ req[t].at = "busy"
  <2>1. GivingOut(t, c) BY <1>3, <1>8 DEF OnTurn
  <2> QED BY <1>3, <1>5, <1>8, <2>1 DEF GivingOut, Asked
<1>9. CASE req[t].op = "write" /\ req[t].at = "wait"
  <2>1. Storing(t, c) BY <1>3, <1>9 DEF OnTurn
  <2> QED BY <1>3, <1>5, <1>9, <2>1 DEF Storing, Asked
<1> QED BY <1>4, <1>7, <1>8, <1>9

LEMMA SectorOnDisk ==
  ASSUME DkInv, NEW t \in DkThreads, req[t].at \in InUse, req[t].op # "identify"
  PROVE  req[t].sec \in 0 .. Sectors - 1 /\ req[t].disk \in Dev /\ Stored(t) \in DkData
<1>1. req[t].sec < Sectors /\ req[t].sec \in Nat /\ Sectors \in Nat /\ req[t].disk \in Dev
  BY DkTypes, DkConsts DEF DkInv, DkLockInv, ReqType
<1>2. req[t].sec \in 0 .. Sectors - 1 BY <1>1
<1>3. media[req[t].disk] \in [0 .. Sectors - 1 -> DkData] BY <1>1 DEF DkInv, DkTypeOK
<1> QED BY <1>1, <1>2, <1>3 DEF Stored

\* What the disk does to a channel in use: it keeps everyone else's.
LEMMA DiskSteps ==
  ASSUME DkInv, NEW c \in Channels, NEW t \in DkThreads, Alone(t, c), NEW h \in HwType,
         hw' = [hw EXCEPT ![c] = h], irq' \in {irq, irq \cup {c}}, UNCHANGED <<chan, is_ata, all_blocks, req>>,
         media' \in [Dev -> [0 .. Sectors - 1 -> DkData]],
         \A e \in Channels \ {c}, i \in {0, 1} : media'[<<e, i>>] = media[<<e, i>>],
         OnTurn(t, c)'
  PROVE  DkInv'
<1>1. DkTypeOK' BY DEF DkInv, DkTypeOK
<1>2. BootInv' /\ BlocksInv' /\ DkLockInv' BY NobodyMoves DEF DkInv
<1>3. Using(t, c)' /\ \A e \in Channels \ {c} : ~Using(t, e) /\ ~Using(t, e)' BY DEF Using, Alone
<1>4. \A e \in Channels \ {c} : /\ chan'[e] = chan[e] /\ hw'[e] = hw[e] /\ (e \in irq' <=> e \in irq)
                                /\ \A i \in {0, 1} : media'[<<e, i>>] = media[<<e, i>>]
  BY DEF DkInv, DkTypeOK
<1>5. \A u \in DkThreads \ {t} : ~Using(u, c) /\ req'[u] = req[u] BY DEF Alone
<1>6. ChannelInv' BY <1>3, <1>4, <1>5, OnChannel DEF DkInv
<1> QED BY <1>1, <1>2, <1>6 DEF DkInv

LEMMA DkOffers == ASSUME DkInv, NobodyPanics, NEW c \in Channels, DiskOffers(c) PROVE DkInv'
<1>1. /\ hw[c].bsy /\ hw[c].cmd \in {"read", "identify"} /\ irq' = irq \cup {c}
      /\ UNCHANGED <<chan, media, is_ata, all_blocks, req>>
  BY DEF DiskOffers
<1>2. DkTypeOK /\ hw[c] \in HwType BY DkTypes DEF DkInv
<1>3. PICK t \in DkThreads : /\ Alone(t, c) /\ Selected(t, c) /\ chan[c].expecting /\ NotYet(c) /\ Asked(t, c)
  BY <1>1, BusyUser
<1>4. req[t].op # "write" /\ hw[c].cmd = req[t].op /\ req[t].at = "wait" BY <1>1, <1>3 DEF Asked
<1> DEFINE x == IF hw[c].cmd = "read" THEN media[<<c, hw[c].dev>>][hw[c].sec] ELSE 0
           h == [hw[c] EXCEPT !.bsy = FALSE, !.drq = TRUE, !.data = x]
<1>5. req[t].op = "read" => x = Stored(t) /\ x \in DkData
  <2>1. SUFFICES ASSUME req[t].op = "read" PROVE x = Stored(t) /\ x \in DkData OBVIOUS
  <2>2. Stored(t) \in DkData BY <1>4, <2>1, SectorOnDisk DEF InUse
  <2>3. x = media[req[t].disk][req[t].sec] BY <1>3, <1>4, <2>1 DEF Selected, Alone
  <2> QED BY <2>2, <2>3 DEF Stored
<1>6. x \in DkData
  <2>1. CASE req[t].op = "read" BY <1>5, <2>1
  <2>2. CASE req[t].op # "read" BY <1>4, <2>2 DEF DkData
  <2> QED BY <2>1, <2>2
<1> HIDE DEF x
<1>7. /\ h \in HwType /\ ~h.bsy /\ h.drq /\ h.data = x
      /\ h.dev = hw[c].dev /\ h.sec = hw[c].sec /\ h.cmd = hw[c].cmd
  <2> DEFINE g == hw[c]
  <2>1. g \in HwType BY <1>2
  <2> HIDE DEF g
  <2>2. LET k == [g EXCEPT !.bsy = FALSE, !.drq = TRUE, !.data = x]
        IN k \in HwType /\ ~k.bsy /\ k.drq /\ k.data = x /\ k.dev = g.dev /\ k.sec = g.sec /\ k.cmd = g.cmd
    BY <2>1, <1>6 DEF HwType
  <2> QED BY <2>2 DEF g
<1>8. hw' = [hw EXCEPT ![c] = h] BY <1>2 DEF DiskOffers, DkTypeOK, x
<1> HIDE DEF h
<1>9. hw'[c] = h BY <1>2, <1>8 DEF DkTypeOK
<1>10. OnTurn(t, c)'
  <2>1. Stored(t)' = Stored(t) /\ Selected(t, c)' BY <1>1, <1>3, <1>7, <1>9 DEF Stored, Selected
  <2>2. Completed(c)' BY <1>1, <1>3 DEF Completed, NotYet
  <2>3. TakingIn(t, c)' BY <1>1, <1>4, <1>5, <1>7, <1>9, <2>1, <2>2 DEF TakingIn
  <2> QED BY <1>1, <1>3, <1>4, <2>1, <2>3 DEF OnTurn
<1> QED BY <1>1, <1>2, <1>3, <1>7, <1>8, <1>10, DiskSteps DEF DkTypeOK

LEMMA DkAsks == ASSUME DkInv, NobodyPanics, NEW c \in Channels, DiskAsks(c) PROVE DkInv'
<1>1. hw[c].bsy /\ hw[c].cmd = "write" /\ UNCHANGED <<chan, irq, media, is_ata, all_blocks, req>>
  BY DEF DiskAsks
<1>2. DkTypeOK /\ hw[c] \in HwType BY DkTypes DEF DkInv
<1>3. PICK t \in DkThreads : /\ Alone(t, c) /\ Selected(t, c) /\ chan[c].expecting /\ NotYet(c) /\ Asked(t, c)
  BY <1>1, BusyUser
<1>4. req[t].op = "write" /\ req[t].at = "busy" BY <1>1, <1>3 DEF Asked
<1> DEFINE h == [hw[c] EXCEPT !.bsy = FALSE, !.drq = TRUE, !.cmd = "store"]
<1>5. /\ h \in HwType /\ ~h.bsy /\ h.drq /\ h.cmd = "store" /\ h.data = hw[c].data
      /\ h.dev = hw[c].dev /\ h.sec = hw[c].sec
  <2> DEFINE g == hw[c]
  <2>1. g \in HwType BY <1>2
  <2> HIDE DEF g
  <2>2. LET k == [g EXCEPT !.bsy = FALSE, !.drq = TRUE, !.cmd = "store"]
        IN k \in HwType /\ ~k.bsy /\ k.drq /\ k.cmd = "store" /\ k.data = g.data /\ k.dev = g.dev /\ k.sec = g.sec
    BY <2>1 DEF HwType, None
  <2> QED BY <2>2 DEF g
<1>8. hw' = [hw EXCEPT ![c] = h] BY <1>2 DEF DiskAsks, DkTypeOK
<1> HIDE DEF h
<1>9. hw'[c] = h BY <1>2, <1>8 DEF DkTypeOK
<1>10. OnTurn(t, c)'
  <2>1. GivingOut(t, c)' BY <1>1, <1>3, <1>5, <1>9 DEF GivingOut, NotYet
  <2>2. Selected(t, c)' BY <1>1, <1>3, <1>5, <1>9 DEF Selected
  <2> QED BY <1>1, <1>3, <1>4, <2>1, <2>2 DEF OnTurn
<1> QED BY <1>1, <1>2, <1>3, <1>5, <1>8, <1>10, DiskSteps DEF DkTypeOK

LEMMA DkFails == ASSUME DkInv, NobodyPanics, NEW c \in Channels, DiskFails(c) PROVE DkInv'
<1>1. /\ hw[c].bsy /\ hw[c].cmd \in {"read", "identify", "write"} /\ irq' = irq \cup {c}
      /\ UNCHANGED <<chan, media, is_ata, all_blocks, req>>
  BY DEF DiskFails
<1>2. DkTypeOK /\ hw[c] \in HwType BY DkTypes DEF DkInv
<1>3. PICK t \in DkThreads : /\ Alone(t, c) /\ Selected(t, c) /\ chan[c].expecting /\ NotYet(c) /\ Asked(t, c)
  BY <1>1, BusyUser
<1>4. ~hw[c].drq BY <1>3 DEF Asked
<1>5. req[t].at = IF req[t].op = "write" THEN "busy" ELSE "wait" BY <1>1, <1>3 DEF Asked
<1> DEFINE h == [hw[c] EXCEPT !.bsy = FALSE, !.cmd = None]
<1>6. /\ h \in HwType /\ ~h.bsy /\ ~h.drq
      /\ h.dev = hw[c].dev /\ h.sec = hw[c].sec
  <2> DEFINE g == hw[c]
  <2>1. g \in HwType /\ ~g.drq BY <1>2, <1>4
  <2> HIDE DEF g
  <2>2. LET k == [g EXCEPT !.bsy = FALSE, !.cmd = None]
        IN k \in HwType /\ ~k.bsy /\ ~k.drq /\ k.dev = g.dev /\ k.sec = g.sec
    BY <2>1 DEF HwType, None
  <2> QED BY <2>2 DEF g
<1>9. hw' = [hw EXCEPT ![c] = h] BY <1>2 DEF DiskFails, DkTypeOK
<1> HIDE DEF h
<1>10. hw'[c] = h BY <1>2, <1>9 DEF DkTypeOK
<1>11. OnTurn(t, c)'
  <2>1. Completed(c)' BY <1>1, <1>3 DEF Completed, NotYet
  <2>2. Selected(t, c)' BY <1>1, <1>3, <1>6, <1>10 DEF Selected
  <2>3. CASE req[t].op = "write"
    <3>1. GivingOut(t, c)' BY <1>6, <1>10, <2>1 DEF GivingOut
    <3> QED BY <1>1, <1>3, <1>5, <2>2, <2>3, <3>1 DEF OnTurn
  <2>4. CASE req[t].op # "write"
    <3>1. TakingIn(t, c)' BY <1>1, <1>5, <1>6, <1>10, <2>1, <2>4 DEF TakingIn
    <3> QED BY <1>1, <1>3, <1>5, <2>2, <2>4, <3>1 DEF OnTurn
  <2> QED BY <2>3, <2>4
<1> QED BY <1>1, <1>2, <1>3, <1>6, <1>9, <1>11, DiskSteps DEF DkTypeOK

LEMMA DkStores == ASSUME DkInv, NobodyPanics, NEW c \in Channels, DiskStores(c) PROVE DkInv'
<1>1. hw[c].bsy /\ hw[c].cmd = "store" /\ irq' = irq \cup {c} /\ UNCHANGED <<chan, is_ata, all_blocks, req>>
  BY DEF DiskStores
<1>2. DkTypeOK /\ hw[c] \in HwType BY DkTypes DEF DkInv
<1>3. PICK t \in DkThreads : /\ Alone(t, c) /\ Selected(t, c) /\ chan[c].expecting /\ NotYet(c) /\ Asked(t, c)
  BY <1>1, BusyUser
<1>4. req[t].op = "write" /\ req[t].at = "wait" /\ ~hw[c].drq /\ hw[c].data = req[t].buf BY <1>1, <1>3 DEF Asked
<1> DEFINE h == [hw[c] EXCEPT !.bsy = FALSE, !.cmd = None]
<1>5. /\ h \in HwType /\ ~h.bsy /\ ~h.drq
      /\ h.dev = hw[c].dev /\ h.sec = hw[c].sec
  <2> DEFINE g == hw[c]
  <2>1. g \in HwType /\ ~g.drq BY <1>2, <1>4
  <2> HIDE DEF g
  <2>2. LET k == [g EXCEPT !.bsy = FALSE, !.cmd = None]
        IN k \in HwType /\ ~k.bsy /\ ~k.drq /\ k.dev = g.dev /\ k.sec = g.sec
    BY <2>1 DEF HwType, None
  <2> QED BY <2>2 DEF g
<1>8. hw' = [hw EXCEPT ![c] = h] BY <1>2 DEF DiskStores, DkTypeOK
<1> HIDE DEF h
<1>9. hw'[c] = h BY <1>2, <1>8 DEF DkTypeOK
<1> DEFINE d == req[t].disk
           s == req[t].sec
           v == req[t].buf
<1>10. d \in Dev /\ s \in 0 .. Sectors - 1 /\ v \in DkData /\ d[1] = c
  BY <1>3, <1>4, DkTypes, SectorOnDisk DEF DkInv, ReqType, InUse, Alone
<1>11. media' = [media EXCEPT ![d][s] = v] BY <1>3, <1>4 DEF DiskStores, Selected, Alone
<1> HIDE DEF d, s, v
<1>12. media[d] \in [0 .. Sectors - 1 -> DkData] BY <1>2, <1>10 DEF DkTypeOK
<1>13. media' \in [Dev -> [0 .. Sectors - 1 -> DkData]] /\ media'[d][s] = v BY <1>2, <1>10, <1>11, <1>12 DEF DkTypeOK
<1>14. \A e \in Channels \ {c}, i \in {0, 1} : media'[<<e, i>>] = media[<<e, i>>]
  <2>1. \A e \in Channels \ {c}, i \in {0, 1} : <<e, i>> # d BY <1>10
  <2>2. \A e \in Channels \ {c}, i \in {0, 1} : <<e, i>> \in Dev BY DEF Dev
  <2> QED BY <1>2, <1>11, <2>1, <2>2 DEF DkTypeOK
<1>15. OnTurn(t, c)'
  <2>1. Stored(t)' = req'[t].buf BY <1>1, <1>13 DEF Stored, d, s, v
  <2>2. Completed(c)' BY <1>1, <1>3 DEF Completed, NotYet
  <2>3. Selected(t, c)' BY <1>1, <1>3, <1>5, <1>9 DEF Selected
  <2>4. Storing(t, c)' BY <1>5, <1>9, <2>1, <2>2 DEF Storing
  <2> QED BY <1>1, <1>3, <1>4, <2>3, <2>4 DEF OnTurn
<1> QED BY <1>1, <1>3, <1>5, <1>8, <1>13, <1>14, <1>15, DiskSteps

\* A step of the thread that uses a channel.
Elsewhere(c) ==
  \A e \in Channels \ {c} : chan'[e] = chan[e] /\ hw'[e] = hw[e] /\ (e \in irq' <=> e \in irq)
LEMMA UserSteps ==
  ASSUME DkInv, NEW t \in DkThreads, NEW c \in Channels, Using(t, c), DkTypeOK',
         \A u \in DkThreads \ {t} : req'[u] = req[u],
         req'[t].disk = req[t].disk, req'[t].sec = req[t].sec, req'[t].op = req[t].op,
         req'[t].at \in InUse \/ (req'[t].at = "identified" /\ req[t].op = "identify"),
         Elsewhere(c), chan'[c].lock = chan[c].lock, UNCHANGED <<media, is_ata, all_blocks>>,
         req'[t].at \in InUse => OnTurn(t, c)', req'[t].at \notin InUse => Quiet(c)'
  PROVE  DkInv'
<1>1. Alone(t, c) BY UserAlone
<1>2. \A e \in Channels : chan'[e].lock = chan[e].lock BY DEF Elsewhere
<1>3. BootInv' /\ BlocksInv' /\ DkLockInv' BY <1>2, UserMoves DEF DkInv, Using
<1>4. Using(t, c)' <=> req'[t].at \in InUse BY DEF Using
<1>5. \A e \in Channels \ {c} : ~Using(t, e) /\ ~Using(t, e)' BY DEF Using
<1>6. \A e \in Channels \ {c} : /\ chan'[e] = chan[e] /\ hw'[e] = hw[e] /\ (e \in irq' <=> e \in irq)
                                /\ \A i \in {0, 1} : media'[<<e, i>>] = media[<<e, i>>]
                                /\ ~Using(t, e) /\ ~Using(t, e)'
  BY <1>5 DEF Elsewhere
<1>7. \A u \in DkThreads \ {t} : ~Using(u, c) /\ req'[u] = req[u] BY <1>1 DEF Alone
<1>8. ChannelInv' BY <1>4, <1>6, <1>7, OnChannel DEF DkInv
<1> QED BY <1>3, <1>8 DEF DkInv

\* A request that moves on, the rest of it kept.
LEMMA Goes ==
  ASSUME DkTypeOK, NEW t \in DkThreads, NEW s \in {"idle", "lock"} \cup BootSteps \cup InUse, DkGo(t, s)
  PROVE  /\ req' \in [DkThreads -> ReqType] /\ \A u \in DkThreads \ {t} : req'[u] = req[u]
         /\ req'[t].at = s /\ req'[t].disk = req[t].disk /\ req'[t].sec = req[t].sec
         /\ req'[t].op = req[t].op /\ req'[t].buf = req[t].buf
<1> DEFINE r == req[t]
           w == [r EXCEPT !.at = s]
<1>1. r \in ReqType BY DkTypes
<1>2. req' = [req EXCEPT ![t] = w] BY DEF DkGo, DkTypeOK
<1> HIDE DEF r
<1>3. w \in ReqType /\ w.at = s /\ w.disk = r.disk /\ w.sec = r.sec /\ w.op = r.op /\ w.buf = r.buf
  BY <1>1 DEF ReqType
<1> HIDE DEF w
<1>4. req' \in [DkThreads -> ReqType] /\ req'[t] = w /\ \A u \in DkThreads \ {t} : req'[u] = req[u]
  BY <1>2, <1>3 DEF DkTypeOK
<1> QED BY <1>3, <1>4 DEF r

LEMMA DkSelects == ASSUME DkInv, NEW t \in DkThreads, select_sector(t) PROVE DkInv'
<1>0. PICK c \in Channels : c = Chan(t) BY DkTypes DEF DkInv, Chan
<1> DEFINE s == req[t].sec
           n == req[t].disk[2]
<1>1. DkTypeOK /\ c \in Channels /\ hw[c] \in HwType /\ s \in Nat /\ n \in {0, 1}
  BY <1>0, DkTypes DEF DkInv, Chan, ReqType, Dev
<1>2. At(t, "select") /\ irq' = irq \ {c} /\ DkGo(t, "issue") /\ UNCHANGED <<chan, media, is_ata, all_blocks>>
  BY <1>0 DEF select_sector
<1>3. Using(t, c) /\ Alone(t, c) /\ OnTurn(t, c) BY <1>0, <1>1, <1>2, UserAlone DEF Using, At, Chan, InUse
<1>4. Quiet(c) BY <1>2, <1>3 DEF OnTurn, At
<1> DEFINE h == [hw[c] EXCEPT !.dev = n, !.sec = s]
<1>5. h \in HwType /\ h.dev = n /\ h.sec = s /\ (h.bsy <=> hw[c].bsy) /\ (h.drq <=> hw[c].drq)
  <2> DEFINE g == hw[c]
  <2>1. g \in HwType BY <1>1
  <2> HIDE DEF g, s, n
  <2>2. LET k == [g EXCEPT !.dev = n, !.sec = s]
        IN k \in HwType /\ k.dev = n /\ k.sec = s /\ (k.bsy <=> g.bsy) /\ (k.drq <=> g.drq)
    BY <1>1, <2>1 DEF HwType
  <2> QED BY <2>2 DEF g
<1>6. hw' = [hw EXCEPT ![c] = h]
  <2>1. hw' = [hw EXCEPT ![c] = [[hw[c] EXCEPT !.dev = n] EXCEPT !.sec = s]]
    BY <1>0 DEF select_sector, select_device, Chan
  <2> HIDE DEF n, s
  <2>2. \A g \in HwType : [[g EXCEPT !.dev = n] EXCEPT !.sec = s] = [g EXCEPT !.dev = n, !.sec = s] OBVIOUS
  <2> QED BY <1>1, <2>1, <2>2
<1> HIDE DEF h
<1>7. hw' \in [Channels -> HwType] /\ hw'[c] = h /\ \A e \in Channels \ {c} : hw'[e] = hw[e]
  BY <1>1, <1>5, <1>6 DEF DkTypeOK
<1>8. /\ req' \in [DkThreads -> ReqType] /\ \A u \in DkThreads \ {t} : req'[u] = req[u]
      /\ req'[t].at = "issue" /\ req'[t].disk = req[t].disk /\ req'[t].sec = req[t].sec
      /\ req'[t].op = req[t].op /\ req'[t].buf = req[t].buf
  BY <1>1, <1>2, Goes DEF InUse
<1>9. Quiet(c)' BY <1>2, <1>4, <1>5, <1>7 DEF Quiet
<1>10. OnTurn(t, c)' BY <1>5, <1>7, <1>8, <1>9 DEF OnTurn, Selected
<1>11. DkTypeOK' BY <1>1, <1>2, <1>7, <1>8 DEF DkTypeOK
<1>12. Elsewhere(c) BY <1>2, <1>7 DEF Elsewhere
<1> QED BY <1>1, <1>2, <1>3, <1>8, <1>10, <1>11, <1>12, UserSteps DEF InUse

LEMMA DkIssues == ASSUME DkInv, NEW t \in DkThreads, issue_pio_command(t) PROVE DkInv'
<1>0. PICK c \in Channels : c = Chan(t) BY DkTypes DEF DkInv, Chan
<1> DEFINE o == req[t].op
           s == IF o = "write" THEN "busy" ELSE "wait"
<1>1. DkTypeOK /\ c \in Channels /\ hw[c] \in HwType /\ chan[c] \in ChanType /\ o \in {None, "identify", "read", "write"}
  BY <1>0, DkTypes DEF DkInv, Chan, ReqType
<1>2. At(t, "issue") /\ DkGo(t, s) /\ UNCHANGED <<irq, media, is_ata, all_blocks>>
  BY DEF issue_pio_command
<1>3. Using(t, c) /\ Alone(t, c) /\ OnTurn(t, c) BY <1>0, <1>1, <1>2, UserAlone DEF Using, At, Chan, InUse
<1>4. Quiet(c) /\ Selected(t, c) BY <1>2, <1>3 DEF OnTurn, At
<1> DEFINE h == [hw[c] EXCEPT !.cmd = o, !.bsy = TRUE]
           k == [chan[c] EXCEPT !.expecting = TRUE]
<1>5. h \in HwType /\ h.dev = hw[c].dev /\ h.sec = hw[c].sec /\ h.cmd = o /\ h.bsy /\ (h.drq <=> hw[c].drq)
  <2> DEFINE g == hw[c]
  <2>1. g \in HwType BY <1>1
  <2> HIDE DEF g, o
  <2>2. LET w == [g EXCEPT !.cmd = o, !.bsy = TRUE]
        IN w \in HwType /\ w.dev = g.dev /\ w.sec = g.sec /\ w.cmd = o /\ w.bsy /\ (w.drq <=> g.drq)
    BY <1>1, <2>1 DEF HwType
  <2> QED BY <2>2 DEF g
<1>6. k \in ChanType /\ k.lock = chan[c].lock /\ k.sema = chan[c].sema /\ k.expecting
  <2> DEFINE g == chan[c]
  <2>1. g \in ChanType BY <1>1
  <2> HIDE DEF g
  <2>2. LET w == [g EXCEPT !.expecting = TRUE]
        IN w \in ChanType /\ w.lock = g.lock /\ w.sema = g.sema /\ w.expecting
    BY <2>1 DEF ChanType
  <2> QED BY <2>2 DEF g
<1>7. hw' = [hw EXCEPT ![c] = h] /\ chan' = [chan EXCEPT ![c] = k] BY <1>0, <1>1 DEF issue_pio_command, Chan, DkTypeOK
<1> HIDE DEF h, k
<1>8. /\ hw' \in [Channels -> HwType] /\ hw'[c] = h /\ \A e \in Channels \ {c} : hw'[e] = hw[e]
      /\ chan' \in [Channels -> ChanType] /\ chan'[c] = k /\ \A e \in Channels \ {c} : chan'[e] = chan[e]
  BY <1>1, <1>5, <1>6, <1>7 DEF DkTypeOK
<1>9. s \in {"busy", "wait"} OBVIOUS
<1> HIDE DEF s
<1>10. /\ req' \in [DkThreads -> ReqType] /\ \A u \in DkThreads \ {t} : req'[u] = req[u]
       /\ req'[t].at = s /\ req'[t].disk = req[t].disk /\ req'[t].sec = req[t].sec
       /\ req'[t].op = req[t].op /\ req'[t].buf = req[t].buf
  BY <1>1, <1>2, <1>9, Goes DEF InUse
<1>11. NotYet(c)' /\ Selected(t, c)' BY <1>2, <1>4, <1>5, <1>6, <1>8, <1>10 DEF Quiet, NotYet, Selected
<1>12. hw'[c].bsy /\ ~hw'[c].drq /\ hw'[c].cmd = o /\ chan'[c].expecting BY <1>4, <1>5, <1>6, <1>8 DEF Quiet
<1>13. OnTurn(t, c)'
  <2>1. CASE o = "write"
    <3>1. req'[t].at = "busy" BY <1>10, <2>1 DEF s
    <3>2. GivingOut(t, c)' BY <1>11, <1>12, <2>1 DEF GivingOut
    <3> QED BY <1>10, <1>11, <1>12, <2>1, <3>1, <3>2 DEF OnTurn
  <2>2. CASE o # "write"
    <3>1. req'[t].at = "wait" BY <1>10, <2>2 DEF s
    <3>2. TakingIn(t, c)' BY <1>10, <1>11, <1>12, <2>2, <3>1 DEF TakingIn
    <3> QED BY <1>10, <1>11, <1>12, <2>2, <3>1, <3>2 DEF OnTurn
  <2> QED BY <2>1, <2>2
<1>14. DkTypeOK' BY <1>1, <1>2, <1>8, <1>10 DEF DkTypeOK
<1>15. Elsewhere(c) BY <1>2, <1>8 DEF Elsewhere
<1> QED BY <1>1, <1>2, <1>3, <1>6, <1>8, <1>9, <1>10, <1>13, <1>14, <1>15, UserSteps DEF InUse

LEMMA DkAwakes == ASSUME DkInv, NEW t \in DkThreads, completion_wait(t) PROVE DkInv'
<1>0. PICK c \in Channels : c = Chan(t) BY DkTypes DEF DkInv, Chan
<1> DEFINE s == IF req[t].op = "write" THEN "release" ELSE "busy"
<1>1. DkTypeOK /\ c \in Channels /\ hw[c] \in HwType /\ chan[c] \in ChanType
  BY <1>0, DkTypes DEF DkInv, Chan, ReqType
<1>2. At(t, "wait") /\ DkGo(t, s) /\ UNCHANGED <<hw, irq, media, is_ata, all_blocks>> /\ chan[c].sema > 0
  BY <1>0 DEF completion_wait
<1>3. Using(t, c) /\ Alone(t, c) /\ OnTurn(t, c) BY <1>0, <1>1, <1>2, UserAlone DEF Using, At, Chan, InUse
<1>4. Selected(t, c) /\ chan[c].expecting BY <1>2, <1>3 DEF OnTurn, At
<1>5. /\ chan[c].sema = 1 /\ c \notin irq /\ ~hw[c].bsy
      /\ (req[t].op # "write" => TakingIn(t, c)) /\ (req[t].op = "write" => Storing(t, c))
  <2>1. CASE req[t].op = "write"
    <3>1. Storing(t, c) BY <1>2, <1>3, <2>1 DEF OnTurn, At
    <3>2. ~NotYet(c) BY <1>2 DEF NotYet
    <3>3. ~hw[c].bsy /\ Completed(c) BY <3>1, <3>2 DEF Storing
    <3> QED BY <1>2, <2>1, <3>1, <3>3 DEF Completed
  <2>2. CASE req[t].op # "write"
    <3>1. TakingIn(t, c) BY <1>2, <1>3, <2>2 DEF OnTurn, At
    <3>2. ~NotYet(c) BY <1>2 DEF NotYet
    <3>3. ~hw[c].bsy /\ Completed(c) BY <1>2, <3>1, <3>2 DEF TakingIn, At
    <3> QED BY <1>2, <2>2, <3>1, <3>3 DEF Completed
  <2> QED BY <2>1, <2>2
<1> DEFINE k == [chan[c] EXCEPT !.sema = 0]
<1>6. k \in ChanType /\ k.lock = chan[c].lock /\ k.sema = 0 /\ (k.expecting <=> chan[c].expecting)
  <2> DEFINE g == chan[c]
  <2>1. g \in ChanType BY <1>1
  <2> HIDE DEF g
  <2>2. LET w == [g EXCEPT !.sema = 0]
        IN w \in ChanType /\ w.lock = g.lock /\ w.sema = 0 /\ (w.expecting <=> g.expecting)
    BY <2>1 DEF ChanType
  <2> QED BY <2>2 DEF g
<1>7. chan' = [chan EXCEPT ![c] = k] BY <1>0, <1>1, <1>5 DEF completion_wait, DkTypeOK
<1> HIDE DEF k
<1>8. chan' \in [Channels -> ChanType] /\ chan'[c] = k /\ \A e \in Channels \ {c} : chan'[e] = chan[e]
  BY <1>1, <1>6, <1>7 DEF DkTypeOK
<1>9. s \in {"release", "busy"} OBVIOUS
<1> HIDE DEF s
<1>10. /\ req' \in [DkThreads -> ReqType] /\ \A u \in DkThreads \ {t} : req'[u] = req[u]
       /\ req'[t].at = s /\ req'[t].disk = req[t].disk /\ req'[t].sec = req[t].sec
       /\ req'[t].op = req[t].op /\ req'[t].buf = req[t].buf
  BY <1>1, <1>2, <1>9, Goes DEF InUse
<1>11. Selected(t, c)' /\ Stored(t)' = Stored(t) /\ NotYet(c)' /\ chan'[c].expecting
  BY <1>2, <1>4, <1>5, <1>6, <1>8, <1>10 DEF Selected, Stored, NotYet
<1>12. OnTurn(t, c)'
  <2>1. CASE req[t].op = "write"
    <3>1. req'[t].at = "release" BY <1>10, <2>1 DEF s
    <3>2. Stored(t)' = req'[t].buf /\ ~hw[c].drq BY <1>5, <1>10, <1>11, <2>1 DEF Storing
    <3>3. Quiet(c)' BY <1>2, <1>5, <1>11, <3>2 DEF Quiet, NotYet
    <3> QED BY <1>10, <2>1, <3>1, <3>2, <3>3 DEF OnTurn
  <2>2. CASE req[t].op # "write"
    <3>1. req'[t].at = "busy" BY <1>10, <2>2 DEF s
    <3>2. TakingIn(t, c)' BY <1>2, <1>5, <1>10, <1>11, <2>2, <3>1 DEF TakingIn
    <3> QED BY <1>10, <1>11, <2>2, <3>1, <3>2 DEF OnTurn
  <2> QED BY <2>1, <2>2
<1>13. DkTypeOK' BY <1>1, <1>2, <1>8, <1>10 DEF DkTypeOK
<1>14. Elsewhere(c) BY <1>2, <1>8 DEF Elsewhere
<1> QED BY <1>1, <1>2, <1>3, <1>6, <1>8, <1>9, <1>10, <1>12, <1>13, <1>14, UserSteps DEF InUse

\* A sector comes in.
LEMMA DkTakes ==
  ASSUME DkInv, NEW t \in DkThreads, transfer(t), hw[Chan(t)].drq, req[t].op # "write"
  PROVE  DkInv'
<1>0. PICK c \in Channels : c = Chan(t) BY DkTypes DEF DkInv, Chan
<1> DEFINE s == IF req[t].op = "identify" THEN "identified" ELSE "release"
           x == hw[c].data
<1>1. DkTypeOK /\ hw[c] \in HwType /\ x \in DkData /\ req[t] \in ReqType BY <1>0, DkTypes DEF DkInv, HwType
<1>2. At(t, "busy") /\ ~hw[c].bsy /\ hw[c].drq /\ UNCHANGED <<chan, irq, media, is_ata, all_blocks>>
  BY <1>0 DEF transfer, wait_while_busy
<1>3. Using(t, c) /\ Alone(t, c) /\ OnTurn(t, c) BY <1>0, <1>1, <1>2, UserAlone DEF Using, At, Chan, InUse
<1>4. TakingIn(t, c) /\ NotYet(c) BY <1>2, <1>3 DEF OnTurn, At, TakingIn
<1> DEFINE h == [hw[c] EXCEPT !.drq = FALSE, !.cmd = None]
           r == [req[t] EXCEPT !.buf = x, !.at = s]
<1>5. h \in HwType /\ ~h.drq /\ (h.bsy <=> hw[c].bsy)
  <2> DEFINE g == hw[c]
  <2>1. g \in HwType BY <1>1
  <2> HIDE DEF g
  <2>2. LET w == [g EXCEPT !.drq = FALSE, !.cmd = None] IN w \in HwType /\ ~w.drq /\ (w.bsy <=> g.bsy)
    BY <2>1 DEF HwType, None
  <2> QED BY <2>2 DEF g
<1>6. s \in {"identified", "release"} OBVIOUS
<1>7. r \in ReqType /\ r.at = s /\ r.disk = req[t].disk /\ r.sec = req[t].sec /\ r.op = req[t].op /\ r.buf = x
  <2> DEFINE g == req[t]
  <2>1. g \in ReqType BY <1>1
  <2> HIDE DEF g, s, x
  <2>2. LET w == [g EXCEPT !.buf = x, !.at = s]
        IN w \in ReqType /\ w.at = s /\ w.disk = g.disk /\ w.sec = g.sec /\ w.op = g.op /\ w.buf = x
    BY <1>1, <1>6, <2>1 DEF ReqType, InUse, BootSteps
  <2> QED BY <2>2 DEF g
<1>8. hw' = [hw EXCEPT ![c] = h] /\ req' = [req EXCEPT ![t] = r]
  BY <1>0, <1>1 DEF transfer, DkTypeOK
<1> HIDE DEF h, r
<1>9. /\ hw' \in [Channels -> HwType] /\ hw'[c] = h /\ \A e \in Channels \ {c} : hw'[e] = hw[e]
      /\ req' \in [DkThreads -> ReqType] /\ req'[t] = r /\ \A u \in DkThreads \ {t} : req'[u] = req[u]
  BY <1>1, <1>5, <1>7, <1>8 DEF DkTypeOK
<1>10. Quiet(c)' BY <1>2, <1>4, <1>5, <1>9 DEF Quiet, NotYet
<1>11. req'[t].at \in InUse => OnTurn(t, c)'
  <2>1. SUFFICES ASSUME req'[t].at \in InUse PROVE OnTurn(t, c)' OBVIOUS
  <2>2. req[t].op # "identify" /\ req'[t].at = "release" BY <1>7, <1>9, <2>1 DEF InUse
  <2>3. req[t].op = "read"
    <3>1. req[t].op # None BY <1>2 DEF DkInv, DkLockInv, At, InUse
    <3> QED BY <1>1, <2>2, <3>1 DEF ReqType
  <2>4. x = Stored(t) BY <1>2, <1>4, <2>3 DEF TakingIn
  <2>5. Stored(t)' = req'[t].buf BY <1>2, <1>7, <1>9, <2>4 DEF Stored
  <2> QED BY <1>7, <1>9, <1>10, <2>2, <2>5 DEF OnTurn
<1>12. DkTypeOK' BY <1>1, <1>2, <1>9 DEF DkTypeOK
<1>13. Elsewhere(c) BY <1>2, <1>9 DEF Elsewhere
<1>14. req'[t].at \in InUse \/ (req'[t].at = "identified" /\ req[t].op = "identify") BY <1>7, <1>9 DEF InUse
<1>15. /\ req'[t].disk = req[t].disk /\ req'[t].sec = req[t].sec /\ req'[t].op = req[t].op
       /\ chan'[c].lock = chan[c].lock
  BY <1>2, <1>7, <1>9
<1> QED BY <1>2, <1>3, <1>9, <1>10, <1>11, <1>12, <1>13, <1>14, <1>15, UserSteps

\* A sector goes out.
LEMMA DkGives ==
  ASSUME DkInv, NEW t \in DkThreads, transfer(t), hw[Chan(t)].drq, req[t].op = "write"
  PROVE  DkInv'
<1>0. PICK c \in Channels : c = Chan(t) BY DkTypes DEF DkInv, Chan
<1> DEFINE x == req[t].buf
<1>1. DkTypeOK /\ hw[c] \in HwType /\ x \in DkData BY <1>0, DkTypes DEF DkInv, ReqType
<1>2. At(t, "busy") /\ DkGo(t, "wait") /\ hw[c].drq /\ UNCHANGED <<chan, irq, media, is_ata, all_blocks>>
  BY <1>0 DEF transfer
<1>3. Using(t, c) /\ Alone(t, c) /\ OnTurn(t, c) BY <1>0, <1>1, <1>2, UserAlone DEF Using, At, Chan, InUse
<1>4. GivingOut(t, c) /\ Selected(t, c) /\ chan[c].expecting BY <1>2, <1>3 DEF OnTurn, At
<1> DEFINE h == [hw[c] EXCEPT !.drq = FALSE, !.bsy = TRUE, !.data = x]
<1>5. h \in HwType /\ ~h.drq /\ h.bsy /\ h.data = x /\ h.cmd = hw[c].cmd /\ h.dev = hw[c].dev /\ h.sec = hw[c].sec
  <2> DEFINE g == hw[c]
  <2>1. g \in HwType BY <1>1
  <2> HIDE DEF g, x
  <2>2. LET w == [g EXCEPT !.drq = FALSE, !.bsy = TRUE, !.data = x]
        IN w \in HwType /\ ~w.drq /\ w.bsy /\ w.data = x /\ w.cmd = g.cmd /\ w.dev = g.dev /\ w.sec = g.sec
    BY <1>1, <2>1 DEF HwType
  <2> QED BY <2>2 DEF g
<1>6. hw' = [hw EXCEPT ![c] = h] BY <1>0, <1>1 DEF transfer, DkTypeOK
<1> HIDE DEF h
<1>7. hw' \in [Channels -> HwType] /\ hw'[c] = h /\ \A e \in Channels \ {c} : hw'[e] = hw[e]
  BY <1>1, <1>5, <1>6 DEF DkTypeOK
<1>8. /\ req' \in [DkThreads -> ReqType] /\ \A u \in DkThreads \ {t} : req'[u] = req[u]
      /\ req'[t].at = "wait" /\ req'[t].disk = req[t].disk /\ req'[t].sec = req[t].sec
      /\ req'[t].op = req[t].op /\ req'[t].buf = req[t].buf
  BY <1>1, <1>2, Goes DEF InUse
<1>9. NotYet(c)' /\ hw'[c].cmd = "store" BY <1>2, <1>4, <1>5, <1>7 DEF GivingOut, NotYet
<1>10. OnTurn(t, c)'
  <2>1. Storing(t, c)' BY <1>5, <1>7, <1>8, <1>9 DEF Storing
  <2>2. Selected(t, c)' BY <1>4, <1>5, <1>7, <1>8 DEF Selected
  <2>3. chan'[c].expecting BY <1>2, <1>4
  <2> QED BY <1>8, <2>1, <2>2, <2>3 DEF OnTurn
<1>11. DkTypeOK' BY <1>1, <1>2, <1>7, <1>8 DEF DkTypeOK
<1>12. Elsewhere(c) BY <1>2, <1>7 DEF Elsewhere
<1> QED BY <1>2, <1>3, <1>8, <1>10, <1>11, <1>12, UserSteps DEF InUse

LEMMA DkPanics ==
  ASSUME DkInv, NEW t \in DkThreads, transfer(t), ~hw[Chan(t)].drq, req[t].op # "identify"
  PROVE  DkInv'
<1>0. PICK c \in Channels : c = Chan(t) BY DkTypes DEF DkInv, Chan
<1>1. DkTypeOK BY DEF DkInv
<1>2. At(t, "busy") /\ DkGo(t, "panic") /\ UNCHANGED <<hw, chan, irq, media, is_ata, all_blocks>>
  BY <1>0 DEF transfer
<1>3. Using(t, c) BY <1>0, <1>2 DEF Using, At, Chan, InUse
<1>4. /\ req' \in [DkThreads -> ReqType] /\ \A u \in DkThreads \ {t} : req'[u] = req[u]
      /\ req'[t].at = "panic" /\ req'[t].disk = req[t].disk /\ req'[t].sec = req[t].sec
      /\ req'[t].op = req[t].op /\ req'[t].buf = req[t].buf
  BY <1>1, <1>2, Goes DEF InUse
<1>5. OnTurn(t, c)' BY <1>4 DEF OnTurn
<1>6. DkTypeOK' BY <1>1, <1>2, <1>4 DEF DkTypeOK
<1>7. Elsewhere(c) BY <1>2 DEF Elsewhere
<1> QED BY <1>2, <1>3, <1>4, <1>5, <1>6, <1>7, UserSteps DEF InUse

\* The initial thread goes on to the next device.
LEMMA NextIs ==
  ASSUME NEW d \in Dev
  PROVE  /\ NextDevice(d) \in ReqType /\ NextDevice(d).op = None /\ NextDevice(d).at \in {"idle", "init", "identify"}
         /\ NextDevice(d).at = "init" => NextDevice(d).disk[2] = 0
         /\ LookedAt(NextDevice(d)) = Earlier(d) \cup {d}
<1>1. PICK top \in Channels : Channels = 0 .. top BY DkAssumption
<1>2. d[1] \in Channels /\ d[2] \in {0, 1} /\ d = <<d[1], d[2]>> /\ Channels \subseteq Nat /\ 0 \in DkData
  BY DkConsts DEF Dev, DkData
<1>3. \A e \in Dev : e[1] \in Nat /\ e[1] <= top /\ e[2] \in {0, 1} /\ e = <<e[1], e[2]>> BY <1>1, <1>2 DEF Dev
<1> DEFINE n == NextDevice(d)
<1>4. \A e \in Dev : (e[1] = d[1] /\ e[2] = d[2]) <=> e = d BY <1>2, <1>3
<1>5. CASE d[2] = 0
  <2> DEFINE f == <<d[1], 1>>
  <2>1. n = [at |-> "identify", disk |-> f, sec |-> 0, op |-> None, buf |-> 0] BY <1>5 DEF NextDevice, NoReq
  <2>2. f \in Dev /\ f[1] = d[1] /\ f[2] = 1 BY <1>2 DEF Dev
  <2> HIDE DEF f, n
  <2>3. n \in ReqType /\ n.at = "identify" /\ n.op = None /\ n.disk = f BY <1>2, <2>1, <2>2 DEF ReqType, BootSteps
  <2>4. \A e \in Dev : (e[1] < f[1] \/ (e[1] = f[1] /\ e[2] < f[2])) <=> (e[1] < d[1] \/ (e[1] = d[1] /\ e[2] < d[2]) \/ e = d)
    <3> TAKE e \in Dev
    <3>1. d[1] \in Nat /\ e[1] \in Nat /\ e[2] \in {0, 1} /\ (e = d <=> (e[1] = d[1] /\ e[2] = d[2]))
      BY <1>2, <1>3, <1>4
    <3> DEFINE e1 == e[1] e2 == e[2] d1 == d[1] d2 == d[2] f1 == f[1] f2 == f[2]
    <3>2. d1 \in Nat /\ e1 \in Nat /\ e2 \in {0, 1} /\ (e = d <=> (e1 = d1 /\ e2 = d2)) /\ f1 = d1 /\ f2 = 1 /\ d2 = 0
      BY <1>5, <2>2, <3>1
    <3> HIDE DEF e1, e2, d1, d2, f1, f2
    <3>3. (e1 < f1 \/ (e1 = f1 /\ e2 < f2)) <=> (e1 < d1 \/ (e1 = d1 /\ e2 < d2) \/ e = d) BY <3>2
    <3> QED BY <3>3 DEF e1, e2, d1, d2, f1, f2
  <2>5. LookedAt(n) = Earlier(f) BY <2>3 DEF LookedAt, BootSteps
  <2>6. Earlier(f) = Earlier(d) \cup {d} BY <2>4 DEF Earlier
  <2> QED BY <2>3, <2>5, <2>6 DEF n
<1>6. CASE d[2] = 1 /\ d[1] + 1 \in Channels
  <2> DEFINE f == <<d[1] + 1, 0>>
  <2>1. n = [at |-> "init", disk |-> f, sec |-> 0, op |-> None, buf |-> 0]
    <3>1. n = [NoReq EXCEPT !.at = "init", !.disk = <<d[1] + 1, 0>>] BY <1>6 DEF NextDevice
    <3> HIDE DEF n
    <3>2. n = [NoReq EXCEPT !.at = "init", !.disk = f] BY <3>1
    <3> HIDE DEF f
    <3> QED BY <3>2 DEF NoReq
  <2>2. f \in Dev /\ f[1] = d[1] + 1 /\ f[2] = 0 BY <1>6 DEF Dev
  <2> HIDE DEF f, n
  <2>3. n \in ReqType /\ n.at = "init" /\ n.op = None /\ n.disk = f BY <1>2, <2>1, <2>2 DEF ReqType, BootSteps
  <2>4. \A e \in Dev : (e[1] < f[1] \/ (e[1] = f[1] /\ e[2] < f[2])) <=> (e[1] < d[1] \/ (e[1] = d[1] /\ e[2] < d[2]) \/ e = d)
    <3> TAKE e \in Dev
    <3>1. d[1] \in Nat /\ e[1] \in Nat /\ e[2] \in {0, 1} /\ (e = d <=> (e[1] = d[1] /\ e[2] = d[2]))
      BY <1>2, <1>3, <1>4
    <3> DEFINE e1 == e[1] e2 == e[2] d1 == d[1] d2 == d[2] f1 == f[1] f2 == f[2]
    <3>2. d1 \in Nat /\ e1 \in Nat /\ e2 \in {0, 1} /\ (e = d <=> (e1 = d1 /\ e2 = d2)) /\ f1 = d1 + 1 /\ f2 = 0 /\ d2 = 1
      BY <1>6, <2>2, <3>1
    <3> HIDE DEF e1, e2, d1, d2, f1, f2
    <3>3. (e1 < f1 \/ (e1 = f1 /\ e2 < f2)) <=> (e1 < d1 \/ (e1 = d1 /\ e2 < d2) \/ e = d) BY <3>2
    <3> QED BY <3>3 DEF e1, e2, d1, d2, f1, f2
  <2>5. LookedAt(n) = Earlier(f) BY <2>3 DEF LookedAt, BootSteps
  <2>6. Earlier(f) = Earlier(d) \cup {d} BY <2>4 DEF Earlier
  <2> QED BY <2>2, <2>3, <2>5, <2>6 DEF n
<1>7. CASE d[2] = 1 /\ d[1] + 1 \notin Channels
  <2>1. n = [at |-> "idle", disk |-> <<0, 0>>, sec |-> 0, op |-> None, buf |-> 0] BY <1>7 DEF NextDevice, NoReq
  <2>2. <<0, 0>> \in Dev BY DkConsts DEF Dev
  <2> HIDE DEF n
  <2>3. n \in ReqType /\ n.at = "idle" /\ n.op = None BY <1>2, <2>1, <2>2 DEF ReqType
  <2>4. \A e \in Dev : e[1] < d[1] \/ (e[1] = d[1] /\ e[2] < d[2]) \/ e = d
    <3> TAKE e \in Dev
    <3>1. d[1] \in Nat /\ e[1] \in Nat /\ e[1] <= top /\ e[2] \in {0, 1} /\ (e = d <=> (e[1] = d[1] /\ e[2] = d[2]))
      BY <1>2, <1>3, <1>4
    <3>2. top \in Nat /\ d[1] \in 0 .. top /\ d[1] + 1 \notin 0 .. top BY <1>1, <1>2, <1>7
    <3> DEFINE e1 == e[1] e2 == e[2] d1 == d[1] d2 == d[2]
    <3>3. /\ d1 \in Nat /\ e1 \in Nat /\ e1 <= top /\ e2 \in {0, 1} /\ (e = d <=> (e1 = d1 /\ e2 = d2)) /\ d2 = 1
          /\ top \in Nat /\ d1 \in 0 .. top /\ d1 + 1 \notin 0 .. top
      BY <1>7, <3>1, <3>2
    <3> HIDE DEF e1, e2, d1, d2
    <3>4. e1 < d1 \/ (e1 = d1 /\ e2 < d2) \/ e = d BY <3>3
    <3> QED BY <3>4 DEF e1, e2, d1, d2
  <2>5. LookedAt(n) = Dev BY <2>3 DEF LookedAt, BootSteps, None
  <2>6. Earlier(d) \cup {d} = Dev BY <2>4 DEF Earlier
  <2> QED BY <2>3, <2>5, <2>6 DEF n
<1> QED BY <1>2, <1>5, <1>6, <1>7

\* A step of the boot that leaves the channel alone.
LEMMA BootMoves ==
  ASSUME DkInv, Booting(Boot), NEW c \in Channels, c = req[Boot].disk[1], Quiet(c),
         UNCHANGED <<chan, hw, irq, media>>, DkTypeOK', \A u \in DkThreads \ {Boot} : req'[u] = req[u],
         \/ req'[Boot].at \in {"idle", "init", "identify"} /\ req'[Boot].op # "identify"
         \/ req'[Boot].at = "select" /\ req'[Boot].op = "identify" /\ req'[Boot].disk[1] = c,
         req'[Boot].at = "init" => req'[Boot].disk[2] = 0, BlocksInv'
  PROVE  DkInv'
<1>1. \A u \in DkThreads \ {Boot} : req[u].at = "idle" /\ ~Booting(u) BY DEF DkInv, BootInv
<1>2. \A u \in DkThreads \ {Boot} : req'[u].at = "idle" /\ ~Booting(u)' BY <1>1 DEF Booting
<1>3. BootInv' BY <1>2 DEF BootInv, InUse, None
<1>4. DkLockInv'
  <2>1. \A e \in Channels : chan'[e].lock = None BY DEF DkInv, DkLockInv
  <2>2. \A u \in DkThreads : req'[u].at \in {"lock"} \cup InUse => req'[u].op = "identify" /\ req'[u].at = "select"
    BY <1>2 DEF InUse
  <2> QED BY <2>1, <2>2 DEF DkLockInv, None, InUse
<1>5. Boot \in DkThreads BY DkConsts
<1>6. \A e \in Channels \ {c} : ~Using(Boot, e) /\ ~Using(Boot, e)' BY DEF Using, InUse
<1>7. \A u \in DkThreads \ {Boot} : ~Using(u, c) BY <1>1 DEF Using, InUse
<1>8. Quiet(c)' BY DEF Quiet
<1>9. Using(Boot, c)' => OnTurn(Boot, c)' BY <1>8 DEF Using, OnTurn, InUse
<1>10. \A e \in Channels \ {c} : /\ chan'[e] = chan[e] /\ hw'[e] = hw[e] /\ (e \in irq' <=> e \in irq)
                                 /\ \A i \in {0, 1} : media'[<<e, i>>] = media[<<e, i>>]
                                 /\ ~Using(Boot, e) /\ ~Using(Boot, e)'
  BY <1>6
<1>11. \A u \in DkThreads \ {Boot} : ~Using(u, c) /\ req'[u] = req[u] BY <1>7
<1>12. ChannelInv' BY <1>5, <1>8, <1>9, <1>10, <1>11, OnChannel DEF DkInv
<1> QED BY <1>3, <1>4, <1>12 DEF DkInv

\* Nobody is at a channel between the boot's transfers.
LEMMA BootQuiet ==
  ASSUME DkInv, NEW t \in DkThreads, req[t].at \in BootSteps
  PROVE  /\ t = Boot /\ Booting(Boot) /\ Quiet(req[t].disk[1]) /\ req[t].disk \in Dev
         /\ req[t].disk[1] \in Channels /\ LookedAt(req[t]) = Earlier(req[t].disk)
<1>1. t = Boot /\ Booting(Boot) BY DEF DkInv, BootInv, Booting
<1>2. \A u \in DkThreads : ~Using(u, req[t].disk[1])
  BY <1>1 DEF DkInv, BootInv, Using, InUse, BootSteps
<1>3. req[t].disk \in Dev /\ req[t].disk[1] \in Channels BY DkTypes DEF DkInv
<1>4. Quiet(req[t].disk[1]) BY <1>2, <1>3 DEF DkInv, ChannelInv, ChannelOK
<1> QED BY <1>1, <1>3, <1>4 DEF LookedAt

\* What is found does not depend on the disks not looked at.
LEMMA FoundSame ==
  ASSUME NEW bs, NEW ata, NEW ata2, NEW D, Found(bs, ata, D), \A d \in D : ata2[d] = ata[d]
  PROVE  Found(bs, ata2, D)
BY DEF Found
\* The disk looked at is not one, or what it holds is found.
LEMMA FoundMore ==
  ASSUME NEW bs, NEW ata, NEW ata2, NEW d \in Dev, Found(bs, ata, Earlier(d)), \A e \in Dev \ {d} : ata2[e] = ata[e],
         ~ata2[d]
  PROVE  Found(bs, ata2, Earlier(d) \cup {d})
<1>1. d \notin Earlier(d)
  <2>1. d[1] \in Nat /\ d[2] \in {0, 1} BY DkConsts DEF Dev
  <2>2. ~(d[1] < d[1] \/ (d[1] = d[1] /\ d[2] < d[2])) BY <2>1
  <2> QED BY <2>2 DEF Earlier
<1>2. Earlier(d) \subseteq Dev BY DEF Earlier
<1> QED BY <1>1, <1>2 DEF Found
LEMMA FoundOne ==
  ASSUME NEW bs, NEW ata, NEW ata2, NEW d \in Dev, Found(bs, ata, Earlier(d)), \A e \in Dev \ {d} : ata2[e] = ata[e],
         ata2[d], NEW ps, \A b \in ps : b.disk = d /\ OnDisk(b),
         Extensions(d) = {} => PartsOf(ps, d) = Described(d)
  PROVE  Found(bs \cup ps, ata2, Earlier(d) \cup {d})
<1>1. d \notin Earlier(d)
  <2>1. d[1] \in Nat /\ d[2] \in {0, 1} BY DkConsts DEF Dev
  <2>2. ~(d[1] < d[1] \/ (d[1] = d[1] /\ d[2] < d[2])) BY <2>1
  <2> QED BY <2>2 DEF Earlier
<1>2. Earlier(d) \subseteq Dev BY DEF Earlier
<1>3. \A b \in bs \cup ps : b.disk \in Earlier(d) \cup {d} /\ ata2[b.disk] /\ OnDisk(b)
  <2> TAKE b \in bs \cup ps
  <2>1. CASE b \in bs BY <1>1, <1>2, <2>1 DEF Found
  <2>2. CASE b \in ps BY <2>2
  <2> QED BY <2>1, <2>2
<1>4. ASSUME NEW e \in Earlier(d) PROVE ata2[e] /\ Extensions(e) = {} => PartsOf(bs \cup ps, e) = Described(e)
  <2>1. e # d /\ ata2[e] = ata[e] BY <1>1, <1>2
  <2>2. {a \in bs \cup ps : a.disk = e /\ a.nr > 0} = {a \in bs : a.disk = e /\ a.nr > 0} BY <2>1
  <2>3. PartsOf(bs \cup ps, e) = PartsOf(bs, e) BY <2>2 DEF PartsOf
  <2> QED BY <2>1, <2>3 DEF Found
<1>5. ata2[d] /\ Extensions(d) = {} => PartsOf(bs \cup ps, d) = Described(d)
  <2>1. {a \in bs \cup ps : a.disk = d /\ a.nr > 0} = {a \in ps : a.disk = d /\ a.nr > 0} BY <1>1 DEF Found
  <2>2. PartsOf(bs \cup ps, d) = PartsOf(ps, d) BY <2>1 DEF PartsOf
  <2> QED BY <2>2
<1> QED BY <1>3, <1>4, <1>5 DEF Found

LEMMA DkInits == ASSUME DkInv, NEW t \in DkThreads, ide_init(t) PROVE DkInv'
<1>1. At(t, "init") /\ UNCHANGED <<chan, hw, irq, media, all_blocks>> BY DEF ide_init
<1>2. req[t].at \in BootSteps BY <1>1 DEF At, BootSteps
<1>3. t = Boot /\ Booting(Boot) /\ req[t].disk \in Dev /\ LookedAt(req[t]) = Earlier(req[t].disk)
  BY <1>2, BootQuiet
<1>4. PICK c \in Channels : c = req[t].disk[1] /\ Quiet(c) BY <1>2, BootQuiet
<1> DEFINE d == <<c, 0>>
<1>5. req[t].disk = d BY <1>1, <1>3, <1>4, DkTypes DEF DkInv, BootInv, At
<1>6. d \in Dev /\ d[1] = c /\ d[2] = 0 BY <1>3, <1>5
<1> HIDE DEF d
<1>7. req' = [req EXCEPT ![t].at = "identify", ![t].disk = d] BY <1>4 DEF ide_init, Chan, d
<1> DEFINE r == [req[t] EXCEPT !.at = "identify", !.disk = d]
<1>8. r \in ReqType /\ r.at = "identify" /\ r.disk = d /\ r.op = req[t].op
  <2> DEFINE g == req[t]
  <2>1. g \in ReqType BY DkTypes DEF DkInv
  <2> HIDE DEF g
  <2>2. LET w == [g EXCEPT !.at = "identify", !.disk = d]
        IN w \in ReqType /\ w.at = "identify" /\ w.disk = d /\ w.op = g.op
    BY <1>6, <2>1 DEF ReqType, BootSteps
  <2> QED BY <2>2 DEF g
<1>9. req' = [req EXCEPT ![t] = r] BY <1>7 DEF DkInv, DkTypeOK
<1> HIDE DEF r
<1>10. req' \in [DkThreads -> ReqType] /\ req'[t] = r /\ \A u \in DkThreads \ {t} : req'[u] = req[u]
  BY <1>8, <1>9 DEF DkInv, DkTypeOK
<1>11. is_ata' \in [Dev -> BOOLEAN] /\ \A e \in Dev : e[1] # c => is_ata'[e] = is_ata[e]
  <2>1. PICK f, g \in BOOLEAN : is_ata' = [is_ata EXCEPT ![<<c, 0>>] = f, ![<<c, 1>>] = g]
    <3> DEFINE f == check_device_type(<<c, 0>>).ata
               g == check_device_type(<<c, 1>>)
               j == check_device_type(<<c, 0>>).slave /\ g.ata
    <3>1. f \in BOOLEAN /\ j \in BOOLEAN BY DEF check_device_type
    <3>2. is_ata' = [is_ata EXCEPT ![<<c, 0>>] = f, ![<<c, 1>>] = j] BY <1>4 DEF ide_init, Chan
    <3> HIDE DEF f, j
    <3> QED BY <3>1, <3>2
  <2>2. is_ata \in [Dev -> BOOLEAN] BY DEF DkInv, DkTypeOK
  <2>3. \A e \in Dev : e[1] # c => e # <<c, 0>> /\ e # <<c, 1>> OBVIOUS
  <2> QED BY <2>1, <2>2, <2>3
<1>12. \A e \in Earlier(d) : is_ata'[e] = is_ata[e]
  <2>1. \A e \in Earlier(d) : e \in Dev /\ e[1] # c
    <3> TAKE e \in Earlier(d)
    <3>1. e \in Dev /\ (e[1] < c \/ (e[1] = c /\ e[2] < 0)) BY <1>6 DEF Earlier
    <3>2. e[1] \in Nat /\ c \in Nat /\ e[2] \in {0, 1} BY <3>1, DkConsts DEF Dev
    <3>3. e[1] # c BY <3>1, <3>2
    <3> QED BY <3>1, <3>3
  <2> QED BY <1>11, <2>1
<1>13. LookedAt(req'[Boot]) = Earlier(d) BY <1>3, <1>8, <1>10 DEF LookedAt, BootSteps
<1>14. BlocksInv' BY <1>1, <1>3, <1>5, <1>12, <1>13, FoundSame DEF DkInv, BlocksInv
<1>15. DkTypeOK' BY <1>1, <1>10, <1>11 DEF DkInv, DkTypeOK
<1>16. req[t].op # "identify" BY <1>1, <1>3 DEF DkInv, BootInv, At, InUse
<1> QED BY <1>1, <1>3, <1>4, <1>8, <1>10, <1>14, <1>15, <1>16, BootMoves

\* The initial thread leaves a device behind.
LEMMA NextGoes ==
  ASSUME DkInv, NEW t \in DkThreads, t = Boot, Booting(Boot), NEW d \in Dev, req[t].disk = d, Quiet(d[1]),
         req' = [req EXCEPT ![t] = NextDevice(d)], UNCHANGED <<chan, hw, irq, media>>,
         is_ata' \in [Dev -> BOOLEAN], Found(all_blocks', is_ata', Earlier(d) \cup {d})
  PROVE  DkInv'
<1> DEFINE r == NextDevice(d)
<1>1. /\ r \in ReqType /\ r.op = None /\ r.at \in {"idle", "init", "identify"}
      /\ r.at = "init" => r.disk[2] = 0
      /\ LookedAt(r) = Earlier(d) \cup {d}
  BY NextIs
<1>2. req' = [req EXCEPT ![t] = r] OBVIOUS
<1> HIDE DEF r
<1>3. req' \in [DkThreads -> ReqType] /\ req'[t] = r /\ \A u \in DkThreads \ {t} : req'[u] = req[u]
  BY <1>1, <1>2 DEF DkInv, DkTypeOK
<1>4. BlocksInv' BY <1>1, <1>3 DEF BlocksInv
<1>5. DkTypeOK' BY <1>3 DEF DkInv, DkTypeOK
<1>6. d[1] \in Channels BY DEF Dev
<1>7. r.op # "identify" BY <1>1 DEF None
<1> QED BY <1>1, <1>3, <1>4, <1>5, <1>6, <1>7, BootMoves

LEMMA DkIdentifies == ASSUME DkInv, NEW t \in DkThreads, identify(t) PROVE DkInv'
<1>1. At(t, "identify") /\ UNCHANGED <<chan, hw, irq, media, is_ata, all_blocks>> BY DEF identify
<1>2. req[t].at \in BootSteps BY <1>1 DEF At, BootSteps
<1>3. PICK d \in Dev : req[t].disk = d BY <1>2, BootQuiet
<1>4. t = Boot /\ Booting(Boot) /\ LookedAt(req[t]) = Earlier(d) /\ Quiet(d[1]) /\ d[1] \in Channels
  BY <1>2, <1>3, BootQuiet
<1>5. CASE is_ata[d]
  <2> DEFINE r == [req[t] EXCEPT !.at = "select", !.op = "identify"]
  <2>1. r \in ReqType /\ r.at = "select" /\ r.disk = d /\ r.op = "identify"
    <3> DEFINE g == req[t]
    <3>1. g \in ReqType /\ g.disk = d BY <1>3, DkTypes DEF DkInv
    <3> HIDE DEF g
    <3>2. LET w == [g EXCEPT !.at = "select", !.op = "identify"]
          IN w \in ReqType /\ w.at = "select" /\ w.disk = g.disk /\ w.op = "identify"
      BY <3>1 DEF ReqType, InUse
    <3> QED BY <3>1, <3>2 DEF g
  <2>2. req' = [req EXCEPT ![t] = r] BY <1>3, <1>5 DEF identify, DkInv, DkTypeOK
  <2> HIDE DEF r
  <2>3. req' \in [DkThreads -> ReqType] /\ req'[t] = r /\ \A u \in DkThreads \ {t} : req'[u] = req[u]
    BY <2>1, <2>2 DEF DkInv, DkTypeOK
  <2>4. LookedAt(req'[Boot]) = LookedAt(req[Boot]) BY <1>4, <2>1, <2>3 DEF LookedAt
  <2>5. BlocksInv' BY <1>1, <2>4 DEF DkInv, BlocksInv
  <2>6. DkTypeOK' BY <1>1, <2>3 DEF DkInv, DkTypeOK
  <2> QED BY <1>1, <1>3, <1>4, <2>1, <2>3, <2>5, <2>6, BootMoves
<1>6. CASE ~is_ata[d]
  <2>1. req' = [req EXCEPT ![t] = NextDevice(d)] BY <1>3, <1>6 DEF identify, DkInv, DkTypeOK
  <2>2. Found(all_blocks, is_ata, Earlier(d)) BY <1>4 DEF DkInv, BlocksInv
  <2>3. Found(all_blocks, is_ata, Earlier(d) \cup {d}) BY <1>6, <2>2, FoundMore
  <2>4. is_ata' \in [Dev -> BOOLEAN] BY <1>1 DEF DkInv, DkTypeOK
  <2> QED BY <1>1, <1>3, <1>4, <2>1, <2>3, <2>4, NextGoes
<1> QED BY <1>5, <1>6

LEMMA DkRegisters == ASSUME DkInv, NEW t \in DkThreads, identified(t) PROVE DkInv'
<1>1. At(t, "identified") /\ UNCHANGED <<chan, hw, irq, media>> BY DEF identified
<1>2. req[t].at \in BootSteps BY <1>1 DEF At, BootSteps
<1>3. PICK d \in Dev : req[t].disk = d BY <1>2, BootQuiet
<1>4. t = Boot /\ Booting(Boot) /\ LookedAt(req[t]) = Earlier(d) /\ Quiet(d[1]) /\ d[1] \in Channels
  BY <1>2, <1>3, BootQuiet
<1> DEFINE ok == Capacity(Kinds[d]) <= Sectors
           whole == Block("raw", Capacity(Kinds[d]), d, 0, 0)
           ps == {whole} \cup partition_scan(d)
<1>5. /\ is_ata' = [is_ata EXCEPT ![d] = ok] /\ req' = [req EXCEPT ![t] = NextDevice(d)]
      /\ all_blocks' = IF ok THEN all_blocks \cup ps ELSE all_blocks
  <2>1. all_blocks \cup ps = all_blocks \cup {whole} \cup partition_scan(d) OBVIOUS
  <2> QED BY <1>3, <2>1 DEF identified
<1>6. Found(all_blocks, is_ata, Earlier(d)) BY <1>4 DEF DkInv, BlocksInv
<1>7. ok \in BOOLEAN OBVIOUS
<1>8. ok => \A b \in ps : b.disk = d /\ OnDisk(b)
  <2>1. Capacity(Kinds[d]) \in Nat BY DkConsts DEF Capacity
  <2> DEFINE z == Capacity(Kinds[d])
  <2>2. whole = [type |-> "raw", size |-> z, disk |-> d, nr |-> 0, start |-> 0] BY DEF Block
  <2> HIDE DEF whole, z
  <2>3. ok => whole.disk = d /\ OnDisk(whole) BY <2>1, <2>2, DkConsts DEF OnDisk, z
  <2> QED BY <2>3, ScanFinds
<1>9. Extensions(d) = {} => PartsOf(ps, d) = Described(d)
  <2>1. whole.nr = 0 BY DEF Block
  <2> HIDE DEF whole
  <2>2. \A b \in partition_scan(d) : b.disk = d /\ b.nr > 0 BY ScanFinds
  <2>3. {a \in ps : a.disk = d /\ a.nr > 0} = partition_scan(d) BY <2>1, <2>2
  <2> HIDE DEF ps
  <2>4. PartsOf(ps, d) = {[start |-> b.start, size |-> b.size] : b \in partition_scan(d)} BY <2>3 DEF PartsOf
  <2> QED BY <2>4, ScanFinds
<1> HIDE DEF ok, ps
<1>10. is_ata' \in [Dev -> BOOLEAN] /\ (is_ata'[d] <=> ok) /\ \A e \in Dev \ {d} : is_ata'[e] = is_ata[e]
  BY <1>5, <1>7 DEF DkInv, DkTypeOK
<1>11. Found(all_blocks', is_ata', Earlier(d) \cup {d})
  <2>1. CASE ok
    <3>1. all_blocks' = all_blocks \cup ps BY <1>5, <2>1
    <3>2. Found(all_blocks \cup ps, is_ata', Earlier(d) \cup {d}) BY <1>6, <1>8, <1>9, <1>10, <2>1, FoundOne
    <3> QED BY <3>1, <3>2
  <2>2. CASE ~ok
    <3>1. all_blocks' = all_blocks BY <1>5, <2>2
    <3>2. Found(all_blocks, is_ata', Earlier(d) \cup {d}) BY <1>6, <1>10, <2>2, FoundMore
    <3> QED BY <3>1, <3>2
  <2> QED BY <2>1, <2>2
<1> QED BY <1>1, <1>3, <1>4, <1>5, <1>10, <1>11, NextGoes

\* A disk that does not identify itself is given up.
LEMMA DkGivesUp ==
  ASSUME DkInv, NEW t \in DkThreads, transfer(t), ~hw[Chan(t)].drq, req[t].op = "identify"
  PROVE  DkInv'
<1>1. At(t, "busy") /\ ~hw[Chan(t)].bsy /\ UNCHANGED <<chan, hw, irq, media, all_blocks>>
  BY DEF transfer, wait_while_busy
<1>2. t = Boot /\ Booting(Boot) BY DEF DkInv, BootInv, Booting
<1>3. PICK d \in Dev : req[t].disk = d BY DkTypes DEF DkInv
<1>4. d[1] \in Channels /\ d[1] = Chan(t) BY <1>3 DEF Dev, Chan
<1>5. Using(t, d[1]) BY <1>1, <1>3 DEF Using, At, InUse
<1>6. TakingIn(t, d[1])
  <2>1. OnTurn(t, d[1]) BY <1>4, <1>5, UserAlone
  <2> QED BY <1>1, <2>1 DEF OnTurn, At
<1>7. Quiet(d[1]) BY <1>1, <1>4, <1>6 DEF Quiet, TakingIn, At, NotYet
<1>8. is_ata' = [is_ata EXCEPT ![d] = FALSE] /\ req' = [req EXCEPT ![t] = NextDevice(d)]
  BY <1>3 DEF transfer, DkInv, DkTypeOK
<1>9. is_ata' \in [Dev -> BOOLEAN] /\ ~is_ata'[d] /\ \A e \in Dev \ {d} : is_ata'[e] = is_ata[e]
  BY <1>8 DEF DkInv, DkTypeOK
<1>10. LookedAt(req[Boot]) = Earlier(d) BY <1>2, <1>3 DEF LookedAt
<1>11. Found(all_blocks, is_ata, Earlier(d)) BY <1>10 DEF DkInv, BlocksInv
<1>12. Found(all_blocks, is_ata', Earlier(d) \cup {d}) BY <1>9, <1>11, FoundMore
<1> QED BY <1>1, <1>2, <1>3, <1>7, <1>8, <1>9, <1>12, NextGoes

\* After the boot, a thread asks for a sector of a block.
LEMMA DkRequests ==
  ASSUME DkInv, NEW t \in DkThreads, NEW op \in {"read", "write"}, NEW b \in all_blocks, NEW sector \in 0 .. Sectors - 1,
         NEW v \in DkData, Request(t, op, b, sector, v)
  PROVE  DkInv'
<1> DEFINE d == b.disk
           s == partition_read(b, sector)
           r == [at |-> "lock", disk |-> d, sec |-> s, op |-> op, buf |-> v]
<1>1. /\ Booted /\ At(t, "idle") /\ check_sector(b, sector) /\ req' = [req EXCEPT ![t] = r]
      /\ UNCHANGED <<chan, hw, irq, media, is_ata, all_blocks>>
  BY DEF Request
<1>2. \A u \in DkThreads : ~Booting(u) BY <1>1 DEF Booted, Booting, BootSteps
<1>3. LookedAt(req[Boot]) = Dev BY <1>2, DkConsts DEF LookedAt, Booting
<1>4. d \in Dev /\ OnDisk(b) BY <1>3 DEF DkInv, BlocksInv, Found
<1>5. s \in Nat /\ s < Sectors
  <2> DEFINE x == b.start
             z == b.size
  <2>1. x \in Nat /\ z \in Nat /\ x + z <= Sectors /\ sector < z /\ s = x + sector
    BY <1>1, <1>4 DEF OnDisk, check_sector, partition_read
  <2> HIDE DEF x, z, s
  <2> QED BY <2>1, DkConsts
<1> HIDE DEF d, s
<1>6. r \in ReqType BY <1>4, <1>5 DEF ReqType
<1>7. r.at = "lock" /\ r.op = op /\ r.sec = s OBVIOUS
<1> HIDE DEF r
<1>8. req' \in [DkThreads -> ReqType] /\ req'[t] = r /\ \A u \in DkThreads \ {t} : req'[u] = req[u]
  BY <1>1, <1>6 DEF DkInv, DkTypeOK
<1>9. DkTypeOK' BY <1>1, <1>8 DEF DkInv, DkTypeOK
<1>10. \A u \in DkThreads : ~Booting(u)' BY <1>2, <1>7, <1>8 DEF Booting, BootSteps
<1>11. BootInv'
  <2>1. ~Booting(Boot)' BY <1>10, DkConsts
  <2> QED BY <1>10, <2>1 DEF BootInv, Booting, BootSteps
<1>12. BlocksInv'
  <2>1. LookedAt(req'[Boot]) = Dev BY <1>10, DkConsts DEF LookedAt, Booting
  <2> QED BY <1>1, <1>3, <2>1 DEF DkInv, BlocksInv
<1>13. \A e \in Channels, u \in DkThreads : Using(u, e)' <=> Using(u, e)
  BY <1>1, <1>7, <1>8 DEF Using, At, InUse
<1>14. DkLockInv'
  <2>1. \A u \in DkThreads : req'[u].at \in InUse => req'[u] = req[u] BY <1>7, <1>8 DEF InUse
  <2>2. \A u \in DkThreads : req'[u].at \in InUse /\ req'[u].op # "identify" => chan'[req'[u].disk[1]].lock = u
    BY <1>1, <2>1 DEF DkInv, DkLockInv
  <2>3. \A e \in Channels : chan'[e].lock # None => ~Booting(Boot)' /\ Using(chan[e].lock, e)'
    <3> SUFFICES ASSUME NEW e \in Channels, chan[e].lock # None PROVE Using(chan[e].lock, e)'
      BY <1>1, <1>10, DkConsts
    <3>1. PICK w \in DkThreads : w = chan[e].lock BY DkTypes DEF DkInv, ChanType
    <3>2. Using(w, e)' BY <1>13, <3>1 DEF DkInv, DkLockInv
    <3> QED BY <1>1, <3>1, <3>2 DEF Using
  <2>4. \A u \in DkThreads : req'[u].at \in {"lock"} \cup InUse =>
          /\ req'[u].op # None /\ (req'[u].op # "identify" => req'[u].sec < Sectors)
          /\ (req'[u].at = "lock" => req'[u].op # "identify")
    <3> TAKE u \in DkThreads
    <3>1. CASE u = t BY <1>5, <1>7, <1>8, <3>1 DEF None
    <3>2. CASE u # t BY <1>8, <3>2 DEF DkInv, DkLockInv
    <3> QED BY <3>1, <3>2
  <2> QED BY <1>1, <2>2, <2>3, <2>4 DEF DkLockInv
<1>15. ChannelInv'
  <2> SUFFICES ASSUME NEW e \in Channels PROVE ChannelOK(e)' BY DEF ChannelInv
  <2>1. ChannelOK(e) BY DEF DkInv, ChannelInv
  <2>2. \A u \in DkThreads : req'[u] = req[u] \/ (~Using(u, e) /\ ~Using(u, e)')
    BY <1>1, <1>7, <1>8 DEF Using, At, InUse
  <2> QED BY <1>1, <2>1, <2>2, OthersOK DEF DkInv
<1> QED BY <1>9, <1>11, <1>12, <1>14, <1>15 DEF DkInv

LEMMA DkLocks == ASSUME DkInv, NEW t \in DkThreads, lock_channel(t) PROVE DkInv'
<1>0. PICK c \in Channels : c = Chan(t) BY DkTypes DEF DkInv, Chan
<1>1. /\ At(t, "lock") /\ chan[c].lock = None /\ chan' = [chan EXCEPT ![c].lock = t] /\ DkGo(t, "select")
      /\ UNCHANGED <<hw, irq, media, is_ata, all_blocks>>
  BY <1>0 DEF lock_channel
<1>2. DkTypeOK /\ chan[c] \in ChanType BY DkTypes DEF DkInv
<1>3. req[t].op # "identify" BY <1>1 DEF DkInv, DkLockInv, At
<1>4. \A u \in DkThreads : ~Booting(u)
  <2>1. ~Booting(Boot)
    <3>1. Booting(Boot) => t = Boot BY <1>1 DEF DkInv, BootInv, At
    <3> QED BY <1>1, <1>3, <3>1 DEF Booting, BootSteps, At
  <2> QED BY <2>1 DEF DkInv, BootInv
<1>5. \A u \in DkThreads : ~Using(u, c)
  <2> SUFFICES ASSUME NEW u \in DkThreads, Using(u, c) PROVE FALSE OBVIOUS
  <2>1. req[u].op # "identify" BY <1>4 DEF Booting
  <2>2. chan[c].lock = u BY <2>1 DEF DkInv, DkLockInv, Using
  <2> QED BY <1>1, <2>2, DkConsts
<1>6. Quiet(c) BY <1>5 DEF DkInv, ChannelInv, ChannelOK
<1> DEFINE k == [chan[c] EXCEPT !.lock = t]
<1>7. k \in ChanType /\ k.lock = t /\ k.sema = chan[c].sema
  <2> DEFINE g == chan[c]
  <2>1. g \in ChanType BY <1>2
  <2> HIDE DEF g
  <2>2. LET w == [g EXCEPT !.lock = t] IN w \in ChanType /\ w.lock = t /\ w.sema = g.sema BY <2>1 DEF ChanType
  <2> QED BY <2>2 DEF g
<1>8. chan' = [chan EXCEPT ![c] = k] BY <1>1, <1>2 DEF DkTypeOK
<1> HIDE DEF k
<1>9. chan' \in [Channels -> ChanType] /\ chan'[c] = k /\ \A e \in Channels \ {c} : chan'[e] = chan[e]
  BY <1>2, <1>7, <1>8 DEF DkTypeOK
<1>10. /\ req' \in [DkThreads -> ReqType] /\ \A u \in DkThreads \ {t} : req'[u] = req[u]
       /\ req'[t].at = "select" /\ req'[t].disk = req[t].disk /\ req'[t].sec = req[t].sec
       /\ req'[t].op = req[t].op /\ req'[t].buf = req[t].buf
  BY <1>1, <1>2, Goes DEF InUse
<1>11. DkTypeOK' BY <1>1, <1>2, <1>9, <1>10 DEF DkTypeOK
<1>12. \A u \in DkThreads : ~Booting(u)' BY <1>4, <1>10 DEF Booting, BootSteps
<1>13. ~Booting(Boot) /\ ~Booting(Boot)' BY <1>4, <1>12, DkConsts
<1>14. BootInv' BY <1>12, <1>13 DEF BootInv, Booting, BootSteps
<1>15. BlocksInv'
  <2>1. LookedAt(req'[Boot]) = Dev /\ LookedAt(req[Boot]) = Dev BY <1>13 DEF LookedAt, Booting
  <2> QED BY <1>1, <2>1 DEF DkInv, BlocksInv
<1>16. Using(t, c)' BY <1>0, <1>10 DEF Using, InUse, Chan
<1>17. DkLockInv'
  <2>1. ASSUME NEW u \in DkThreads, req'[u].at \in InUse, req'[u].op # "identify"
        PROVE  chan'[req'[u].disk[1]].lock = u
    <3>1. CASE u = t BY <1>0, <1>7, <1>9, <1>10, <3>1 DEF Chan
    <3>2. CASE u # t
      <4>1. req'[u] = req[u] /\ chan[req[u].disk[1]].lock = u BY <1>10, <2>1, <3>2 DEF DkInv, DkLockInv
      <4>2. req[u].disk[1] \in Channels /\ u # None BY <1>2, DkTypes, DkConsts
      <4> QED BY <1>1, <1>9, <4>1, <4>2
    <3> QED BY <3>1, <3>2
  <2>2. ASSUME NEW e \in Channels, chan'[e].lock # None PROVE Using(chan[e].lock, e)'
    <3>1. CASE e = c BY <1>7, <1>9, <1>16, <3>1 DEF Using
    <3>2. CASE e # c
      <4>1. chan'[e].lock = chan[e].lock /\ chan[e].lock # None BY <1>9, <2>2, <3>2
      <4>2. PICK w \in DkThreads : w = chan[e].lock BY <1>2, <4>1, DkTypes DEF ChanType
      <4>3. Using(w, e) BY <4>1, <4>2 DEF DkInv, DkLockInv
      <4>4. w # t BY <1>1, <4>3 DEF Using, At, InUse
      <4>5. Using(w, e)' BY <1>10, <4>3, <4>4 DEF Using
      <4> QED BY <4>1, <4>2, <4>5 DEF Using
    <3> QED BY <3>1, <3>2
  <2>3. \A u \in DkThreads : req'[u].at \in {"lock"} \cup InUse =>
          /\ req'[u].op # None /\ (req'[u].op # "identify" => req'[u].sec < Sectors)
          /\ (req'[u].at = "lock" => req'[u].op # "identify")
    <3> TAKE u \in DkThreads
    <3>1. CASE u = t BY <1>1, <1>10, <3>1 DEF DkInv, DkLockInv, At
    <3>2. CASE u # t BY <1>10, <3>2 DEF DkInv, DkLockInv
    <3> QED BY <3>1, <3>2
  <2> QED BY <1>13, <2>1, <2>2, <2>3 DEF DkLockInv
<1>18. ChannelInv'
  <2>1. Quiet(c)' BY <1>1, <1>6, <1>7, <1>9 DEF Quiet
  <2>2. OnTurn(t, c)' BY <1>10, <2>1 DEF OnTurn
  <2>3. \A e \in Channels \ {c} : ~Using(t, e) /\ ~Using(t, e)' BY <1>0, <1>10 DEF Using, Chan
  <2>4. \A e \in Channels \ {c} : /\ chan'[e] = chan[e] /\ hw'[e] = hw[e] /\ (e \in irq' <=> e \in irq)
                                  /\ \A i \in {0, 1} : media'[<<e, i>>] = media[<<e, i>>]
                                  /\ ~Using(t, e) /\ ~Using(t, e)'
    BY <1>1, <1>9, <2>3
  <2>5. \A u \in DkThreads \ {t} : ~Using(u, c) /\ req'[u] = req[u] BY <1>5, <1>10
  <2> QED BY <1>2, <1>16, <2>2, <2>4, <2>5, OnChannel DEF DkInv
<1> QED BY <1>11, <1>14, <1>15, <1>17, <1>18 DEF DkInv

LEMMA DkReleases == ASSUME DkInv, NEW t \in DkThreads, lock_release(t) PROVE DkInv'
<1>0. PICK c \in Channels : c = Chan(t) BY DkTypes DEF DkInv, Chan
<1>1. /\ At(t, "release") /\ chan' = [chan EXCEPT ![c].lock = None] /\ req' = [req EXCEPT ![t] = NoReq]
      /\ UNCHANGED <<hw, irq, media, is_ata, all_blocks>>
  BY <1>0 DEF lock_release
<1>2. DkTypeOK /\ chan[c] \in ChanType BY DkTypes DEF DkInv
<1>3. Using(t, c) BY <1>0, <1>1 DEF Using, At, Chan, InUse
<1>4. Alone(t, c) /\ OnTurn(t, c) BY <1>3, UserAlone
<1>5. Quiet(c) /\ req[t].op # "identify" BY <1>1, <1>4 DEF OnTurn, At
<1>6. chan[c].lock = t BY <1>3, <1>5 DEF DkInv, DkLockInv, Using
<1>7. \A u \in DkThreads : ~Booting(u)
  <2>1. ~Booting(Boot) BY <1>6, DkConsts DEF DkInv, DkLockInv
  <2> QED BY <2>1 DEF DkInv, BootInv
<1> DEFINE k == [chan[c] EXCEPT !.lock = None]
<1>8. k \in ChanType /\ k.lock = None /\ k.sema = chan[c].sema
  <2> DEFINE g == chan[c]
  <2>1. g \in ChanType BY <1>2
  <2> HIDE DEF g
  <2>2. LET w == [g EXCEPT !.lock = None] IN w \in ChanType /\ w.lock = None /\ w.sema = g.sema BY <2>1 DEF ChanType
  <2> QED BY <2>2 DEF g
<1>9. chan' = [chan EXCEPT ![c] = k] BY <1>1, <1>2 DEF DkTypeOK
<1> HIDE DEF k
<1>10. chan' \in [Channels -> ChanType] /\ chan'[c] = k /\ \A e \in Channels \ {c} : chan'[e] = chan[e]
  BY <1>2, <1>8, <1>9 DEF DkTypeOK
<1>11. NoReq \in ReqType /\ NoReq.at = "idle" /\ NoReq.op = None
  <2>1. <<0, 0>> \in Dev /\ 0 \in DkData BY DkConsts DEF Dev, DkData
  <2> QED BY <2>1 DEF NoReq, ReqType
<1>12. req' \in [DkThreads -> ReqType] /\ req'[t] = NoReq /\ \A u \in DkThreads \ {t} : req'[u] = req[u]
  BY <1>1, <1>2, <1>11 DEF DkTypeOK
<1>13. DkTypeOK' BY <1>1, <1>2, <1>10, <1>12 DEF DkTypeOK
<1>14. \A u \in DkThreads : ~Booting(u)' BY <1>7, <1>11, <1>12 DEF Booting, BootSteps, None
<1>15. ~Booting(Boot) /\ ~Booting(Boot)' BY <1>7, <1>14, DkConsts
<1>16. BootInv' BY <1>14, <1>15 DEF BootInv, Booting, BootSteps
<1>17. BlocksInv'
  <2>1. LookedAt(req'[Boot]) = Dev /\ LookedAt(req[Boot]) = Dev BY <1>15 DEF LookedAt, Booting
  <2> QED BY <1>1, <2>1 DEF DkInv, BlocksInv
<1>18. \A u \in DkThreads : req'[u].at \in {"lock"} \cup InUse => req'[u] = req[u] /\ u # t
  BY <1>11, <1>12 DEF InUse
<1>19. DkLockInv'
  <2>1. ASSUME NEW u \in DkThreads, req'[u].at \in InUse, req'[u].op # "identify"
        PROVE  chan'[req'[u].disk[1]].lock = u
    <3>1. req'[u] = req[u] /\ u # t BY <1>18, <2>1
    <3>2. req[u].disk[1] \in Channels BY <1>2, DkTypes
    <3>3. ~Using(u, c) BY <1>4, <3>1 DEF Alone
    <3>4. req[u].disk[1] # c BY <2>1, <3>1, <3>3 DEF Using
    <3> QED BY <1>10, <2>1, <3>1, <3>2, <3>4 DEF DkInv, DkLockInv
  <2>2. ASSUME NEW e \in Channels, chan'[e].lock # None PROVE Using(chan[e].lock, e)'
    <3>1. e # c BY <1>8, <1>10, <2>2
    <3>2. chan'[e].lock = chan[e].lock /\ chan[e].lock # None BY <1>10, <2>2, <3>1
    <3>3. PICK w \in DkThreads : w = chan[e].lock BY <1>2, <3>2, DkTypes DEF ChanType
    <3>4. Using(w, e) BY <3>2, <3>3 DEF DkInv, DkLockInv
    <3>5. w # t BY <1>4, <3>1, <3>4 DEF Alone
    <3>6. Using(w, e)' BY <1>12, <3>4, <3>5 DEF Using
    <3> QED BY <3>2, <3>3, <3>6 DEF Using
  <2>3. \A u \in DkThreads : req'[u].at \in {"lock"} \cup InUse =>
          /\ req'[u].op # None /\ (req'[u].op # "identify" => req'[u].sec < Sectors)
          /\ (req'[u].at = "lock" => req'[u].op # "identify")
    BY <1>18 DEF DkInv, DkLockInv
  <2> QED BY <1>15, <2>1, <2>2, <2>3 DEF DkLockInv
<1>20. ChannelInv'
  <2>1. Quiet(c)' BY <1>1, <1>5, <1>8, <1>10 DEF Quiet
  <2>2. \A e \in Channels : ~Using(t, e)' BY <1>18 DEF Using
  <2>3. \A e \in Channels \ {c} : /\ chan'[e] = chan[e] /\ hw'[e] = hw[e] /\ (e \in irq' <=> e \in irq)
                                  /\ \A i \in {0, 1} : media'[<<e, i>>] = media[<<e, i>>]
                                  /\ ~Using(t, e) /\ ~Using(t, e)'
    BY <1>1, <1>4, <1>10, <2>2 DEF Alone
  <2>4. \A u \in DkThreads \ {t} : ~Using(u, c) /\ req'[u] = req[u] BY <1>4, <1>12 DEF Alone
  <2> QED BY <1>2, <2>1, <2>2, <2>3, <2>4, OnChannel DEF DkInv
<1> QED BY <1>13, <1>16, <1>17, <1>19, <1>20 DEF DkInv

\* A transfer, whatever the disk answers.
LEMMA DkTransfers == ASSUME DkInv, NEW t \in DkThreads, transfer(t) PROVE DkInv'
BY DkTakes, DkGives, DkPanics, DkGivesUp

LEMMA DkInvStep == DkInv /\ [DkNext]_DkVars => DkInv'
<1> SUFFICES ASSUME DkInv, [DkNext]_DkVars PROVE DkInv' OBVIOUS
<1>1. CASE UNCHANGED DkVars
  <2>1. UNCHANGED <<chan, hw, irq, media, is_ata, all_blocks, req>> BY <1>1 DEF DkVars
  <2>2. DkTypeOK' BY <2>1 DEF DkInv, DkTypeOK
  <2>3. BootInv' /\ BlocksInv' /\ DkLockInv' BY <2>1, NobodyMoves DEF DkInv
  <2>4. ASSUME NEW e \in Channels PROVE ChannelOK(e)'
    <3>1. ChannelOK(e) BY DEF DkInv, ChannelInv
    <3> QED BY <2>1, <3>1, OthersOK DEF DkInv
  <2> QED BY <2>2, <2>3, <2>4 DEF DkInv, ChannelInv
<1>2. ASSUME NEW t \in DkThreads, ThreadStep(t) PROVE DkInv'
  <2>1. CASE \E b \in all_blocks, sector \in 0 .. Sectors - 1 : Request(t, "read", b, sector, 0)
    <3>1. 0 \in DkData BY DEF DkData
    <3> QED BY <2>1, <3>1, DkRequests
  <2>2. CASE \E b \in all_blocks, sector \in 0 .. Sectors - 1 : \E v \in Values : Request(t, "write", b, sector, v)
    <3>1. \A v \in Values : v \in DkData BY DEF DkData
    <3> QED BY <2>2, <3>1, DkRequests
  <2> QED BY <1>2, <2>1, <2>2, DkInits, DkIdentifies, DkRegisters, DkLocks, DkSelects, DkIssues, DkAwakes,
             DkTransfers, DkReleases DEF ThreadStep
<1>3. ASSUME NEW c \in Channels, DkNext,
             interrupt_handler(c) \/ DiskOffers(c) \/ DiskAsks(c) \/ DiskStores(c) \/ DiskFails(c)
      PROVE  DkInv'
  <2>1. NobodyPanics BY <1>3 DEF DkNext, NobodyPanics
  <2> QED BY <1>3, <2>1, DkHandler, DkOffers, DkAsks, DkStores, DkFails
<1> QED BY <1>1, <1>2, <1>3 DEF DkNext

\* The invariant says what the driver promises.
LEMMA DkInvSound == DkInv => DisksSound
<1> SUFFICES ASSUME DkInv PROVE DisksSound OBVIOUS
<1>1. TransfersExact
  <2> SUFFICES ASSUME NEW t \in DkThreads, At(t, "release") PROVE media[req[t].disk][req[t].sec] = req[t].buf
    BY DEF TransfersExact
  <2>1. PICK c \in Channels : Using(t, c) BY DkTypes DEF DkInv, Using, At, InUse
  <2>2. OnTurn(t, c) BY <2>1, UserAlone
  <2> QED BY <2>2 DEF OnTurn, At, Stored
<1>2. NoStrayCompletion
  <2> SUFFICES ASSUME NEW c \in Channels, Booted, chan[c].lock = None PROVE Quiet(c)
    BY DEF NoStrayCompletion, Quiet
  <2>1. ASSUME NEW t \in DkThreads PROVE ~Using(t, c)
    <3> SUFFICES ASSUME Using(t, c) PROVE FALSE OBVIOUS
    <3>1. req[t].op # "identify" BY DEF Booted
    <3>2. chan[c].lock = t BY <3>1 DEF DkInv, DkLockInv, Using
    <3> QED BY <3>2, DkConsts
  <2> QED BY <2>1 DEF DkInv, ChannelInv, ChannelOK
<1>3. PartitionsOnDisk BY DEF PartitionsOnDisk, DkInv, BlocksInv, Found, OnDisk
<1>4. PartitionsAsDescribed
  <2> SUFFICES ASSUME Booted, NEW d \in Disks, is_ata[d], Extensions(d) = {} PROVE PartsOf(all_blocks, d) = Described(d)
    BY DEF PartitionsAsDescribed, PartsOf
  <2>1. LookedAt(req[Boot]) = Dev BY DkConsts DEF LookedAt, Booted, BootSteps
  <2>2. d \in Dev BY DkConsts
  <2> QED BY <2>1, <2>2 DEF DkInv, BlocksInv, Found
<1> QED BY <1>1, <1>2, <1>3, <1>4 DEF DisksSound

\* Every transfer is exact, no completion is left over, and the partitions are those that
\* the tables describe (ide.c, partition.c).
THEOREM DisksCorrect == DkSpec => []DisksSound
<1>1. DkInit => DkInv BY DkInvInit
<1>2. DkInv /\ [DkNext]_DkVars => DkInv' BY DkInvStep
<1>3. DkInv => DisksSound BY DkInvSound
<1> QED BY <1>1, <1>2, <1>3, PTL DEF DkSpec

(***************************************************************************)
(* 5. The start and the stop of the machine.                               *)
(***************************************************************************)

BtWord == [name : STRING, value : STRING]
BtSteps == {InitOrder[i] : i \in DOMAIN InitOrder}
BtContexts == {"thread", "interrupt"}
BtPlaces == {"parse_options", "init", "run_actions", "debug_panic", "shutdown",
             "stopped", "waits"}

BtTypeOK ==
  /\ boot \in [at : BtPlaces, up : SUBSET BtSteps, context : BtContexts]
  /\ line \in Seq(BtWord) /\ argv \in Seq(BtWord) /\ ran \in Seq(Seq(BtWord))
  /\ panics \in Nat /\ free_map_file \in {NULL, "open", "freed"}

(* While the options are read nothing has run, the words read are options, *)
(* and the others are left.                                                *)
OptionsFirst ==
  boot.at = "parse_options" =>
    /\ ran = <<>>
    /\ \E k \in 1 .. Len(line) + 1 : /\ \A i \in 1 .. k - 1 : IsOption(line[i])
                                     /\ argv = SubSeq(line, k, Len(line))

(* A second panic needs a machine that powers off and a free map's file    *)
(* that cannot be closed then.                                             *)
Excuse(context) ==
  /\ free_map_file # NULL
  /\ context = "interrupt" \/ inode_list # "free" \/ free_map_file = "freed"
Excused == Excuse(boot.context)
PanicInv ==
  /\ boot.at \in {"parse_options", "init", "run_actions"} => panics = 0
  /\ boot.at = "waits" => Excused
  /\ panics > 1 \/ (panics = 1 /\ boot.at = "debug_panic") => opts.how = "off" /\ Excused

BtInv == BtTypeOK /\ OptionsFirst /\ ActionsAsGiven /\ PanicInv

-----------------------------------------------------------------------------
(* 5.1 The order of main.                                                  *)

LEMMA InitOrderIs ==
  /\ DOMAIN InitOrder = 1 .. 27
  /\ InitOrder[1] = "thread_init" /\ InitOrder[2] = "console_init"
  /\ InitOrder[3] = "palloc_init" /\ InitOrder[4] = "malloc_init"
  /\ InitOrder[5] = "paging_init" /\ InitOrder[6] = "tss_init"
  /\ InitOrder[7] = "gdt_init" /\ InitOrder[8] = "intr_init"
  /\ InitOrder[9] = "timer_init" /\ InitOrder[10] = "kbd_init"
  /\ InitOrder[11] = "input_init" /\ InitOrder[12] = "exception_init"
  /\ InitOrder[13] = "syscall_init" /\ InitOrder[14] = "slowdown_init"
  /\ InitOrder[15] = "thread_start" /\ InitOrder[16] = "serial_init_queue"
  /\ InitOrder[17] = "timer_calibrate" /\ InitOrder[18] = "ide_init"
  /\ InitOrder[19] = "locate_block_devices" /\ InitOrder[20] = "inode_init"
  /\ InitOrder[21] = "free_map_init" /\ InitOrder[22] = "free_map_create"
  /\ InitOrder[23] = "bitmap_write" /\ InitOrder[24] = "dir_create"
  /\ InitOrder[25] = "free_map_close" /\ InitOrder[26] = "free_map_open"
  /\ InitOrder[27] = "bitmap_read"
BY SMTT(60) DEF InitOrder

\* The steps main takes only when it was asked to.
OptionSteps == {"slowdown_init"} \cup do_format

\* The first step left comes after every step that is done or not asked for.
LEMMA FirstLeftIs ==
  ASSUME StepsLeft # {}
  PROVE  \E i \in DOMAIN InitOrder :
           /\ FirstLeft = InitOrder[i]
           /\ \A j \in 1 .. i - 1 :
                InitOrder[j] \in boot.up \/ InitOrder[j] \in OptionSteps
<1>1. StepsLeft \in SUBSET Nat /\ StepsLeft \subseteq 1 .. 27
  BY InitOrderIs DEF StepsLeft
<1>2. PICK i \in StepsLeft : i = CHOOSE x \in StepsLeft : \A y \in StepsLeft : x <= y
  BY <1>1, LeastNat
<1>3. \A j \in StepsLeft : i <= j
  BY <1>1, <1>2, LeastNat
<1>4. FirstLeft = InitOrder[i]
  BY <1>2, Zenon DEF FirstLeft
<1>5. ASSUME NEW j \in 1 .. i - 1
      PROVE  InitOrder[j] \in boot.up \/ InitOrder[j] \in OptionSteps
  <2>1. j \in DOMAIN InitOrder /\ j \notin StepsLeft
    BY <1>1, <1>3, InitOrderIs
  <2> QED BY <2>1 DEF StepsLeft, OptionSteps
<1>6. i \in DOMAIN InitOrder
  BY DEF StepsLeft
<1> QED BY <1>4, <1>5, <1>6

\* What a step of main needs comes before it.
LEMMA NeedsBefore ==
  ASSUME NEW i \in DOMAIN InitOrder, NEW n \in Needs[InitOrder[i]]
  PROVE  \E j \in 1 .. i - 1 : n = InitOrder[j] /\ n \notin OptionSteps
<1>1. PICK s : s = InitOrder[i]
  OBVIOUS
<1>2. s \in {InitOrder[x] : x \in DOMAIN InitOrder}
  BY <1>1
<1>3. n \in CASE s = "console_init" -> {"thread_init"}
      [] s \in {"paging_init", "tss_init"} -> {"palloc_init"}
      [] s = "gdt_init" -> {"tss_init"}
      [] s \in {"timer_init", "kbd_init", "exception_init", "syscall_init"} -> {"intr_init"}
      [] s = "slowdown_init" -> {"exception_init", "syscall_init"}
      [] s = "thread_start" -> {"thread_init", "paging_init", "timer_init",
                                "kbd_init", "input_init", "exception_init"}
      [] s = "serial_init_queue" -> {"intr_init", "console_init"}
      [] s = "timer_calibrate" -> {"thread_start", "timer_init"}
      [] s = "ide_init" -> {"thread_start", "malloc_init", "timer_calibrate"}
      [] s = "locate_block_devices" -> {"ide_init"}
      [] s = "free_map_init" -> {"locate_block_devices", "malloc_init"}
      [] s \in do_format \cup {"free_map_open", "bitmap_read"} ->
           {"locate_block_devices", "malloc_init", "inode_init", "free_map_init"}
      [] OTHER -> {}
  BY <1>1, <1>2, Zenon DEF Needs
<1>4. CASE i \in 1 .. 7
  BY <1>1, <1>3, <1>4, InitOrderIs, SMTT(60) DEF OptionSteps, do_format
<1>5. CASE i \in 8 .. 14
  BY <1>1, <1>3, <1>5, InitOrderIs, SMTT(60) DEF OptionSteps, do_format
<1>6. CASE i \in 15 .. 17
  BY <1>1, <1>3, <1>6, InitOrderIs, SMTT(60) DEF OptionSteps, do_format
<1>7. CASE i \in 18 .. 21
  BY <1>1, <1>3, <1>7, InitOrderIs, SMTT(60) DEF OptionSteps, do_format
<1>8. CASE i \in 22 .. 27
  <2>1. s \in do_format \cup {"free_map_open", "bitmap_read"}
    BY <1>1, <1>8, InitOrderIs, SMTT(60) DEF do_format
  <2>2. n \in {"locate_block_devices", "malloc_init", "inode_init", "free_map_init"}
    BY <1>3, <2>1, SMTT(60) DEF do_format
  <2> QED BY <1>8, <2>2, InitOrderIs, SMTT(60) DEF OptionSteps, do_format
<1>9. i \in 1 .. 27
  BY InitOrderIs
<1> QED BY <1>4, <1>5, <1>6, <1>7, <1>8, <1>9

\* main brings up what each step uses before it.
LEMMA OrderWorks == BootOrder
<1> SUFFICES ASSUME NextStep # "run_actions", NEW n \in Needs[NextStep]
             PROVE  n \in boot.up
  BY DEF BootOrder
<1>1. StepsLeft # {} /\ NextStep = FirstLeft
  BY DEF NextStep
<1>2. PICK i \in DOMAIN InitOrder :
        /\ FirstLeft = InitOrder[i]
        /\ \A j \in 1 .. i - 1 :
             InitOrder[j] \in boot.up \/ InitOrder[j] \in OptionSteps
  BY <1>1, FirstLeftIs
<1>3. n \in Needs[InitOrder[i]]
  BY <1>1, <1>2
<1>4. PICK j \in 1 .. i - 1 : n = InitOrder[j] /\ n \notin OptionSteps
  BY <1>3, NeedsBefore
<1> QED BY <1>2, <1>4

LEMMA NextStepType == NextStep # "run_actions" => NextStep \in BtSteps
<1>1. StepsLeft # {} => FirstLeft \in BtSteps
  BY FirstLeftIs DEF BtSteps
<1> QED BY <1>1 DEF NextStep

-----------------------------------------------------------------------------
(* 5.2 Steps that leave main.                                              *)

\* A state in which neither options nor actions are read keeps the invariant
\* when the actions run stay what they were.
LEMMA LeavesMain ==
  ASSUME BtInv, boot' \in [at : BtPlaces, up : SUBSET BtSteps, context : BtContexts],
         boot'.at \notin {"parse_options", "init", "run_actions"},
         boot'.up = boot.up, argv' \in Seq(BtWord), argv' = argv \/ ran = <<>>,
         UNCHANGED <<ran, line>>, panics' \in Nat, free_map_file' \in {NULL, "open", "freed"},
         PanicInv'
  PROVE  BtInv'
<1>1. BtTypeOK'
  BY DEF BtInv, BtTypeOK
<1>2. OptionsFirst'
  BY DEF OptionsFirst
<1>3. ActionsAsGiven'
  <2>1. CASE ran = <<>>
    BY <2>1 DEF ActionsAsGiven
  <2>2. CASE ran # <<>>
    <3>1. PICK cut \in [1 .. Len(ran) + 1 -> 1 .. Len(line) + 1] : AsGiven(cut)
      BY <2>2, Zenon DEF BtInv, ActionsAsGiven
    <3>2. argv' = argv
      BY <2>2
    <3>3. AsGiven(cut)'
      BY <3>1, <3>2, Zenon DEF AsGiven
    <3>4. \E c \in [1 .. Len(ran') + 1 -> 1 .. Len(line') + 1] : AsGiven(c)'
      BY <3>1, <3>3, Zenon
    <3> QED BY <3>4 DEF ActionsAsGiven
  <2> QED BY <2>1, <2>2
<1> QED BY <1>1, <1>2, <1>3 DEF BtInv

\* Powering off stops the machine unless the free map's file cannot be closed.
LEMMA PowerOffLeaves ==
  ASSUME BtTypeOK, NEW context \in BtContexts, PowerOff(context)
  PROVE  /\ boot' \in [at : BtPlaces, up : SUBSET BtSteps, context : BtContexts]
         /\ boot'.at \in {"stopped", "waits", "debug_panic"} /\ boot'.up = boot.up
         /\ panics' = panics /\ boot'.context \in {boot.context, context}
         /\ boot'.at # "stopped" => Excuse(boot'.context)
BY DEF BtTypeOK, BtPlaces, PowerOff, Panicking, Excuse

LEMMA ShutdownLeaves ==
  ASSUME BtTypeOK, NEW context \in BtContexts, shutdown(context)
  PROVE  /\ boot' \in [at : BtPlaces, up : SUBSET BtSteps, context : BtContexts]
         /\ boot'.at \in {"stopped", "waits", "debug_panic"} /\ boot'.up = boot.up
         /\ panics' = panics /\ boot'.context \in {boot.context, context}
         /\ boot'.at # "stopped" => opts.how = "off" /\ Excuse(boot'.context)
<1>1. CASE opts.how = "off"
  BY <1>1, PowerOffLeaves DEF shutdown
<1>2. CASE opts.how # "off"
  <2>1. boot' = [boot EXCEPT !.at = "stopped"] /\ panics' = panics
    BY <1>2 DEF shutdown
  <2> QED BY <2>1 DEF BtTypeOK, BtPlaces
<1> QED BY <1>1, <1>2

\* A shutdown or a power-off: from main, from an option or an action, or from a panic.
LEMMA MainStops ==
  ASSUME BtInv, NEW context \in BtContexts,
         panics = 0 \/ context = boot.context,
         shutdown(context) \/ (panics = 0 /\ PowerOff(context)),
         argv' \in Seq(BtWord), argv' = argv \/ ran = <<>>,
         UNCHANGED <<opts, ran, line, free_map_file, inode_list>>
  PROVE  BtInv'
<1>1. BtTypeOK /\ panics \in Nat /\ free_map_file \in {NULL, "open", "freed"}
  BY DEF BtInv, BtTypeOK
<1>2. /\ boot' \in [at : BtPlaces, up : SUBSET BtSteps, context : BtContexts]
      /\ boot'.at \in {"stopped", "waits", "debug_panic"} /\ boot'.up = boot.up
      /\ panics' = panics /\ boot'.context \in {boot.context, context}
      /\ boot'.at # "stopped" => Excuse(boot'.context)
      /\ boot'.at # "stopped" /\ panics # 0 => opts.how = "off"
  BY <1>1, ShutdownLeaves, PowerOffLeaves
<1>3. Excused' <=> Excuse(boot'.context)
  BY DEF Excused, Excuse
<1>4. panics > 0 => boot'.context = boot.context
  BY <1>1, <1>2
<1>5. PanicInv'
  <2>1. boot'.at = "waits" => Excused' BY <1>2, <1>3
  <2>2. ASSUME panics' > 1 PROVE opts'.how = "off" /\ Excused'
    <3>1. opts.how = "off" /\ Excused BY <1>2, <2>2 DEF BtInv, PanicInv
    <3> QED BY <1>1, <1>2, <1>3, <1>4, <2>2, <3>1 DEF Excused
  <2>3. ASSUME panics' = 1, boot'.at = "debug_panic" PROVE opts'.how = "off" /\ Excused'
    BY <1>2, <1>3, <2>3
  <2> QED BY <1>2, <2>1, <2>2, <2>3 DEF PanicInv
<1> QED BY <1>1, <1>2, <1>5, LeavesMain

\* A panic where main was reading options, starting or running actions.
LEMMA PanicLeaves ==
  ASSUME BtInv, boot.at \in {"parse_options", "init", "run_actions"},
         NEW context \in BtContexts, Panicking(context),
         argv' \in Seq(BtWord), argv' = argv \/ ran = <<>>, UNCHANGED <<ran, line>>,
         free_map_file' \in {NULL, "open", "freed"}
  PROVE  BtInv'
<1>1. /\ boot' \in [at : BtPlaces, up : SUBSET BtSteps, context : BtContexts]
      /\ boot'.at = "debug_panic" /\ boot'.up = boot.up
  BY DEF BtInv, BtTypeOK, BtPlaces, Panicking
<1>2. panics' = panics /\ panics \in Nat
  BY DEF BtInv, BtTypeOK, Panicking
<1>3. panics = 0
  BY DEF BtInv, PanicInv
<1>4. PanicInv'
  BY <1>1, <1>2, <1>3 DEF PanicInv
<1> QED BY <1>1, <1>2, <1>4, LeavesMain

-----------------------------------------------------------------------------
(* 5.3 The options and the actions.                                        *)

\* A part of the rest of the line is a part of the line.
LEMMA RestOfRest ==
  ASSUME NEW s \in Seq(BtWord), NEW c \in 1 .. Len(s) + 1,
         NEW n \in 1 .. Len(s) - c + 1
  PROVE  /\ SubSeq(SubSeq(s, c, Len(s)), 1, n) = SubSeq(s, c, c + n - 1)
         /\ SubSeq(SubSeq(s, c, Len(s)), n + 1, Len(s) - c + 1) = SubSeq(s, c + n, Len(s))
         /\ SubSeq(s, c, Len(s)) \in Seq(BtWord)
         /\ Len(SubSeq(s, c, Len(s))) = Len(s) - c + 1
         /\ SubSeq(s, c, Len(s))[1] = s[c]
<1>1. Len(s) \in Nat /\ c \in 1 .. Len(s) /\ Len(s) \in 1 .. Len(s) /\ n \in Nat
  OBVIOUS
<1>2. /\ SubSeq(s, c, Len(s)) \in Seq(BtWord)
      /\ Len(SubSeq(s, c, Len(s))) = Len(s) - c + 1
      /\ SubSeq(s, c, Len(s))[1] = s[c]
  <2>1. \A i \in c .. Len(s) : s[i] \in BtWord BY <1>1
  <2> QED BY <1>1, <2>1, SubSeqProperties
<1>3. SubSeq(SubSeq(s, c, Len(s)), 1, n) = SubSeq(s, c, c + n - 1)
  <2>1. 1 \in 1 .. Len(s) - c + 1 /\ n \in 1 .. Len(s) - c + 1 /\ c + 1 - 1 = c
    BY <1>1
  <2> QED BY <1>1, <2>1, SubSeqOfSubSeq
<1>4. SubSeq(SubSeq(s, c, Len(s)), n + 1, Len(s) - c + 1) = SubSeq(s, c + n, Len(s))
  <2>1. CASE n = Len(s) - c + 1
    <3>1. c + n \in Int /\ Len(s) < c + n /\ n + 1 \in Int /\ Len(s) - c + 1 < n + 1
      BY <1>1, <2>1
    <3>2. SubSeq(s, c + n, Len(s)) = <<>>
      BY <1>1, <3>1, SubSeqEmpty
    <3>3. SubSeq(SubSeq(s, c, Len(s)), n + 1, Len(s) - c + 1) = <<>>
      BY <1>1, <3>1, SubSeqEmpty
    <3> QED BY <3>2, <3>3
  <2>2. CASE n # Len(s) - c + 1
    <3>1. /\ n + 1 \in 1 .. Len(s) - c + 1 /\ Len(s) - c + 1 \in 1 .. Len(s) - c + 1
          /\ c + (n + 1) - 1 = c + n /\ c + (Len(s) - c + 1) - 1 = Len(s)
      BY <1>1, <2>2
    <3>2. SubSeq(SubSeq(s, c, Len(s)), n + 1, Len(s) - c + 1)
            = SubSeq(s, c + (n + 1) - 1, c + (Len(s) - c + 1) - 1)
      BY <1>1, <3>1, SubSeqOfSubSeq
    <3> QED BY <3>1, <3>2
  <2> QED BY <2>1, <2>2
<1> QED BY <1>2, <1>3, <1>4

\* How many words an action takes.
LEMMA ArgcIs ==
  /\ \A a \in DOMAIN Argc : Argc[a] \in {1, 2}
BY DEF Argc

\* Running one more action runs the one the line names next, with its arguments.
LEMMA OneMoreAction ==
  ASSUME BtInv, boot.at = "run_actions", Runnable(argv),
         ran' = Append(ran, SubSeq(argv, 1, Argc[argv[1].name])), argv' = Advance(argv),
         UNCHANGED <<boot, panics, line, opts, free_map_file, inode_list>>
  PROVE  BtInv'
<1>0. PICK m, n : m = Len(ran) /\ n = Argc[argv[1].name]
  OBVIOUS
<1>1. /\ line \in Seq(BtWord) /\ argv \in Seq(BtWord) /\ ran \in Seq(Seq(BtWord))
      /\ m \in Nat /\ Len(line) \in Nat
  BY <1>0 DEF BtInv, BtTypeOK
<1>2. PICK cut \in [1 .. m + 1 -> 1 .. Len(line) + 1] : AsGiven(cut)
  BY <1>0, Zenon DEF BtInv, ActionsAsGiven
<1>3. PICK c : c = cut[m + 1]
  OBVIOUS
<1>4. c \in 1 .. Len(line) + 1 /\ argv = SubSeq(line, c, Len(line))
  <2>1. m + 1 \in 1 .. m + 1 BY <1>1
  <2>2. c \in 1 .. Len(line) + 1 BY <1>2, <1>3, <2>1
  <2> QED BY <1>0, <1>2, <1>3, <2>2, Zenon DEF AsGiven
<1>5. /\ argv # <<>> /\ argv[1].name \in DOMAIN Argc /\ Len(argv) >= n /\ n \in {1, 2}
  BY <1>0, ArgcIs DEF Runnable
<1>6. c \in 1 .. Len(line)
  <2>1. c # Len(line) + 1
    <3> SUFFICES ASSUME c = Len(line) + 1 PROVE FALSE OBVIOUS
    <3>1. c \in Int /\ Len(line) \in Int /\ Len(line) < c
      BY <1>1, <1>4
    <3>2. argv = <<>>
      BY <1>4, <3>1, SubSeqEmpty
    <3> QED BY <3>2, <1>5
  <2>2. Len(line) \in Nat /\ c \in 1 .. Len(line) + 1
    BY <1>1, <1>4, Zenon
  <2> QED BY ONLY <2>1, <2>2
<1>7. Len(argv) = Len(line) - c + 1 /\ argv[1] = line[c]
  <2>1. 1 \in 1 .. Len(line) - c + 1 BY <1>1, <1>6
  <2>2. /\ Len(SubSeq(line, c, Len(line))) = Len(line) - c + 1
        /\ SubSeq(line, c, Len(line))[1] = line[c]
    BY <1>1, <1>4, <2>1, RestOfRest, Zenon
  <2> QED BY <1>4, <2>2
<1>8. n \in 1 .. Len(line) - c + 1
  BY <1>1, <1>5, <1>6, <1>7
<1>9. /\ SubSeq(argv, 1, n) = SubSeq(line, c, c + n - 1)
      /\ SubSeq(argv, n + 1, Len(argv)) = SubSeq(line, c + n, Len(line))
  <2>1. /\ SubSeq(SubSeq(line, c, Len(line)), 1, n) = SubSeq(line, c, c + n - 1)
        /\ SubSeq(SubSeq(line, c, Len(line)), n + 1, Len(line) - c + 1)
             = SubSeq(line, c + n, Len(line))
    BY <1>1, <1>4, <1>8, RestOfRest, Zenon
  <2> QED BY <1>4, <1>7, <2>1, Zenon
<1>10. SubSeq(line, c, c + n - 1) \in Seq(BtWord) /\ SubSeq(line, c, c + n - 1)[1] = line[c]
  <2>1. c \in Int /\ c + n - 1 \in Int /\ 1 \in 1 .. (c + n - 1) - c + 1 /\ c + 1 - 1 = c
    BY <1>1, <1>6, <1>8
  <2>2. ASSUME NEW i \in c .. c + n - 1 PROVE line[i] \in BtWord
    <3>1. i \in 1 .. Len(line) BY <1>1, <1>6, <1>8
    <3> QED BY <1>1, <3>1
  <2> QED BY <2>1, <2>2, SubSeqProperties
<1>11. PICK word : word = SubSeq(line, c, c + n - 1)
  OBVIOUS
<1>12. /\ ran' = Append(ran, word) /\ word \in Seq(BtWord)
       /\ ran' \in Seq(Seq(BtWord))
       /\ Len(ran') = m + 1 /\ ran'[m + 1] = word
       /\ \A i \in 1 .. m : ran'[i] = ran[i]
  <2>1. ran' = Append(ran, word) /\ word \in Seq(BtWord)
    BY <1>0, <1>9, <1>10, <1>11
  <2>2. ran' \in Seq(Seq(BtWord)) /\ Len(ran') = m + 1 /\ ran'[m + 1] = word
        /\ \A i \in 1 .. m : ran'[i] = ran[i]
    <3>1. /\ Append(ran, word) \in Seq(Seq(BtWord))
          /\ Len(Append(ran, word)) = Len(ran) + 1
          /\ \A i \in 1 .. Len(ran) : Append(ran, word)[i] = ran[i]
          /\ Append(ran, word)[Len(ran) + 1] = word
      BY ONLY <1>1, <2>1, AppendProperties
    <3> QED BY <1>0, <2>1, <3>1, Zenon
  <2> QED BY <2>1, <2>2
<1>13. argv' = SubSeq(line, c + n, Len(line)) /\ argv' \in Seq(BtWord)
  <2>1. argv' = SubSeq(line, c + n, Len(line))
    BY <1>0, <1>9, Zenon DEF Advance
  <2>2. ASSUME NEW i \in c + n .. Len(line) PROVE line[i] \in BtWord
    <3>1. i \in 1 .. Len(line) BY <1>1, <1>6, <1>8
    <3> QED BY <1>1, <3>1
  <2>3. c + n \in Int /\ Len(line) \in Int
    BY <1>1, <1>6, <1>8
  <2> QED BY <2>1, <2>2, <2>3, SubSeqProperties
<1>14. BtTypeOK'
  BY <1>12, <1>13 DEF BtInv, BtTypeOK
<1>15. OptionsFirst'
  BY DEF OptionsFirst
<1>16. PanicInv'
  BY DEF BtInv, PanicInv, Excused, Excuse
<1>17. PICK next : next = [i \in 1 .. m + 2 |-> IF i = m + 2 THEN c + n ELSE cut[i]]
  OBVIOUS
<1>18. /\ next \in [1 .. m + 2 -> 1 .. Len(line) + 1]
       /\ \A i \in 1 .. m + 1 : next[i] = cut[i]
       /\ next[m + 2] = c + n /\ next[m + 1] = c
  <2>1. c + n \in 1 .. Len(line) + 1 BY <1>1, <1>6, <1>8
  <2>2. ASSUME NEW i \in 1 .. m + 2
        PROVE  (IF i = m + 2 THEN c + n ELSE cut[i]) \in 1 .. Len(line) + 1
    <3>1. i # m + 2 => i \in 1 .. m + 1 BY <1>1
    <3> QED BY <1>2, <2>1, <3>1
  <2>3. next \in [1 .. m + 2 -> 1 .. Len(line) + 1]
    BY <1>17, <2>2
  <2>4. ASSUME NEW i \in 1 .. m + 1 PROVE next[i] = cut[i]
    <3>1. i \in 1 .. m + 2 /\ i # m + 2 BY <1>1
    <3> QED BY <1>17, <3>1
  <2>5. m + 2 \in 1 .. m + 2 /\ m + 1 \in 1 .. m + 1 BY <1>1
  <2>6. next[m + 2] = c + n BY <1>17, <2>5
  <2> QED BY <1>3, <2>3, <2>4, <2>5, <2>6
<1>19. AsGiven(next)'
  <2>1. cut[1] = next[1]
    BY <1>1, <1>18
  <2>2. /\ \A k \in 1 .. (next[1] - 1) : IsOption(line'[k])
        /\ next[1] <= Len(line') => ~IsOption(line'[next[1]])
    BY <1>2, <2>1 DEF AsGiven
  <2>3. ASSUME NEW i \in DOMAIN ran'
        PROVE  /\ ran'[i] = SubSeq(line', next[i], next[i + 1] - 1)
               /\ ran'[i][1].name \in DOMAIN Argc
               /\ next[i + 1] - next[i] = Argc[ran'[i][1].name]
    <3>1. i \in 1 .. m + 1
      <4>1. DOMAIN ran' = 1 .. m + 1 BY <1>12
      <4> QED BY <4>1
    <3>2. CASE i \in 1 .. m
      <4>1. DOMAIN ran = 1 .. m BY <1>0, <1>1
      <4>3. i \in DOMAIN ran /\ i \in 1 .. m + 1 /\ i + 1 \in 1 .. m + 1
        <5>1. i \in 1 .. m + 1 /\ i + 1 \in 1 .. m + 1
          <6>1. m \in Nat BY <1>1
          <6> QED BY ONLY <3>2, <6>1
        <5> QED BY <3>2, <4>1, <5>1, Zenon
      <4>2. ran'[i] = ran[i] /\ next[i] = cut[i] /\ next[i + 1] = cut[i + 1]
        BY <1>12, <1>18, <3>2, <4>3
      <4> QED BY <1>2, <4>2, <4>3, Zenon DEF AsGiven
    <3>3. CASE i = m + 1
      <4>1. next[i] = c /\ next[i + 1] = c + n /\ ran'[i] = word
        BY <1>1, <1>12, <1>18, <3>3
      <4>2. ran'[i][1] = argv[1]
        BY <1>7, <1>10, <1>11, <4>1
      <4>3. c \in Int /\ n \in Int /\ c + n - c = n
        BY <1>1, <1>6, <1>8
      <4>4. Argc[ran'[i][1].name] = n /\ ran'[i][1].name \in DOMAIN Argc
        BY <1>0, <1>5, <4>2
      <4>5. ran'[i] = SubSeq(line', next[i], next[i + 1] - 1)
        <5>1. line' = line OBVIOUS
        <5>2. next[i + 1] - 1 = c + n - 1 BY ONLY <4>1, <4>3
        <5>3. ran'[i] = SubSeq(line, c, c + n - 1) BY <1>11, <4>1, Zenon
        <5> QED BY ONLY <5>1, <5>2, <5>3, <4>1, Zenon
      <4>6. next[i + 1] - next[i] = n BY ONLY <4>1, <4>3
      <4> QED BY <4>4, <4>5, <4>6, Zenon
    <3>4. i \in 1 .. m \/ i = m + 1 BY <1>1, <3>1
    <3> QED BY <3>2, <3>3, <3>4
  <2>4. argv' = SubSeq(line', next[Len(ran') + 1], Len(line'))
    <3>1. Len(ran') + 1 = m + 2 BY <1>1, <1>12
    <3> QED BY <1>13, <1>18, <3>1
  <2> QED BY <2>2, <2>3, <2>4, Zenon DEF AsGiven
<1>20. ActionsAsGiven'
  <2>1. Len(ran') + 1 = m + 2 BY <1>1, <1>12
  <2>2. next \in [1 .. Len(ran') + 1 -> 1 .. Len(line') + 1]
    BY <1>18, <2>1
  <2>3. \E x \in [1 .. Len(ran') + 1 -> 1 .. Len(line') + 1] : AsGiven(x)'
    BY <1>19, <2>2, Zenon
  <2> QED BY <2>3 DEF ActionsAsGiven
<1> QED BY <1>14, <1>15, <1>16, <1>20 DEF BtInv

\* One option read, or the first word that is none found.
LEMMA OptionStep ==
  ASSUME BtInv, parse_options, UNCHANGED line
  PROVE  BtInv'
<1>1. /\ boot.at = "parse_options" /\ ran = <<>> /\ ran' = <<>>
      /\ UNCHANGED <<free_map_file, inode_list>> /\ free_map_file \in {NULL, "open", "freed"}
      /\ line \in Seq(BtWord) /\ argv \in Seq(BtWord) /\ Len(line) \in Nat
      /\ BtTypeOK
  BY DEF BtInv, BtTypeOK, OptionsFirst, parse_options
<1>2. PICK k \in 1 .. Len(line) + 1 : /\ \A i \in 1 .. k - 1 : IsOption(line[i])
                                      /\ argv = SubSeq(line, k, Len(line))
  BY <1>1 DEF BtInv, OptionsFirst
<1>3. ASSUME argv # <<>>
      PROVE  /\ k \in 1 .. Len(line) /\ Head(argv) = line[k]
             /\ Tail(argv) = SubSeq(line, k + 1, Len(line)) /\ Tail(argv) \in Seq(BtWord)
  <2>1. k # Len(line) + 1
    BY <1>1, <1>2, <1>3, SubSeqEmpty
  <2>2. k \in 1 .. Len(line) /\ Len(line) \in k .. Len(line)
    BY <1>1, <2>1
  <2>3. Head(argv) = line[k] /\ Tail(argv) = SubSeq(line, k + 1, Len(line))
    BY <1>1, <1>2, <2>2, HeadTailOfSubSeq
  <2>4. Tail(argv) \in Seq(BtWord)
    BY <1>1, <1>3, HeadTailProperties
  <2> QED BY <2>2, <2>3, <2>4
<1>4. CASE /\ argv # <<>> /\ IsOption(Head(argv)) /\ argv' = Tail(argv)
           /\ PowerOff("thread") /\ UNCHANGED <<ran, opts>>
  <2>1. "thread" \in BtContexts /\ panics = 0 BY <1>1 DEF BtContexts, BtInv, PanicInv
  <2>2. argv' \in Seq(BtWord) /\ (argv' = argv \/ ran = <<>>) BY <1>1, <1>3, <1>4
  <2>3. UNCHANGED <<opts, ran, line, free_map_file, inode_list>> BY <1>1, <1>4
  <2> QED BY <1>4, <2>1, <2>2, <2>3, MainStops
<1>5. CASE /\ argv # <<>> /\ IsOption(Head(argv)) /\ argv' = Tail(argv)
           /\ Panicking("thread") /\ UNCHANGED ran
  <2>1. "thread" \in BtContexts BY DEF BtContexts
  <2> QED BY <1>1, <1>3, <1>5, <2>1, PanicLeaves
<1>6. CASE /\ argv # <<>> /\ IsOption(Head(argv)) /\ argv' = Tail(argv)
           /\ UNCHANGED <<boot, panics, machine, ran>>
  <2>1. k \in 1 .. Len(line) /\ IsOption(line[k]) /\ argv' = SubSeq(line, k + 1, Len(line))
        /\ argv' \in Seq(BtWord)
    BY <1>3, <1>6
  <2>2. BtTypeOK'
    BY <1>1, <1>6, <2>1 DEF BtTypeOK
  <2>3. \A i \in 1 .. (k + 1) - 1 : IsOption(line[i])
    <3> SUFFICES ASSUME NEW i \in 1 .. (k + 1) - 1 PROVE IsOption(line[i]) OBVIOUS
    <3>1. i = k \/ i \in 1 .. k - 1 BY <1>1, <2>1
    <3> QED BY <1>2, <2>1, <3>1
  <2>4. k + 1 \in 1 .. Len(line) + 1
    BY <1>1, <2>1
  <2>5. OptionsFirst'
    BY <1>1, <1>6, <2>1, <2>3, <2>4, Zenon DEF OptionsFirst
  <2>6. ActionsAsGiven'
    BY <1>1, <1>6 DEF ActionsAsGiven
  <2>7. PanicInv'
    BY <1>1, <1>6 DEF BtInv, PanicInv, Excused, Excuse
  <2> QED BY <2>2, <2>5, <2>6, <2>7 DEF BtInv
<1>7. CASE /\ argv # <<>> => ~IsOption(Head(argv))
           /\ boot' = [boot EXCEPT !.at = "init"]
           /\ UNCHANGED <<opts, argv, panics, machine, ran>>
  <2>1. BtTypeOK'
    BY <1>1, <1>7 DEF BtTypeOK, BtPlaces
  <2>2. boot'.at = "init" /\ boot'.up = boot.up
    BY <1>1, <1>7 DEF BtTypeOK
  <2>3. OptionsFirst'
    BY <2>2 DEF OptionsFirst
  <2>4. k <= Len(line) => ~IsOption(line[k])
    <3> SUFFICES ASSUME k <= Len(line) PROVE ~IsOption(line[k]) OBVIOUS
    <3>1. k \in 1 .. Len(line) /\ Len(line) \in k .. Len(line)
      BY <1>1
    <3>2. Len(argv) = Len(line) - k + 1
      <4>1. 1 \in 1 .. Len(line) - k + 1 BY <1>1, <3>1
      <4> QED BY <1>1, <1>2, <4>1, RestOfRest
    <3>3. argv # <<>>
      BY <1>1, <3>1, <3>2
    <3> QED BY <1>3, <1>7, <3>3
  <2>5. PICK cut : cut = [i \in 1 .. 1 |-> k]
    OBVIOUS
  <2>6. cut[1] = k /\ cut \in [1 .. Len(ran') + 1 -> 1 .. Len(line') + 1] /\ Len(ran') = 0
        /\ DOMAIN ran' = {}
    BY <1>1, <2>5
  <2>7. AsGiven(cut)'
    <3>1. /\ \A i \in 1 .. (cut[1] - 1) : IsOption(line'[i])
          /\ cut[1] <= Len(line') => ~IsOption(line'[cut[1]])
      BY <1>2, <2>4, <2>6
    <3>2. argv' = SubSeq(line', cut[Len(ran') + 1], Len(line'))
      <4>1. Len(ran') + 1 = 1 BY <2>6
      <4> QED BY <1>2, <1>7, <2>6, <4>1
    <3>3. \A i \in DOMAIN ran' : /\ ran'[i] = SubSeq(line', cut[i], cut[i + 1] - 1)
                                 /\ ran'[i][1].name \in DOMAIN Argc
                                 /\ cut[i + 1] - cut[i] = Argc[ran'[i][1].name]
      BY <2>6
    <3> QED BY <3>1, <3>2, <3>3, Zenon DEF AsGiven
  <2>8. ActionsAsGiven'
    <3>1. \E x \in [1 .. Len(ran') + 1 -> 1 .. Len(line') + 1] : AsGiven(x)'
      BY <2>6, <2>7, Zenon
    <3> QED BY <3>1 DEF ActionsAsGiven
  <2>9. PanicInv'
    BY <1>1, <1>7, <2>2 DEF BtInv, BtTypeOK, PanicInv
  <2> QED BY <2>1, <2>3, <2>8, <2>9 DEF BtInv
<1> QED BY <1>4, <1>5, <1>6, <1>7 DEF parse_options

-----------------------------------------------------------------------------
(* 5.4 The other steps, and the theorem.                                   *)

\* main goes on: its place and what is up change, and the rest stays.
LEMMA MainGoesOn ==
  ASSUME BtInv, boot.at \in {"init", "run_actions"},
         boot' \in [at : BtPlaces, up : SUBSET BtSteps, context : BtContexts],
         boot'.at \in {"init", "run_actions"}, boot.up \subseteq boot'.up,
         UNCHANGED <<argv, ran, line, panics>>, free_map_file' \in {NULL, "open", "freed"}
  PROVE  BtInv'
<1>1. BtTypeOK'
  BY DEF BtInv, BtTypeOK
<1>2. OptionsFirst'
  BY DEF OptionsFirst
<1>3. PICK cut \in [1 .. Len(ran) + 1 -> 1 .. Len(line) + 1] : AsGiven(cut)
  BY DEF BtInv, ActionsAsGiven
<1>4. AsGiven(cut)'
  BY <1>3, Zenon DEF AsGiven
<1>5. \E c \in [1 .. Len(ran') + 1 -> 1 .. Len(line') + 1] : AsGiven(c)'
  BY <1>3, <1>4, Zenon
<1>6. ActionsAsGiven'
  BY <1>5 DEF ActionsAsGiven
<1>7. PanicInv'
  BY DEF BtInv, BtTypeOK, PanicInv
<1> QED BY <1>1, <1>2, <1>6, <1>7 DEF BtInv

LEMMA MainStep ==
  ASSUME BtInv, InitStep, UNCHANGED line
  PROVE  BtInv'
<1>1. /\ boot.at = "init" /\ UNCHANGED <<argv, ran>> /\ argv \in Seq(BtWord)
      /\ free_map_file' \in {NULL, "open", "freed"}
      /\ boot \in [at : BtPlaces, up : SUBSET BtSteps, context : BtContexts]
  BY DEF InitStep, BtInv, BtTypeOK
<1>2. CASE Panicking("thread")
  <2>1. "thread" \in BtContexts BY DEF BtContexts
  <2> QED BY <1>1, <1>2, <2>1, PanicLeaves
<1>3. CASE /\ NextStep # "run_actions" /\ boot' = [boot EXCEPT !.up = @ \cup {NextStep}]
           /\ UNCHANGED <<panics, machine>>
  <2>1. NextStep \in BtSteps BY <1>3, NextStepType
  <2>2. /\ boot' \in [at : BtPlaces, up : SUBSET BtSteps, context : BtContexts]
        /\ boot'.at = "init" /\ boot.up \subseteq boot'.up
    BY <1>1, <1>3, <2>1
  <2> QED BY <1>1, <1>3, <2>2, MainGoesOn
<1>4. CASE boot' = [boot EXCEPT !.at = "run_actions"] /\ UNCHANGED <<panics, machine>>
  <2>1. /\ boot' \in [at : BtPlaces, up : SUBSET BtSteps, context : BtContexts]
        /\ boot'.at = "run_actions" /\ boot.up \subseteq boot'.up
    BY <1>1, <1>4 DEF BtPlaces
  <2> QED BY <1>1, <1>4, <2>1, MainGoesOn
<1> QED BY <1>2, <1>3, <1>4 DEF InitStep

LEMMA ActionStep ==
  ASSUME BtInv, run_actions, UNCHANGED line
  PROVE  BtInv'
<1>1. /\ boot.at = "run_actions" /\ "thread" \in BtContexts /\ argv \in Seq(BtWord) /\ panics = 0
      /\ UNCHANGED <<opts, free_map_file, inode_list>> /\ free_map_file \in {NULL, "open", "freed"}
  BY DEF run_actions, BtContexts, BtInv, BtTypeOK, PanicInv
<1>2. CASE shutdown("thread") /\ UNCHANGED <<argv, ran>>
  BY <1>1, <1>2, MainStops
<1>3. CASE Panicking("thread") /\ UNCHANGED <<argv, ran>>
  BY <1>1, <1>3, PanicLeaves
<1>4. CASE /\ Runnable(argv)
           /\ ran' = Append(ran, SubSeq(argv, 1, Argc[argv[1].name]))
           /\ argv' = Advance(argv)
           /\ UNCHANGED <<boot, panics, machine>>
  BY <1>1, <1>4, OneMoreAction
<1> QED BY <1>2, <1>3, <1>4 DEF run_actions

LEMMA PanicStep ==
  ASSUME BtInv, DebugPanic \/ PanicShutdown, UNCHANGED line
  PROVE  BtInv'
<1>1. /\ boot \in [at : BtPlaces, up : SUBSET BtSteps, context : BtContexts]
      /\ argv \in Seq(BtWord) /\ panics \in Nat
      /\ free_map_file \in {NULL, "open", "freed"}
  BY DEF BtInv, BtTypeOK
<1>2. CASE DebugPanic
  <2>1. /\ boot.at = "debug_panic" /\ panics' = panics + 1
        /\ boot' = [boot EXCEPT !.at = "shutdown"]
        /\ UNCHANGED <<argv, ran, opts, free_map_file, inode_list>>
    BY <1>2 DEF DebugPanic
  <2>2. /\ boot' \in [at : BtPlaces, up : SUBSET BtSteps, context : BtContexts]
        /\ boot'.at = "shutdown" /\ boot'.up = boot.up /\ boot'.context = boot.context
    BY <1>1, <2>1 DEF BtPlaces
  <2>3. PanicInv'
    BY <1>1, <2>1, <2>2 DEF BtInv, PanicInv, Excused, Excuse
  <2> QED BY <1>1, <2>1, <2>2, <2>3, LeavesMain
<1>3. CASE PanicShutdown
  <2>1. /\ shutdown(boot.context) /\ boot.context \in BtContexts
        /\ UNCHANGED <<argv, ran, opts, free_map_file, inode_list>>
    BY <1>1, <1>3 DEF PanicShutdown
  <2> QED BY <1>1, <2>1, MainStops
<1> QED BY <1>2, <1>3

LEMMA BtInvInit == BtInit => BtInv
<1> SUFFICES ASSUME BtInit PROVE BtInv OBVIOUS
<1>1. /\ boot = [at |-> "parse_options", up |-> {}, context |-> "thread"]
      /\ line \in Seq(BtWord) /\ argv = line /\ ran = <<>> /\ panics = 0
      /\ free_map_file = NULL
  BY BtAssumption DEF BtInit, BtWord
<1>2. BtTypeOK
  BY <1>1 DEF BtTypeOK, BtPlaces, BtContexts
<1>3. OptionsFirst
  <2>1. Len(line) \in Nat /\ 1 \in 1 .. Len(line) + 1 /\ 1 .. 1 - 1 = {}
    BY <1>1
  <2>2. argv = SubSeq(line, 1, Len(line))
    BY <1>1, SubSeqFull
  <2> QED BY <1>1, <2>1, <2>2 DEF OptionsFirst
<1>4. ActionsAsGiven
  BY <1>1 DEF ActionsAsGiven
<1>5. PanicInv
  BY <1>1 DEF PanicInv
<1> QED BY <1>2, <1>3, <1>4, <1>5 DEF BtInv

LEMMA BtInvStep == BtInv /\ [BtNext]_btVars => BtInv'
<1> SUFFICES ASSUME BtInv, [BtNext]_btVars PROVE BtInv' OBVIOUS
<1>1. CASE UNCHANGED btVars
  <2>1. UNCHANGED <<boot, line, argv, ran, panics, opts, free_map_file, inode_list>>
    BY <1>1 DEF btVars
  <2>2. BtTypeOK' /\ OptionsFirst' /\ PanicInv'
    BY <2>1 DEF BtInv, BtTypeOK, OptionsFirst, PanicInv, Excused, Excuse
  <2>3. ActionsAsGiven'
    BY <2>1, Zenon DEF BtInv, ActionsAsGiven, AsGiven
  <2> QED BY <2>2, <2>3 DEF BtInv
<1>2. CASE parse_options /\ UNCHANGED line
  BY <1>2, OptionStep
<1>3. CASE InitStep /\ UNCHANGED line
  BY <1>3, MainStep
<1>4. CASE run_actions /\ UNCHANGED line
  BY <1>4, ActionStep
<1>5. CASE Halt /\ UNCHANGED line
  <2>1. /\ PowerOff("thread") /\ "thread" \in BtContexts /\ panics = 0 /\ argv \in Seq(BtWord)
        /\ UNCHANGED <<argv, ran, opts, free_map_file, inode_list>>
    BY <1>5 DEF Halt, BtContexts, BtInv, BtTypeOK, PanicInv
  <2> QED BY <1>5, <2>1, MainStops
<1>6. CASE ListLock /\ UNCHANGED line
  <2>1. UNCHANGED <<boot, argv, ran, line, panics>> /\ boot.at \in {"init", "run_actions"}
        /\ free_map_file' = free_map_file
    BY <1>6 DEF ListLock
  <2> QED BY <2>1, MainGoesOn DEF BtInv, BtTypeOK
<1>7. CASE Crash /\ UNCHANGED line
  <2>1. PICK c \in BtContexts : Panicking(c)
    BY <1>7 DEF Crash, BtContexts
  <2>2. boot.at \in {"init", "run_actions"} /\ UNCHANGED <<argv, ran, line>>
        /\ argv \in Seq(BtWord) /\ free_map_file' \in {NULL, "open", "freed"}
    BY <1>7 DEF Crash, BtInv, BtTypeOK
  <2> QED BY <2>1, <2>2, PanicLeaves
<1>8. CASE (DebugPanic \/ PanicShutdown) /\ UNCHANGED line
  BY <1>8, PanicStep
<1> QED BY <1>1, <1>2, <1>3, <1>4, <1>5, <1>6, <1>7, <1>8, Zenon DEF BtNext

\* The machine comes up in an order that works, runs the actions of its command line and
\* no others, and a panic stops it at any point of the boot, unless the free map's file is
\* set and cannot be closed then (init.c, free-map.c, shutdown.c, debug.c).
THEOREM BootCorrect == BtSpec => []BootSound
<1>1. BtInit => BtInv
  BY BtInvInit
<1>2. BtInv /\ [BtNext]_btVars => BtInv'
  BY BtInvStep
<1>3. BtInv => BootSound
  <2>1. BtInv => PanicStops BY DEF BtInv, PanicInv, PanicStops, Excused, Excuse
  <2> QED BY <2>1, OrderWorks DEF BtInv, BootSound
<1> QED BY <1>1, <1>2, <1>3, PTL DEF BtSpec
=============================================================================
