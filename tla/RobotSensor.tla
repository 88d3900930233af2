---------------------------- MODULE RobotSensor -----------------------------
(***************************************************************************)
(* The sensor module of the warehouse robot: a main loop that reads the    *)
(* tape sensors, the gyro and the ultrasound sensor, a timer interrupt     *)
(* that counts milliseconds and a TWI interrupt that answers the master.   *)
(* The interrupts touch the main loop's variables, so the loop is one step *)
(* per shared access, and a 16-bit variable is stored a byte at a time.    *)
(* An interrupt runs without being interrupted, except that a reset turns  *)
(* the interrupts on again when it has read the clock: from there it too   *)
(* is one step per access.  An angle is the sum of rate times              *)
(* milliseconds, without the scale factor.                                 *)
(***************************************************************************)
EXTENDS Integers, Sequences

CONSTANTS
  Readings,              \* what the gyro's converter returns when it is done
  Pulses,                \* lengths of the echo pulse in microseconds, 0 for no echo
  Tape,                  \* what a tape sensor's converter returns
  LED_COUNT,
  CONSECUTIVE_READINGS,
  I2C_BUFFER_SIZE,
  SoundPause,            \* milliseconds between two pulses
  CMDs,                  \* the commands the master sends
  ClockMod,              \* uint32_t holds the times below this one
  MaxMillis, MaxTransfers

ASSUME RsAssumption ==
  /\ Readings \subseteq 0 .. 2047 /\ Tape \subseteq 0 .. 1023 /\ Pulses \subseteq Nat
  /\ CONSECUTIVE_READINGS \in 2 .. 255
  /\ LED_COUNT \in Nat \ {0} /\ I2C_BUFFER_SIZE \in Nat /\ I2C_BUFFER_SIZE > 0
  /\ SoundPause \in Nat /\ ClockMod \in Nat /\ MaxMillis \in Nat /\ MaxMillis < ClockMod

VARIABLES
  \* The main loop: its step, the diode it reads, and the locals of its functions; fresh is
  \* history, what the copy of currentAngle should be.
  mainStep, diode, adcValue, currentTime, deltaTime, copied, fresh, switched, timestamp,
  \* The gyro's variables.
  currentState, stableCount, currentAngle, lastUpdateTime, angleTracking,
  shown,           \* the Global... variables the replies are made of
  enabled,         \* the GlobalEnable... flags
  millisCounter,
  \* The TWI: the variables of i2c.c, and whether TWCR has the interface switched on.
  i2c_busy, i2c_last_success, i2c_index, i2c_message_length, tx_buffer, twi_on,
  fills,           \* the resets that run in the interrupt, the last one innermost
  \* The master: its transfer, the command it wrote, the bytes it got; and history: the bytes it
  \* should get, whether it may get others, the number of transfers, whether a bus error came
  \* while the bus was busy.
  phase, request, got, expected, unsure, transfers, deaf,
  \* History: valid readings in a row below the threshold since the last reset (until done), the
  \* angle turned since the last reset and the time up to which it is counted; whether a reset
  \* fell into getRotationState's last steps, or between two steps that belong together in time.
  quiet, turned, since, lost, crossed,
  measured         \* history: what shown would be if the main loop were never interrupted

locals == <<diode, adcValue, currentTime, deltaTime, copied, fresh, switched, timestamp>>
gyrovars == <<currentState, stableCount, currentAngle, lastUpdateTime, angleTracking>>
report == <<shown, measured>>
twivars == <<i2c_busy, i2c_last_success, i2c_index, i2c_message_length, tx_buffer, twi_on>>
mastervars == <<phase, request, got, expected, unsure, transfers, deaf>>
truth == <<quiet, turned, since, lost, crossed>>
rsvars == <<mainStep, locals, gyrovars, report, enabled, millisCounter, twivars, fills, mastervars,
            truth>>

Failed == 65535
ROTATION_THRESHOLD == 50
Zero == 1008             \* zeroRateOffset: the reading gyrosSensorInit took at rest
Diff(adc) == IF adc >= Zero THEN adc - Zero ELSE Zero - adc
Still == Diff(adcValue) < ROTATION_THRESHOLD
Word16(v) == <<v % 256, (v \div 256) % 256>>

\* The main loop runs when no interrupt does.
Here(at) == mainStep = at /\ fills = <<>>
Goto(to) == mainStep' = to /\ UNCHANGED locals
\* The end of a function: its locals are gone.
Return(to) ==
  /\ mainStep' = to /\ adcValue' = 0 /\ currentTime' = 0 /\ deltaTime' = 0 /\ copied' = 0
  /\ fresh' = 0 /\ switched' = "idle" /\ UNCHANGED <<diode, timestamp>>
Take(adc, to) ==
  /\ mainStep' = to /\ adcValue' = adc
  /\ UNCHANGED <<diode, currentTime, deltaTime, copied, fresh, switched, timestamp>>
Copy(value, to) ==
  /\ mainStep' = to /\ copied' = value
  /\ UNCHANGED <<diode, adcValue, currentTime, deltaTime, fresh, switched, timestamp>>

\* TIMER0_COMPA_vect
Tick ==
  /\ millisCounter < MaxMillis
  /\ millisCounter' = millisCounter + 1
  /\ UNCHANGED <<mainStep, locals, gyrovars, report, enabled, twivars, fills, mastervars, truth>>

-----------------------------------------------------------------------------
(* The main loop *)

\* readADC: a conversion that is not done gives 0xFFFF.
readADC == Readings \cup {Failed}

CheckBus ==
  /\ \/ Here("top") /\ Goto(IF i2c_busy THEN "tape" ELSE "success")
     \/ Here("success") /\ Goto(IF i2c_last_success THEN "again" ELSE "restart")
     \/ Here("again") /\ Goto(IF i2c_busy THEN "tape" ELSE "restart")
  /\ UNCHANGED <<gyrovars, report, twivars, truth>>

i2c_restart ==
  /\ \/ Here("restart") /\ ~i2c_busy /\ Goto("enable") /\ UNCHANGED <<twi_on, i2c_busy>>
     \/ Here("enable") /\ Goto("clear") /\ twi_on' = TRUE /\ UNCHANGED i2c_busy
     \/ Here("clear") /\ Goto("tape") /\ i2c_busy' = FALSE /\ UNCHANGED twi_on
  /\ UNCHANGED <<gyrovars, report, i2c_last_success, i2c_index, i2c_message_length, tx_buffer,
                 truth>>

\* TapeReadSensorBack, then TapeReadSensorFront, a diode at a time.
TapeReadSensor ==
  /\ \/ /\ Here("tape") /\ enabled.tape /\ diode < 2 * LED_COUNT
        /\ \E v \in Tape, b \in 1 .. 2 :
             shown' = [shown EXCEPT !.tape[diode + 1][b] = Word16(v)[b]] /\ Take(v, "tape2")
        /\ UNCHANGED measured
     \/ /\ Here("tape2")
        /\ shown' = [shown EXCEPT !.tape[diode + 1] = Word16(adcValue)]
        /\ measured' = [measured EXCEPT !.tape[diode + 1] = Word16(adcValue)]
        /\ mainStep' = "tape" /\ diode' = diode + 1 /\ adcValue' = 0
        /\ UNCHANGED <<currentTime, deltaTime, copied, fresh, switched, timestamp>>
  /\ UNCHANGED <<gyrovars, twivars, truth>>

TapeDone ==
  /\ Here("tape") /\ (~enabled.tape \/ diode >= 2 * LED_COUNT)
  /\ mainStep' = "gyros" /\ diode' = 0
  /\ UNCHANGED <<adcValue, currentTime, deltaTime, copied, fresh, switched, timestamp>>
  /\ UNCHANGED <<gyrovars, report, twivars, truth>>

\* GlobalEnableGyros, then angleTrackingActive
GyrosWanted ==
  /\ \/ Here("gyros") /\ Goto(IF enabled.gyro THEN "tracking" ELSE "sound")
     \/ Here("tracking") /\ Goto(IF angleTracking THEN "adc" ELSE "raw")
  /\ UNCHANGED <<gyrovars, report, twivars, truth>>

\* gyrosUpdateAngle
UpdateReads ==
  /\ Here("adc")
  /\ \E adc \in readADC : IF adc = Failed THEN Return("raw") ELSE Take(adc, "now")
  /\ UNCHANGED <<gyrovars, report, twivars, truth>>

\* gyrosGetMillis turns the interrupts off while it copies the four bytes.
gyrosGetMillisTorn ==                            \* a mistake: a tick between two bytes
  \E next \in {millisCounter, millisCounter + 1} :
    currentTime' = 2 * (next \div 2) + (millisCounter % 2)
gyrosGetMillis == currentTime' = millisCounter

GetMillis(from, to) ==
  /\ Here(from) /\ mainStep' = to /\ gyrosGetMillis
  /\ UNCHANGED <<diode, adcValue, deltaTime, copied, fresh, switched, timestamp>>

UpdateNow == GetMillis("now", "delta") /\ UNCHANGED <<gyrovars, report, twivars, truth>>

\* currentTime - lastUpdateTime wraps when a reset came after currentTime was read.
UpdateDelta ==
  /\ Here("delta") /\ mainStep' = "updated"
  /\ deltaTime' = (currentTime - lastUpdateTime) % ClockMod
  /\ UNCHANGED <<diode, adcValue, currentTime, copied, fresh, switched, timestamp>>
  /\ UNCHANGED <<gyrovars, report, twivars, truth>>

UpdateTime ==
  /\ Here("updated")
  /\ lastUpdateTime' = currentTime
  /\ IF Diff(adcValue) < 10 THEN Return("raw") /\ since' = currentTime
     ELSE Goto("angle") /\ UNCHANGED since
  /\ UNCHANGED <<currentState, stableCount, currentAngle, angleTracking, report, twivars,
                 quiet, turned, lost, crossed>>

\* currentAngle += rate * deltaTime: the old angle is read, the new one stored.  What was
\* really turned is the rate times the time since the angle was last counted.
UpdateAngle ==
  /\ \/ /\ Here("angle") /\ Copy(currentAngle, "store")
        /\ UNCHANGED <<currentAngle, turned, since>>
     \/ /\ Here("store")
        /\ currentAngle' = copied + (adcValue - Zero) * deltaTime
        /\ turned' = turned + (adcValue - Zero) * (currentTime - since)
        /\ since' = currentTime
        /\ Return("raw")
  /\ UNCHANGED <<currentState, stableCount, lastUpdateTime, angleTracking, report, twivars,
                 quiet, lost, crossed>>

StoreRaw ==
  /\ \/ /\ Here("raw")
        /\ \E adc \in readADC, b \in 1 .. 2 :
             shown' = [shown EXCEPT !.raw[b] = Word16(adc)[b]] /\ Take(adc, "raw2")
        /\ UNCHANGED measured
     \/ /\ Here("raw2") /\ Return("rotation")
        /\ shown' = [shown EXCEPT !.raw = Word16(adcValue)]
        /\ measured' = [measured EXCEPT !.raw = Word16(adcValue)]
  /\ UNCHANGED <<gyrovars, twivars, truth>>

\* getRotationState reads the converter, then currentState, and then acts on both.
RotationReads ==
  /\ Here("rotation")
  /\ \E adc \in readADC :
       IF adc = Failed THEN Goto("show") /\ UNCHANGED quiet
       ELSE /\ Take(adc, "switch")
            /\ quiet' = IF currentState = "done" THEN quiet
                        ELSE IF Diff(adc) >= ROTATION_THRESHOLD THEN 0
                        ELSE IF quiet < CONSECUTIVE_READINGS THEN quiet + 1 ELSE quiet
  /\ UNCHANGED <<gyrovars, report, twivars, turned, since, lost, crossed>>

\* The case of the switch; "show" is its end.
Case(state) ==
  CASE state = "idle" /\ Diff(adcValue) > ROTATION_THRESHOLD -> "rotate"
    [] state = "rotating" /\ Still -> "settle"
    [] state = "settling" /\ Still -> "count"
    [] state = "settling" /\ ~Still -> "rotate"
    [] OTHER -> "show"

Switch ==
  /\ Here("switch") /\ mainStep' = Case(currentState) /\ switched' = currentState
  /\ UNCHANGED <<diode, adcValue, currentTime, deltaTime, copied, fresh, timestamp>>
  /\ UNCHANGED <<gyrovars, report, twivars, truth>>

SetState(from, state, to) == Here(from) /\ currentState' = state /\ Goto(to)

StateChanges ==
  /\ \/ SetState("rotate", "rotating", "unstable")
     \/ SetState("settle", "settling", "first")
     \/ SetState("finish", "done", "untrack")
  /\ UNCHANGED <<stableCount, currentAngle, lastUpdateTime, angleTracking, report, twivars, truth>>

\* stableCount is set, or read and then stored one larger.
StableChanges ==
  /\ \/ /\ Here("unstable") /\ stableCount' = 0
        /\ Goto(IF switched = "idle" THEN "zero" ELSE "show")
     \/ Here("first") /\ stableCount' = 1 /\ Goto("show")
     \/ Here("count") /\ Copy(stableCount, "counted") /\ UNCHANGED stableCount
     \/ /\ Here("counted") /\ stableCount' = copied + 1
        /\ Goto(IF copied + 1 = CONSECUTIVE_READINGS THEN "finish" ELSE "show")
  /\ UNCHANGED <<currentState, currentAngle, lastUpdateTime, angleTracking, report, twivars, truth>>

\* gyrosResetAngle when a rotation starts
StartZero ==
  /\ Here("zero") /\ Goto("time")
  /\ currentAngle' = 0 /\ turned' = 0 /\ crossed' = FALSE
  /\ UNCHANGED <<currentState, stableCount, lastUpdateTime, angleTracking, report, twivars,
                 quiet, since, lost>>

StartNow ==
  /\ GetMillis("time", "reset") /\ since' = millisCounter
  /\ UNCHANGED <<gyrovars, report, twivars, quiet, turned, lost, crossed>>

StartTime ==
  /\ Here("reset") /\ lastUpdateTime' = currentTime /\ Goto("track")
  /\ UNCHANGED <<currentState, stableCount, currentAngle, angleTracking, report, twivars, truth>>

\* The end of gyrosResetAngle, and of the tracking when the rotation is done
TrackingChanges ==
  /\ \/ Here("track") /\ angleTracking' = TRUE
     \/ Here("untrack") /\ angleTracking' = FALSE
  /\ Goto("show")
  /\ UNCHANGED <<currentState, stableCount, currentAngle, lastUpdateTime, report, twivars, truth>>

\* The end of getRotationState reads currentState again.
ShowState ==
  /\ \/ /\ Here("show") /\ mainStep' = "state" /\ switched' = currentState
        /\ UNCHANGED <<diode, adcValue, currentTime, deltaTime, copied, fresh, timestamp, report>>
     \/ /\ Here("state") /\ Return("angle0")
        /\ shown' = [shown EXCEPT !.state = switched]
        /\ measured' = [measured EXCEPT !.state = switched]
  /\ UNCHANGED <<gyrovars, twivars, truth>>

ShowAngle ==
  /\ \/ /\ Here("angle0") /\ mainStep' = "angle1"
        /\ copied' = currentAngle
        /\ fresh' = IF crossed THEN currentAngle ELSE turned
        /\ UNCHANGED <<diode, adcValue, currentTime, deltaTime, switched, timestamp, report>>
     \/ /\ Here("angle1") /\ Goto("angle2")
        /\ \E b \in 1 .. 2 : shown' = [shown EXCEPT !.angle[b] = Word16(copied)[b]]
        /\ UNCHANGED measured
     \/ /\ Here("angle2") /\ Return("sound")
        /\ shown' = [shown EXCEPT !.angle = Word16(copied)]
        /\ measured' = [measured EXCEPT !.angle = Word16(fresh)]
  /\ UNCHANGED <<gyrovars, twivars, truth>>

\* getPulseTime gives up after 30 ms without an echo and after 40 ms of one.
getPulseTime(pulse) == IF pulse >= 40000 THEN 40000 ELSE pulse
getObstacleDistance(pulse) == getPulseTime(pulse) \div 58

Ultrasound ==
  /\ \/ Here("sound") /\ Goto(IF enabled.sound THEN "soundtime" ELSE "top") /\ UNCHANGED report
     \/ /\ Here("soundtime") /\ UNCHANGED report
        /\ Goto(IF millisCounter > timestamp + SoundPause THEN "echo" ELSE "top")
     \/ /\ Here("echo")
        /\ \E p \in Pulses, b \in 1 .. 2 :
             /\ shown' = [shown EXCEPT !.distance[b] = Word16(getObstacleDistance(p))[b]]
             /\ Take(getObstacleDistance(p), "distance2")
        /\ UNCHANGED measured
     \/ /\ Here("distance2") /\ Return("timestamp")
        /\ shown' = [shown EXCEPT !.distance = Word16(adcValue)]
        /\ measured' = [measured EXCEPT !.distance = Word16(adcValue)]
     \/ /\ Here("timestamp") /\ mainStep' = "top" /\ timestamp' = millisCounter
        /\ UNCHANGED <<diode, adcValue, currentTime, deltaTime, copied, fresh, switched, report>>
  /\ UNCHANGED <<gyrovars, twivars, truth>>

-----------------------------------------------------------------------------
(* The TWI interrupt *)

StateCode(state) == CASE state = "idle" -> 0 [] state = "rotating" -> 1
                      [] state = "settling" -> 2 [] state = "done" -> 3

\* The bytes of LED_COUNT words, from the one after first on.
Half(tape, first) ==
  [i \in 1 .. 2 * LED_COUNT |-> tape[first + (i + 1) \div 2][2 - (i % 2)]]

\* The reply I2C_FillTxBuffer makes to a command from the variables in s, or none.
Reply(command, s) ==
  CASE command = "TEST" -> <<170, 187, 204, 221>>
    [] command = "GYRO_STATE" -> <<StateCode(s.state)>>
    [] command \in {"GYRO_RESET", "GYRO_ANGLE_RESET"} -> <<1>>
    [] command = "GYRO_RAW" -> s.raw
    [] command = "GYRO_GET_ANGLE" -> s.angle
    [] command = "ULTRASOUND" -> s.distance
    [] command = "READ_TAPE_SENSOR_FRONT" -> Half(s.tape, LED_COUNT)
    [] command = "READ_TAPE_SENSOR_BACK" -> Half(s.tape, 0)
    [] OTHER -> <<>>

Resets == {"GYRO_RESET", "GYRO_ANGLE_RESET"}

Filled(bytes) ==
  [i \in 1 .. I2C_BUFFER_SIZE |-> IF i <= Len(bytes) THEN bytes[i] ELSE tx_buffer[i]]
FittingLength(bytes) == IF Len(bytes) < I2C_BUFFER_SIZE THEN Len(bytes) ELSE I2C_BUFFER_SIZE

\* The main loop has stored one of the two bytes of what the command asks for.
Halfway(command) ==
  \/ command = "GYRO_RAW" /\ mainStep = "raw2"
  \/ command = "GYRO_GET_ANGLE" /\ mainStep = "angle2"
  \/ command = "ULTRASOUND" /\ mainStep = "distance2"
  \/ command \in {"READ_TAPE_SENSOR_FRONT", "READ_TAPE_SENSOR_BACK"} /\ mainStep = "tape2"

Toggled(command) ==
  CASE command \in {"ENABLE_GYROS", "DISABLE_GYROS"} ->
         [enabled EXCEPT !.gyro = command = "ENABLE_GYROS"]
    [] command \in {"ENABLE_ULTRASOUND", "DISABLE_ULTRASOUND"} ->
         [enabled EXCEPT !.sound = command = "ENABLE_ULTRASOUND"]
    [] command \in {"ENABLE_TAPE_SENSOR", "DISABLE_TAPE_SENSOR"} ->
         [enabled EXCEPT !.tape = command = "ENABLE_TAPE_SENSOR"]
    [] OTHER -> enabled

\* The steps of getRotationState that act on a quiet reading, and those between reading a clock
\* and storing what depends on it.
Acting == {"settle", "count", "counted", "finish", "untrack"}
Timing == {"delta", "updated", "angle", "store", "reset"}
Filling(step) == \E i \in 1 .. Len(fills) : fills[i].step = step

\* TW_SR_SLA_ACK
Addressed ==
  /\ phase = "idle" /\ twi_on /\ transfers < MaxTransfers
  /\ phase' = "addressed" /\ i2c_busy' = TRUE /\ i2c_index' = 0 /\ transfers' = transfers + 1
  /\ UNCHANGED <<gyrovars, enabled, i2c_last_success, i2c_message_length, tx_buffer, twi_on, fills,
                 request, got, expected, unsure, deaf, truth>>

\* TW_SR_DATA_ACK
CommandReceived ==
  /\ phase = "addressed"
  /\ phase' = "written" /\ request' \in CMDs
  /\ i2c_busy' = TRUE /\ i2c_last_success' = TRUE /\ i2c_index' = 1
  /\ UNCHANGED <<gyrovars, enabled, i2c_message_length, tx_buffer, twi_on, fills, got, expected,
                 unsure, transfers, deaf, truth>>

\* TW_SR_STOP, which a repeated START raises as well, calls I2C_FillTxBuffer.
CommandEnded ==
  /\ phase = "written" /\ phase' = "filled" /\ twi_on' = TRUE
  /\ expected' = Reply(request, measured)
  /\ unsure' = (fills # <<>> \/ Halfway(request))
  /\ UNCHANGED <<lastUpdateTime, angleTracking, i2c_last_success, i2c_index, request, got,
                 transfers, deaf>>

\* i2c_write_response copies the reply, as far as it fits, and marks the bus busy.
i2c_write_response(bytes) ==
  /\ tx_buffer' = Filled(bytes) /\ i2c_message_length' = FittingLength(bytes) /\ i2c_busy' = TRUE

I2C_FillTxBuffer ==
  /\ CommandEnded /\ request \notin Resets
  /\ IF Reply(request, shown) # <<>> THEN i2c_write_response(Reply(request, shown))
     ELSE i2c_busy' = FALSE /\ UNCHANGED <<tx_buffer, i2c_message_length>>
  /\ enabled' = Toggled(request)
  /\ UNCHANGED <<currentState, stableCount, currentAngle, fills, truth>>

\* In gyrosResetAngle the interrupts are off until gyrosGetMillis turns them on again.
resetRotationDirection ==
  /\ CommandEnded /\ request \in Resets
  /\ i2c_busy' = FALSE
  /\ IF request = "GYRO_RESET"
     THEN currentState' = "idle" /\ stableCount' = 0 /\ quiet' = 0 /\ lost' = (mainStep \in Acting)
     ELSE UNCHANGED <<currentState, stableCount, quiet, lost>>
  /\ currentAngle' = 0 /\ turned' = 0 /\ since' = millisCounter
  /\ crossed' = (mainStep \in Timing \/ Filling("updated"))
  /\ fills' = Append(fills, [step |-> "updated", now |-> millisCounter])
  /\ UNCHANGED <<enabled, tx_buffer, i2c_message_length>>

\* The innermost reset goes on: the rest of gyrosResetAngle and i2c_write_response.
Inner == fills[Len(fills)]
InnerStep(from, to) ==
  /\ fills # <<>> /\ Inner.step = from
  /\ fills' = [fills EXCEPT ![Len(fills)].step = to]

ResetGoesOn ==
  /\ \/ InnerStep("updated", "tracking") /\ lastUpdateTime' = Inner.now
        /\ UNCHANGED <<angleTracking, twivars>>
     \/ InnerStep("tracking", "copy") /\ angleTracking' = TRUE
        /\ UNCHANGED <<lastUpdateTime, twivars>>
     \/ InnerStep("copy", "length") /\ tx_buffer' = [tx_buffer EXCEPT ![1] = 1]
        /\ UNCHANGED <<lastUpdateTime, angleTracking, i2c_busy, i2c_message_length, twi_on>>
     \/ InnerStep("length", "enable") /\ i2c_message_length' = 1
        /\ UNCHANGED <<lastUpdateTime, angleTracking, i2c_busy, tx_buffer, twi_on>>
     \/ InnerStep("enable", "busy") /\ twi_on' = TRUE
        /\ UNCHANGED <<lastUpdateTime, angleTracking, i2c_busy, i2c_message_length, tx_buffer>>
  /\ UNCHANGED <<currentState, stableCount, currentAngle, enabled, i2c_last_success, i2c_index,
                 mastervars, truth>>

ResetEnds ==
  /\ fills # <<>> /\ Inner.step = "busy"
  /\ i2c_busy' = TRUE
  /\ fills' = SubSeq(fills, 1, Len(fills) - 1)
  /\ UNCHANGED <<gyrovars, enabled, i2c_last_success, i2c_index, i2c_message_length, tx_buffer,
                 twi_on, mastervars, truth>>

\* What the master got, and should have got, is forgotten when the transfer is over.
Over == /\ phase' = "idle" /\ request' = "TEST" /\ got' = <<>> /\ expected' = <<>>
        /\ unsure' = FALSE /\ UNCHANGED transfers

\* The master stops after the command, as for the commands that only write.
WriteOnly ==
  /\ phase = "filled" /\ Over
  /\ UNCHANGED <<gyrovars, enabled, twivars, fills, deaf, truth>>

\* TW_ST_SLA_ACK, then TW_ST_DATA_ACK for every further byte the master asks for, at most as
\* many as the buffer holds.
ByteSent ==
  /\ phase = "filled" \/ (phase = "reading" /\ i2c_index < I2C_BUFFER_SIZE)
  /\ phase' = "reading"
  /\ LET index == IF phase = "filled" THEN 0 ELSE i2c_index
     IN got' = Append(got, tx_buffer[index + 1]) /\ i2c_index' = index + 1
  /\ i2c_busy' = TRUE
  /\ unsure' = (unsure \/ fills # <<>>)
  /\ UNCHANGED <<gyrovars, enabled, i2c_last_success, i2c_message_length, tx_buffer, twi_on, fills,
                 request, expected, transfers, deaf, truth>>

\* TW_ST_DATA_NACK: the master has what it wants.
ReplyEnded ==
  /\ phase = "reading" /\ Over
  /\ i2c_last_success' = (i2c_last_success \/ i2c_index = i2c_message_length)
  /\ i2c_busy' = FALSE
  /\ UNCHANGED <<gyrovars, enabled, i2c_index, i2c_message_length, tx_buffer, twi_on, fills, deaf,
                 truth>>

\* TW_BUS_ERROR: the interface is switched off and i2c_busy left as it is.
BusError ==
  /\ phase # "idle" /\ Over
  /\ twi_on' = FALSE
  /\ deaf' = (deaf \/ i2c_busy \/ Filling("busy"))
  /\ UNCHANGED <<gyrovars, enabled, i2c_busy, i2c_last_success, i2c_index, i2c_message_length,
                 tx_buffer, fills, truth>>

RsInit ==
  /\ mainStep = "top" /\ diode = 0 /\ adcValue = 0 /\ currentTime = 0 /\ deltaTime = 0
  /\ copied = 0 /\ fresh = 0 /\ switched = "idle" /\ timestamp = 0
  /\ currentState = "idle" /\ stableCount = 0 /\ currentAngle = 0 /\ lastUpdateTime = 0
  /\ angleTracking = TRUE
  /\ shown = [tape |-> [i \in 1 .. 2 * LED_COUNT |-> <<0, 0>>], raw |-> <<0, 0>>,
              state |-> "idle", angle |-> <<0, 0>>, distance |-> <<0, 0>>]
  /\ enabled = [tape |-> TRUE, gyro |-> TRUE, sound |-> TRUE]
  /\ millisCounter = 0
  /\ i2c_busy = FALSE /\ i2c_last_success = FALSE /\ i2c_index = 0 /\ i2c_message_length = 0
  /\ tx_buffer = [i \in 1 .. I2C_BUFFER_SIZE |-> 0] /\ twi_on = TRUE
  /\ fills = <<>>
  /\ phase = "idle" /\ request = "TEST" /\ got = <<>> /\ expected = <<>> /\ unsure = FALSE
  /\ transfers = 0 /\ deaf = FALSE
  /\ quiet = 0 /\ turned = 0 /\ since = 0 /\ lost = FALSE /\ crossed = FALSE
  /\ measured = shown

\* A step of the main loop leaves the bus alone but for the interface and the busy mark, a step
\* of the TWI interrupt the main loop.
MainNext ==
  /\ \/ CheckBus \/ i2c_restart \/ TapeReadSensor \/ TapeDone \/ GyrosWanted \/ UpdateReads
     \/ UpdateNow \/ UpdateDelta \/ UpdateTime \/ UpdateAngle \/ StoreRaw \/ RotationReads
     \/ Switch \/ StateChanges \/ StableChanges \/ StartZero \/ StartNow \/ StartTime
     \/ TrackingChanges \/ ShowState \/ ShowAngle \/ Ultrasound
  /\ UNCHANGED <<enabled, millisCounter, fills, mastervars>>

BusNext ==
  /\ \/ Addressed \/ CommandReceived \/ I2C_FillTxBuffer \/ resetRotationDirection \/ ResetGoesOn
     \/ ResetEnds \/ WriteOnly \/ ByteSent \/ ReplyEnded \/ BusError
  /\ UNCHANGED <<mainStep, locals, report, millisCounter>>

RsNext == Tick \/ MainNext \/ BusNext

RsSpec == RsInit /\ [][RsNext]_rsvars

-----------------------------------------------------------------------------
(* Properties *)

\* The rotation counts as done only when CONSECUTIVE_READINGS valid readings in a row since the
\* last reset were below the threshold; except after a reset that fell between getRotationState's
\* reading of currentState and the end of its acting on a quiet reading, whose stores undo it.
DoneMeansSettled == currentState = "done" /\ ~lost => quiet = CONSECUTIVE_READINGS

\* Unless such a reset came, the angle is followed whenever the rotation is not done, outside
\* the interrupt.
AngleFollowed == ~angleTracking => currentState = "done" \/ lost \/ fills # <<>>

\* The times the main loop works with are times the counter has shown: gyrosGetMillis never
\* returns bytes of two different counts.
TimeNotAhead == 
  currentTime <= millisCounter /\ lastUpdateTime <= millisCounter /\ timestamp <= millisCounter

\* The angle is the rates read times the time that passed since the last reset, whether the
\* master or the start of a rotation reset it and wherever in the main loop the command came;
\* except after a reset that fell between reading the clock and storing what follows from it,
\* in gyrosUpdateAngle or in another reset.  There the subtraction of the times may wrap.
AngleSinceReset == ~crossed => currentAngle = turned

\* The bytes the master reads are those of a measurement of the main loop, of the angle it
\* should have and of the state it read, or the acknowledgement of the reset; except when the
\* command came between the stores of the two bytes it asks for, or while a reset was still at
\* its reply, or the master read before the reset had made it.
ReplyIsMeasured ==
  phase = "reading" /\ ~unsure =>
    \A i \in 1 .. Len(got) : i <= Len(expected) => got[i] = expected[i]

\* A bus error switches the interface off, and the main loop switches it on again, for which
\* i2c_busy must be clear; except after an error that came while it was set or about to be.
NeverDeaf == ~twi_on /\ ~deaf => ~i2c_busy

\* What the module reports is what it measured, and it keeps answering, wherever
\* timer and bus interrupt the main loop (gyrossensor.c, i2c.c).
SensorsTruthful ==
  /\ DoneMeansSettled /\ AngleFollowed /\ TimeNotAhead /\ AngleSinceReset
  /\ ReplyIsMeasured /\ NeverDeaf

=============================================================================
