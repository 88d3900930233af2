---------------------------- MODULE RobotControl ----------------------------
(***************************************************************************)
(* The control module of the warehouse robot: an AVR whose main loop takes *)
(* commands from the I2C bus and drives two wheels and an arm of eight     *)
(* servos.  Bytes arrive in the TWI interrupt while the main loop runs, so *)
(* every read of rx_buffer by HandleI2C is a step of its own.  The arm's   *)
(* movements are sent packet by packet to servos modelled by the bytes of  *)
(* their control tables.  Delays only let time pass and are left out.      *)
(***************************************************************************)
EXTENDS Integers, Sequences, FiniteSets

CONSTANTS
  Messages,      \* what the master may send: a command byte and its arguments
  Signals,       \* steer signals; the four bytes of a float all name its value
  MaxMessages    \* bound on the number of transfers the master starts

ASSUME RcAssumption ==
  /\ Messages \subseteq Seq(Int) \ {<<>>}
  /\ Signals \subseteq Int /\ Signals # {} /\ MaxMessages \in Nat

VARIABLES
  rx,       \* rx_buffer, rx_index and rx_done
  bus,      \* the transfer on the bus: the message and how much of it was sent
  cpu,      \* where the main loop is, and what it has read of the buffer
  todo,     \* what is left of the arm movement being run
  packets,  \* the packets of the current turn that are not sent yet
  rot,      \* GlobalArmRotation, GlobalBaseRotation and so on, in degrees
  drv,      \* globalForward, the speeds and the steer signal
  wheels,   \* OCR1A, OCR1B and the two direction bits of PORTD
  servo,    \* the servos' control tables
  last      \* history: the command and argument executed last, the last wheel command

rcvars == <<rx, bus, cpu, todo, packets, rot, drv, wheels, servo, last>>

-----------------------------------------------------------------------------
(* Dynamixel packets and the servos' control tables *)

P_CW_ANGLE_LIMIT_L == 6
P_CCW_ANGLE_LIMIT_L == 8
P_GOAL_POSITION_L == 30
P_GOAL_SPEED_L == 32
P_TORQUE_LIMIT_L == 34
P_RETURN_LEVEL == 16
P_RETURN_DELAY_TIME == 5
INST_WRITE == 3
INST_SYNC_WRITE == 131
All == 254
Servos == 1 .. 8
Table == {5, 16} \cup 6 .. 9 \cup 30 .. 35

\* The two bytes of a short, low byte first.
Bytes(short) == <<short % 256, (short \div 256) % 256>>

\* The sum of some bytes, in a byte.
ByteSum(bytes) ==
  LET sum[i \in 0 .. Len(bytes)] == IF i = 0 THEN 0 ELSE (sum[i - 1] + bytes[i]) % 256
  IN sum[Len(bytes)]

CreateDynamixelPacket(id, instruction, parameters) ==
  LET body == <<id, 2 + Len(parameters), instruction>> \o parameters
  IN <<255, 255>> \o body \o <<255 - ByteSum(body)>>

\* A control table after some bytes were stored, from an address on.
Store(table, first, bytes) ==
  [a \in Table |-> IF a \in first .. first + Len(bytes) - 1 THEN bytes[a - first + 1] ELSE table[a]]

Parameters(packet) == SubSeq(packet, 6, Len(packet) - 1)

\* The two instructions a servo is sent: of the bytes after the address, all are its own,
\* or a share each for several servos; of two shares for one servo the second stays.
Written(tables, id, params) ==
  [s \in Servos |-> IF id \in {s, All}
     THEN Store(tables[s], params[1], SubSeq(params, 2, Len(params))) ELSE tables[s]]

SharesOf(s, params) ==
  {k \in 1 .. (Len(params) - 2) \div (params[2] + 1) :
     params[3 + (k - 1) * (params[2] + 1)] \in {s, All}}
Share(k, params) == SubSeq(params, 4 + (k - 1) * (params[2] + 1), 2 + k * (params[2] + 1))
Latest(ks) == CHOOSE k \in ks : \A j \in ks : j <= k

SyncWritten(tables, params) ==
  [s \in Servos |-> IF SharesOf(s, params) # {}
     THEN Store(tables[s], params[1], Share(Latest(SharesOf(s, params)), params)) ELSE tables[s]]

\* A packet counts if its length and its checksum are right.
ServoObeys(tables, packet) ==
  CASE ByteSum(SubSeq(packet, 3, Len(packet))) # 255 \/ packet[4] # Len(packet) - 4 -> tables
    [] packet[5] = INST_WRITE -> Written(tables, packet[3], Parameters(packet))
    [] packet[5] = INST_SYNC_WRITE -> SyncWritten(tables, Parameters(packet))

Word(id, address) == servo[id][address] + 256 * servo[id][address + 1]
Goal(id) == Word(id, P_GOAL_POSITION_L)

-----------------------------------------------------------------------------
(* The arm *)

DegreesToAngle(degrees) ==
  IF degrees >= 0 THEN (1023 * degrees) \div 300 ELSE -((1023 * (-degrees)) \div 300)

GLOBALSERVOSPEED == 100
CLAW_SPEED == 136

Write(id, address, short) ==
  CreateDynamixelPacket(id, INST_WRITE, <<address>> \o Bytes(short))

TurnSingle(id, angle, speed) ==
  <<Write(id, P_GOAL_SPEED_L, speed), Write(id, P_GOAL_POSITION_L, angle)>>

TurnPairMirrored(id0, id1, angle0, speed) ==
  <<Write(id0, P_GOAL_SPEED_L, speed), Write(id1, P_GOAL_SPEED_L, speed),
    CreateDynamixelPacket(All, INST_SYNC_WRITE,
      <<P_GOAL_POSITION_L, 2, id0>> \o Bytes(angle0) \o <<id1>> \o Bytes(1023 - angle0))>>

\* The packets of one turn: an axle and the angle it is to reach.
Turn(axle, degrees) ==
  LET angle == DegreesToAngle(degrees)
  IN CASE axle = "arm" -> TurnSingle(1, angle, GLOBALSERVOSPEED)
       [] axle = "base" -> TurnPairMirrored(2, 3, angle, GLOBALSERVOSPEED)
       [] axle = "middle" -> TurnPairMirrored(4, 5, angle, GLOBALSERVOSPEED)
       [] axle = "top" -> TurnSingle(6, angle, GLOBALSERVOSPEED)
       [] axle = "claw" -> TurnSingle(7, angle, GLOBALSERVOSPEED)
       [] axle = "grip" -> TurnSingle(8, angle, CLAW_SPEED)
       [] axle = "torque" -> <<Write(8, P_TORQUE_LIMIT_L, degrees)>>
       [] axle = "setup" -> degrees

Axles == {"arm", "base", "middle", "top", "claw"}

ClawOpen == <<"grip", 150>>
ClawClose == <<"grip", 0>>

ReturnToDefaultPosition ==
  <<ClawOpen, <<"base", 60>>, <<"top", 60>>, <<"arm", 150>>, <<"middle", 60>>, <<"claw", 150>>>>

DropObject ==
  <<<<"base", 60>>, <<"top", 150>>, <<"arm", 130>>, <<"middle", 60>>, <<"claw", 150>>,
    <<"base", 85>>, ClawOpen>>

EndPickupSequence == DropObject \o ReturnToDefaultPosition

StartPickup(arm) ==
  <<<<"claw", 60>>, <<"arm", arm>>, <<"base", 150>>, <<"middle", 130>>, <<"top", 185>>,
    <<"base", 185>>>>
StartLeftPickup == StartPickup(90)
StartRightPickup == StartPickup(210)

GrabObjectLeft == StartLeftPickup \o <<<<"arm", 60>>, ClawClose>>
GrabObjectRight == StartRightPickup \o <<<<"arm", 240>>, ClawClose>>

RobotArm_DropOfItems ==
  <<<<"torque", 819>>, <<"arm", 90>>, <<"base", 145>>, <<"middle", 120>>, <<"top", 215>>,
    <<"claw", 205>>, <<"arm", 110>>, ClawClose, <<"base", 143>>, <<"top", 218>>,
    <<"base", 141>>, <<"top", 220>>, <<"arm", 109>>, <<"base", 139>>, <<"top", 222>>,
    <<"arm", 60>>, <<"middle", 150>>, <<"top", 220>>, <<"base", 150>>, <<"base", 200>>,
    <<"top", 180>>, ClawOpen>> \o ReturnToDefaultPosition

\* MOTORnROTATIONMIN and MOTORnROTATIONMAX.
Limits == <<<<0, 360>>, <<60, 240>>, <<60, 240>>, <<60, 260>>, <<40, 240>>, <<60, 240>>,
            <<0, 300>>, <<0, 150>>>>

InitRobotArmServos ==
  <<CreateDynamixelPacket(All, INST_WRITE, <<P_RETURN_LEVEL, 1>>),
    CreateDynamixelPacket(All, INST_WRITE, <<P_RETURN_DELAY_TIME, 2>>),
    Write(All, P_TORQUE_LIMIT_L, 1023), Write(8, P_TORQUE_LIMIT_L, 563),
    Write(All, P_GOAL_SPEED_L, 136)>>
  \o [k \in 1 .. 16 |-> LET id == (k + 1) \div 2
                       IN IF k % 2 = 1 THEN Write(id, P_CW_ANGLE_LIMIT_L, DegreesToAngle(Limits[id][1]))
                          ELSE Write(id, P_CCW_ANGLE_LIMIT_L, DegreesToAngle(Limits[id][2]))]

-----------------------------------------------------------------------------
(* The wheels *)

clampInt(val, min, max) == IF val < min THEN min ELSE IF val > max THEN max ELSE val

WheelMotors(a, b, d6, d7) == [a |-> a, b |-> b, d6 |-> d6, d7 |-> d7]
WheelMotors_Init == WheelMotors(0, 0, 1, 0)

\* GlobalSteeringSlowdown is zero and nothing sets it, so DriveSpeed is the drive speed.
WheelMotors_DriveForwardWithSteering ==
  LET turn == IF drv.positive THEN drv.amplitude ELSE -drv.amplitude
  IN WheelMotors(clampInt(drv.drive + turn, 0, 255), clampInt(drv.drive - turn, 0, 255), 1, 0)

UpdateSteerSignal(signal) ==
  LET size == IF signal >= 0 THEN signal ELSE -signal
  IN [drv EXCEPT !.amplitude = IF size >= 255 THEN 255 ELSE size, !.positive = signal >= 0]

-----------------------------------------------------------------------------
(* The TWI interrupt: the master's transfers, byte by byte *)

Idle == [message |-> <<>>, sent |-> 0]

\* TW_SR_SLA_ACK
SlaveAddressed ==
  /\ bus.message = <<>>
  /\ last.sent < MaxMessages
  /\ \E m \in Messages : bus' = [message |-> m, sent |-> 0]
  /\ rx' = [rx EXCEPT !.index = 0]
  /\ last' = [last EXCEPT !.sent = @ + 1]
  /\ UNCHANGED <<cpu, todo, packets, rot, drv, wheels, servo>>

\* TW_SR_DATA_ACK
DataReceived ==
  /\ bus.message # <<>>
  /\ bus.sent < Len(bus.message)
  /\ bus' = [bus EXCEPT !.sent = @ + 1]
  /\ rx' = IF rx.index < Len(rx.buffer)
           THEN [rx EXCEPT !.buffer[rx.index + 1] = bus.message[bus.sent + 1], !.index = @ + 1]
           ELSE rx
  /\ UNCHANGED <<cpu, todo, packets, rot, drv, wheels, servo, last>>

\* TW_SR_STOP after the last byte, TW_BUS_ERROR at any time
TransferEnded ==
  /\ bus.message # <<>>
  /\ bus' = Idle
  /\ rx' = [rx EXCEPT !.done = TRUE]
  /\ UNCHANGED <<cpu, todo, packets, rot, drv, wheels, servo, last>>

-----------------------------------------------------------------------------
(* The main loop *)

\* The top of HandleI2C: rx_done is cleared before the buffer is read.
TakeCommand ==
  /\ cpu.pc = "top" /\ rx.done
  /\ rx' = [rx EXCEPT !.done = FALSE]
  /\ cpu' = [cpu EXCEPT !.pc = "command"]
  /\ UNCHANGED <<bus, todo, packets, rot, drv, wheels, servo, last>>
ReadCommand ==
  /\ cpu.pc = "command"
  /\ cpu' = [cpu EXCEPT !.pc = "diff", !.command = rx.buffer[1]]
  /\ UNCHANGED <<rx, bus, todo, packets, rot, drv, wheels, servo, last>>

ReadDiffClears ==                                \* a mistake: rx_done cleared again
  /\ cpu.pc = "diff"
  /\ rx' = [rx EXCEPT !.done = FALSE]
  /\ cpu' = [cpu EXCEPT !.pc = "execute", !.diff = rx.buffer[2], !.float = <<>>]
  /\ UNCHANGED <<bus, todo, packets, rot, drv, wheels, servo, last>>
ReadDiff ==
  /\ cpu.pc = "diff"
  /\ cpu' = [cpu EXCEPT !.pc = "execute", !.diff = rx.buffer[2], !.float = <<>>]
  /\ UNCHANGED <<rx, bus, todo, packets, rot, drv, wheels, servo, last>>

CMD_FIRST == 10   \* CMD_PICKUP_ITEM_LEFT; the others follow in this order
Commands ==
  <<"PICKUP_ITEM_LEFT", "PICKUP_ITEM_RIGHT", "ROTATE_LEFT", "ROTATE_RIGHT", "DRIVE_FORWARD",
    "DRIVE_BACKWARD", "STOP", "SET_DRIVE_SPEED", "SET_TURN_SPEED", "UPDATE_STEER_SIGNAL",
    "DROP_OFF_ITEMS", "TURN_ARM", "TURN_BASE_AXLE", "TURN_MIDDLE_AXLE", "TURN_TOP_AXLE",
    "TURN_CLAW", "OPEN_CLAW", "CLOSE_CLAW", "START_PICKUP_LEFT", "START_PICKUP_RIGHT",
    "END_PICKUP">>
Name(byte) == IF byte - CMD_FIRST + 1 \in DOMAIN Commands THEN Commands[byte - CMD_FIRST + 1]
              ELSE "unsupported"

\* What a movement command makes the arm do; diff is a signed char.
Movement(name, diff) ==
  LET d == IF diff >= 128 THEN diff - 256 ELSE diff
  IN CASE name = "PICKUP_ITEM_LEFT" -> GrabObjectLeft \o EndPickupSequence
       [] name = "PICKUP_ITEM_RIGHT" -> GrabObjectRight \o EndPickupSequence
       [] name = "DROP_OFF_ITEMS" -> RobotArm_DropOfItems
       [] name = "TURN_ARM" -> <<<<"arm", rot.arm + d>>>>
       [] name = "TURN_BASE_AXLE" -> <<<<"base", rot.base + d>>>>
       [] name = "TURN_MIDDLE_AXLE" -> <<<<"middle", rot.middle + d>>>>
       [] name = "TURN_TOP_AXLE" -> <<<<"top", rot.top + d>>>>
       [] name = "TURN_CLAW" -> <<<<"claw", rot.claw + d>>>>
       [] name = "OPEN_CLAW" -> <<ClawOpen>>
       [] name = "CLOSE_CLAW" -> <<ClawClose>>
       [] name = "START_PICKUP_LEFT" -> StartLeftPickup
       [] name = "START_PICKUP_RIGHT" -> StartRightPickup
       [] name = "END_PICKUP" -> EndPickupSequence
       [] OTHER -> <<>>

\* rx_buffer[1] is read again for the speeds.
NewDrive(name) ==
  CASE name \in {"ROTATE_LEFT", "ROTATE_RIGHT", "DRIVE_BACKWARD", "STOP"} ->
         [drv EXCEPT !.forward = FALSE]
    [] name = "DRIVE_FORWARD" -> [drv EXCEPT !.forward = TRUE]
    [] name = "SET_DRIVE_SPEED" -> [drv EXCEPT !.drive = rx.buffer[2]]
    [] name = "SET_TURN_SPEED" -> [drv EXCEPT !.turn = rx.buffer[2]]
    [] OTHER -> drv
NewWheels(name) ==
  CASE name = "ROTATE_LEFT" -> WheelMotors(drv.turn, drv.turn, 0, 0)
    [] name = "ROTATE_RIGHT" -> WheelMotors(drv.turn, drv.turn, 1, 1)
    [] name = "DRIVE_BACKWARD" -> WheelMotors(drv.drive, drv.drive, 0, 1)
    [] name = "STOP" -> [wheels EXCEPT !.a = 0, !.b = 0]
    [] OTHER -> wheels

WheelCommands == {"ROTATE_LEFT", "ROTATE_RIGHT", "DRIVE_FORWARD", "DRIVE_BACKWARD", "STOP"}

\* The switch of HandleI2C.
Execute ==
  /\ cpu.pc = "execute"
  /\ LET name == Name(cpu.command)
     IN /\ name # "UPDATE_STEER_SIGNAL"
        /\ todo' = Movement(name, cpu.diff)
        /\ drv' = NewDrive(name)
        /\ wheels' = NewWheels(name)
        /\ last' = [last EXCEPT !.command = cpu.command,
                      !.argument = IF name \in {"SET_DRIVE_SPEED", "SET_TURN_SPEED"}
                                   THEN rx.buffer[2] ELSE cpu.diff,
                      !.wheel = IF name \in WheelCommands THEN name ELSE @]
        /\ cpu' = [cpu EXCEPT !.pc = "run"]
  /\ UNCHANGED <<rx, bus, packets, rot, servo>>

\* The four bytes of the float are read one at a time; bytes of two messages give some float.
ReadSignal ==
  /\ cpu.pc = "execute" /\ Name(cpu.command) = "UPDATE_STEER_SIGNAL"
  /\ LET float == Append(cpu.float, rx.buffer[2 + Len(cpu.float)])
     IN IF Len(float) < 4
        THEN cpu' = [cpu EXCEPT !.float = float] /\ UNCHANGED <<drv, last>>
        ELSE \E signal \in Signals :
               /\ (float \in [1 .. 4 -> Signals] /\ Cardinality({float[i] : i \in 1 .. 4}) = 1)
                    => signal = float[1]
               /\ drv' = UpdateSteerSignal(signal)
               /\ last' = [last EXCEPT !.command = cpu.command, !.argument = float[1]]
               /\ cpu' = [cpu EXCEPT !.pc = "run"]
  /\ UNCHANGED <<rx, bus, todo, packets, rot, wheels, servo>>

\* TurnArmRotationAxle and its like remember the angle and then send their packets.
StartTurn ==
  /\ cpu.pc = "run" /\ packets = <<>> /\ todo # <<>>
  /\ LET axle == Head(todo)[1]
         degrees == Head(todo)[2]
     IN /\ packets' = Turn(axle, degrees)
        /\ rot' = IF axle \in Axles THEN [rot EXCEPT ![axle] = degrees] ELSE rot
  /\ todo' = Tail(todo)
  /\ UNCHANGED <<rx, bus, cpu, drv, wheels, servo, last>>

TransmitDynamixelPacket ==
  /\ cpu.pc = "run" /\ packets # <<>>
  /\ LET packet == Head(packets)
     IN servo' = ServoObeys(servo, SubSeq(packet, 1, 4 + packet[4]))
  /\ packets' = Tail(packets)
  /\ UNCHANGED <<rx, bus, cpu, todo, rot, drv, wheels, last>>

MovementDone ==
  /\ cpu.pc = "run" /\ packets = <<>> /\ todo = <<>>
  /\ cpu' = [cpu EXCEPT !.pc = "steer"]
  /\ UNCHANGED <<rx, bus, todo, packets, rot, drv, wheels, servo, last>>

NoCommand ==
  /\ cpu.pc = "top" /\ ~rx.done
  /\ cpu' = [cpu EXCEPT !.pc = "steer"]
  /\ UNCHANGED <<rx, bus, todo, packets, rot, drv, wheels, servo, last>>

\* The end of main's loop.
Steer ==
  /\ cpu.pc = "steer"
  /\ wheels' = IF drv.forward THEN WheelMotors_DriveForwardWithSteering ELSE wheels
  /\ cpu' = [cpu EXCEPT !.pc = "top"]
  /\ UNCHANGED <<rx, bus, todo, packets, rot, drv, servo, last>>

\* main: the interrupt is enabled before the arm is set up.
RcReset ==
  /\ rx = [buffer |-> [i \in 1 .. 16 |-> 0], index |-> 0, done |-> FALSE]
  /\ bus = Idle
  /\ cpu = [pc |-> "run", command |-> 0, diff |-> 0, float |-> <<>>]
  /\ packets = <<>>
  /\ rot = [a \in Axles |-> 0]
  /\ drv = [forward |-> FALSE, drive |-> 60, turn |-> 150, amplitude |-> 0, positive |-> FALSE]
  /\ wheels = WheelMotors_Init
  /\ servo = [s \in Servos |-> [a \in Table |-> 0]]
  /\ last = [sent |-> 0, command |-> 0, argument |-> 0, wheel |-> "STOP"]

RcInit == RcReset /\ todo = <<<<"setup", InitRobotArmServos>>>> \o ReturnToDefaultPosition

RcNext == \/ SlaveAddressed \/ DataReceived \/ TransferEnded
          \/ TakeCommand \/ ReadCommand \/ ReadDiff \/ Execute \/ ReadSignal
          \/ StartTurn \/ TransmitDynamixelPacket \/ MovementDone \/ NoCommand \/ Steer

RcSpec == RcInit /\ [][RcNext]_rcvars

-----------------------------------------------------------------------------
(* Properties *)

\* Once the bus is quiet and the main loop has nothing left to do, the command executed
\* last, with its argument, is what the master sent last: a transfer that ended while the
\* loop was busy or in the middle of reading the buffer is not lost.
LastCommandExecuted ==
  (bus = Idle /\ ~rx.done /\ cpu.pc = "top" /\ last.sent > 0)
     => last.command = rx.buffer[1] /\ last.argument = rx.buffer[2]

\* Wheels do what the last wheel command says between two rounds of the main loop, whatever
\* speeds, steer signals and arm movements came after it: STOP lasts.
WheelsObey ==
  cpu.pc = "top" =>
    CASE last.wheel = "STOP" -> wheels.a = 0 /\ wheels.b = 0
      [] last.wheel = "DRIVE_FORWARD" -> wheels.d6 = 1 /\ wheels.d7 = 0
      [] last.wheel = "DRIVE_BACKWARD" -> wheels.d6 = 0 /\ wheels.d7 = 1 /\ wheels.a = wheels.b
      [] OTHER -> wheels.d6 = wheels.d7 /\ wheels.a = wheels.b

\* Servos 2 and 3, and 4 and 5, hold one axle between them: once the axle was turned their
\* goals mirror each other after every single packet on the servo bus.
PairsMirrored ==
  \A pair \in {<<2, 3>>, <<4, 5>>} :
     LET goals == {Goal(pair[1]), Goal(pair[2])}
     IN goals = {0} \/ Goal(pair[1]) + Goal(pair[2]) \in {1023, 1023 + 65536}

\* Wheels and arm do what the master said last, wherever the bus interrupts the
\* main loop (main.c, i2c.c).
RobotObeys == LastCommandExecuted /\ WheelsObey /\ PairsMirrored

=============================================================================
