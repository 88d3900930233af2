------------------------------ MODULE MCMachine ------------------------------
(* The kernel's memory, devices, interrupts and boot, and the two           *)
(* microcontrollers of the robot: parts that share no variable, explored in *)
(* one run.  part is the part that runs; the others stay as they start.     *)
EXTENDS UserMemory, KernelMemory, BlockDevices, Console, KernelBoot,
        RobotControl, RobotSensor, TLC

CONSTANTS p1, p2

VARIABLE part

(* Executables: data and bss over two pages, two segments, and the ways a   *)
(* header is refused.                                                       *)
Ph(type, offset, vaddr, filesz, memsz, w) ==
  [type |-> type, offset |-> offset, vaddr |-> vaddr, filesz |-> filesz,
   memsz |-> memsz, w |-> w]
Img(length, phdrs, args) ==
  [ok |-> TRUE, length |-> length, phdrs |-> phdrs, args |-> args]
MCImages ==
  {Img(70, <<Ph("ignored", 0, 0, 0, 0, FALSE), Ph("load", 5, 37, 40, 40, FALSE)>>, <<2>>),
   Img(40, <<Ph("load", 8, 40, 20, 50, TRUE)>>, <<1, 4, 3>>),
   Img(40, <<Ph("load", 0, 32, 10, 10, TRUE), Ph("load", 32, 96, 0, 8, TRUE)>>, <<2>>),
   Img(40, <<Ph("load", 0, 128, 10, 400, TRUE)>>, <<1, 4, 3>>),
   Img(40, <<Ph("load", 0, 0, 5, 5, TRUE)>>, <<2>>),
   [ok |-> FALSE, length |-> 0, phdrs |-> <<>>, args |-> <<1>>]}

MCCallocs == {<<2, 3>>, <<8, 9>>}

(* What the theorem on the heap supposes of the sizes asked for.            *)
ASSUME HeapSizesFit == NoWrap

(* A disk with a partition table, one with an extended partition, a CD      *)
(* drive, and a disk past the size the driver believes.                     *)
Entry(type, offset, size) == [type |-> type, offset |-> offset, size |-> size]
MCKinds ==
  [d \in {0, 1} \X {0, 1} |->
     CASE d = <<0, 0>> -> "atafirst" [] d = <<0, 1>> -> "ata"
       [] d = <<1, 0>> -> "atapi" [] OTHER -> "big"]
MCTables ==
  [d \in DOMAIN MCKinds |-> [s \in 0 .. 1 |->
     IF d = <<0, 0>> /\ s = 0
     THEN [signed |-> TRUE,
           entries |-> <<Entry(33, 0, 2), Entry(131, 1, 1), Entry(34, 1, 7), Entry(0, 0, 1)>>]
     ELSE IF d = <<0, 1>> /\ s = 0
     THEN [signed |-> TRUE, entries |-> <<Entry(5, 1, 1), Entry(32, 0, 1)>>]
     ELSE [signed |-> FALSE, entries |-> <<>>]]]

(* Command lines of up to three words. *)
W(n, v) == [name |-> n, value |-> v]
MCWords ==
  {W(n, "NULL") : n \in {"-h", "-q", "-r", "-S", "-f", "-F", "-x", "run", "ls", "extract", "p"}}
  \cup {W("-F", "9"), W("-filesys", "hda1"), W("-filesys", "hdz"), W("-scratch", "hdz")}
MCLines == UNION {[1 .. n -> MCWords] : n \in 0 .. 3}

(* Every command with a small argument, the turns also with a large one,    *)
(* and a command that does not exist.                                       *)
MCSignals == {-300, 40}
MCMessages ==
  {<<c, 1>> : c \in 10 .. 30 \ {17, 18, 19}}
  \cup {<<c, 250>> : c \in {17, 18, 21, 22}}
  \cup {<<19, s, s, s, s>> : s \in MCSignals} \cup {<<99, 0>>}

(* The two processes are alike, and nothing else tells them apart. *)
Alike == Permutations({p1, p2})

(* The initial values of the parts that have several, when they do not run. *)
BtOne == line = <<>> /\ BtInit

MachineInit ==
  /\ part \in {"user", "heap", "disk", "console", "boot", "arm", "sensor"}
  /\ UmInit /\ MeInit /\ DkInit /\ CoInit /\ RsInit
  /\ RcReset /\ IF part = "arm" THEN RcInit ELSE todo = <<>>
  /\ IF part = "boot" THEN BtInit ELSE BtOne

Only(p) ==
  /\ part = p /\ UNCHANGED part
  /\ p # "user" => UNCHANGED UmVars
  /\ p # "heap" => UNCHANGED MeVars
  /\ p # "disk" => UNCHANGED DkVars
  /\ p # "console" => UNCHANGED CoVars
  /\ p # "boot" => UNCHANGED btVars
  /\ p # "arm" => UNCHANGED rcvars
  /\ p # "sensor" => UNCHANGED rsvars

MachineNext ==
  \/ Only("user") /\ UmNext
  \/ Only("heap") /\ MeNext
  \/ Only("disk") /\ DkNext
  \/ Only("console") /\ CoNext
  \/ Only("boot") /\ BtNext
  \/ Only("arm") /\ RcNext
  \/ Only("sensor") /\ RsNext
=============================================================================
