---------------------------- MODULE BlockDevices ----------------------------
(***************************************************************************)
(* Pintos's block devices: the ATA driver (devices/ide.c) that threads and *)
(* the interrupt handler share, the table of devices (block.c) and the     *)
(* partitions found at boot (partition.c).  The disk itself is external:   *)
(* it takes a command, asks for or offers a sector, and interrupts.        *)
(***************************************************************************)
EXTENDS Integers, Sequences, FiniteSets

CONSTANTS DkThreads,   \* threads that read and write
          Channels,    \* CHANNEL_CNT of them
          Kinds,       \* what is attached: [Channels \X {0, 1} -> kind of device]
          Sectors,     \* capacity of the disks that are of use
          MBRs,      \* partition tables: [disk -> [sector -> table]]
          SectorMod,   \* block_sector_t counts modulo this
          Values,      \* contents of a sector
          DiskMayFail  \* whether a transfer may fail

ASSUME DkAssumption ==
  /\ DkThreads # {} /\ "none" \notin DkThreads /\ DiskMayFail \in BOOLEAN
  /\ Sectors \in Nat /\ SectorMod \in Nat /\ Sectors < SectorMod
  /\ Channels \subseteq Nat /\ \E last \in Channels : Channels = 0 .. last
  /\ Kinds \in [Channels \X {0, 1} -> {"ata", "atafirst", "big", "atapi", "none"}]
  /\ \A d \in DOMAIN Kinds :
       /\ MBRs[d][0].signed \in BOOLEAN /\ DOMAIN MBRs[d][0].entries \subseteq 1 .. 4
       /\ \A i \in DOMAIN MBRs[d][0].entries :
            LET e == MBRs[d][0].entries[i]
            IN e.offset \in 0 .. SectorMod - 1 /\ e.size \in 0 .. SectorMod - 1 /\ e.type \in Nat

VARIABLES chan,     \* struct channel: lock, expecting_interrupt, completion_wait
          hw,       \* the controller: selected device, sector, command, BSY, DRQ, data
          irq,      \* channels with an interrupt pending
          media,    \* what is on the disks
          is_ata,   \* struct ata_disk
          all_blocks, \* struct block: the disks, and their partitions by number
          req       \* per thread: what it does

DkVars == <<chan, hw, irq, media, is_ata, all_blocks, req>>

Disks == DOMAIN Kinds
None == "none"
NoReq == [at |-> "idle", disk |-> <<0, 0>>, sec |-> 0, op |-> None, buf |-> 0]
Boot == CHOOSE t \in DkThreads : TRUE

DkInit ==
  /\ chan = [c \in Channels |-> [lock |-> None, expecting |-> FALSE, sema |-> 0]]
  /\ hw = [c \in Channels |-> [dev |-> 0, sec |-> 0, cmd |-> None, bsy |-> FALSE, drq |-> FALSE, data |-> 0]]
  /\ irq = {} /\ media = [d \in Disks |-> [s \in 0 .. Sectors - 1 |-> 0]]
  /\ is_ata = [d \in Disks |-> FALSE] /\ all_blocks = {}
  /\ req = [t \in DkThreads |-> IF t = Boot THEN [NoReq EXCEPT !.at = "init", !.disk = <<0, 0>>] ELSE NoReq]

-----------------------------------------------------------------------------
\* What the task file holds for a device of a kind after reset (external).
Registers(kind) ==
  CASE kind = "ata" -> [error |-> 1, lba |-> <<0, 0>>, drdy |-> TRUE, bsy |-> FALSE]
    [] kind = "atafirst" -> [error |-> 129, lba |-> <<0, 0>>, drdy |-> TRUE, bsy |-> FALSE]
    [] kind = "big" -> [error |-> 1, lba |-> <<60, 195>>, drdy |-> TRUE, bsy |-> FALSE]
    [] kind = "atapi" -> [error |-> 1, lba |-> <<20, 235>>, drdy |-> TRUE, bsy |-> FALSE]
    [] kind = "none" -> [error |-> 0, lba |-> <<0, 0>>, drdy |-> FALSE, bsy |-> FALSE]

Capacity(kind) == IF kind = "big" THEN 2 * SectorMod ELSE Sectors

\* reset_channel: what check_device_type then finds in the registers of the
\* channel's two devices.
reset_channel(c) == [dev_no \in {0, 1} |-> Registers(Kinds[<<c, dev_no>>])]

\* check_device_type: the new is_ata, and whether a slave may exist.
check_device_type(d) ==
  LET r == reset_channel(d[1])[d[2]]
      refused == (r.error # 1 /\ (r.error # 129 \/ d[2] = 1)) \/ ~r.drdy \/ r.bsy
  IN [ata |-> ~refused /\ r.lba \in {<<0, 0>>, <<60, 195>>}, slave |-> IF refused THEN r.error # 129 ELSE TRUE]

\* block.c: the first device of a name (here: a disk and a partition number,
\* 0 for the whole disk), and the bound every access is checked against.
Block(type, size, disk, nr, start) == [type |-> type, size |-> size, disk |-> disk, nr |-> nr, start |-> start]
check_sector(b, sector) == sector < b.size

\* found_partition: the partition, if it lies on the device.
PartitionType(type) ==
  CASE type = 32 -> "kernel" [] type = 33 -> "filesys" [] type = 34 -> "scratch" [] type = 35 -> "swap"
    [] OTHER -> "foreign"

found_partition(disk, type, start, size, nr) ==
  LET end == (start + size) % SectorMod
  IN IF start >= Sectors \/ end < start \/ end > Sectors THEN {}
     ELSE {Block(PartitionType(type), size, disk, nr, start)}

Extended(type) == type \in {5, 15, 133, 197}

\* read_partition_table reads sector 0, whatever its argument: what it parses for an
\* extended partition is the first table again, starting elsewhere.  <<i, 0>> is entry i of
\* the disk's table, <<i, j>> entry j of the table of its extended partition i.
PartTable(disk) == MBRs[disk][0]
Used(e) == e.size # 0 /\ e.type # 0
Extensions(disk) ==
  {i \in DOMAIN PartTable(disk).entries :
     LET e == PartTable(disk).entries[i] IN Used(e) /\ Extended(e.type) /\ e.offset < Sectors}

read_partition_table(disk) ==
  LET es == PartTable(disk).entries
      plain == {j \in DOMAIN es : Used(es[j]) /\ ~Extended(es[j].type)}
  IN IF Sectors = 0 \/ ~PartTable(disk).signed THEN {} ELSE (plain \X {0}) \cup (Extensions(disk) \X plain)

\* For a table below an extended partition's that is on the disk, it never returns.
read_partition_tableReturns(disk) ==
  PartTable(disk).signed => \A i, j \in Extensions(disk) :
    (PartTable(disk).entries[i].offset + PartTable(disk).entries[j].offset) % SectorMod >= Sectors

EntryAt(disk, p) == PartTable(disk).entries[IF p[2] = 0 THEN p[1] ELSE p[2]]
TableSector(disk, p) == IF p[2] = 0 THEN 0 ELSE PartTable(disk).entries[p[1]].offset
part_nr(disk, p) ==
  Cardinality({q \in read_partition_table(disk) : q[1] < p[1] \/ (q[1] = p[1] /\ q[2] <= p[2])})

partition_scan(disk) ==
  UNION {LET e == EntryAt(disk, p)
         IN found_partition(disk, e.type, (e.offset + TableSector(disk, p)) % SectorMod, e.size, part_nr(disk, p))
           : p \in read_partition_table(disk)}

-----------------------------------------------------------------------------
DkGo(t, step) == req' = [req EXCEPT ![t].at = step]
Chan(t) == req[t].disk[1]
At(t, step) == req[t].at = step

\* ide_init for one channel: reset, then which of its devices are disks.
ide_init(t) ==
  LET c == Chan(t)
      first == check_device_type(<<c, 0>>)
      second == check_device_type(<<c, 1>>)
  IN /\ At(t, "init")
     /\ is_ata' = [is_ata EXCEPT ![<<c, 0>>] = first.ata, ![<<c, 1>>] = first.slave /\ second.ata]
     /\ req' = [req EXCEPT ![t].at = "identify", ![t].disk = <<c, 0>>]
     /\ UNCHANGED <<chan, hw, irq, media, all_blocks>>

\* The next device of ide_init's loops, or the end of boot.
NextDevice(d) ==
  IF d[2] = 0 THEN [NoReq EXCEPT !.at = "identify", !.disk = <<d[1], 1>>]
  ELSE IF d[1] + 1 \in Channels THEN [NoReq EXCEPT !.at = "init", !.disk = <<d[1] + 1, 0>>]
  ELSE NoReq

\* identify_ata_device begins as a read does, without the lock.
identify(t) ==
  /\ At(t, "identify")
  /\ IF is_ata[req[t].disk] THEN req' = [req EXCEPT ![t].at = "select", ![t].op = "identify"]
     ELSE req' = [req EXCEPT ![t] = NextDevice(@.disk)]
  /\ UNCHANGED <<chan, hw, irq, media, is_ata, all_blocks>>

\* and registers the disk and its partitions, unless it is too large.
identified(t) ==
  LET d == req[t].disk
      ok == Capacity(Kinds[d]) <= Sectors
  IN /\ At(t, "identified") /\ (ok => read_partition_tableReturns(d))
     /\ is_ata' = [is_ata EXCEPT ![d] = ok]
     /\ all_blocks' = IF ok THEN all_blocks \cup {Block("raw", Capacity(Kinds[d]), d, 0, 0)} \cup partition_scan(d)
                      ELSE all_blocks
     /\ req' = [req EXCEPT ![t] = NextDevice(d)]
     /\ UNCHANGED <<chan, hw, irq, media>>

\* partition_read and partition_write: the disk's sector for a partition's.
partition_read(b, sector) == b.start + sector

\* block_read and block_write, down to ide_read and ide_write.  (An access that check_sector refuses, or a write
\* to a foreign partition, panics: no caller makes one.)
Booted == \A t \in DkThreads : req[t].op # "identify" /\ req[t].at \notin {"init", "identify", "identified"}

Request(t, op, b, sector, value) ==
  /\ Booted /\ At(t, "idle") /\ check_sector(b, sector) /\ (op = "write" => b.type # "foreign")
  /\ req' = [req EXCEPT ![t] = [at |-> "lock", disk |-> b.disk, sec |-> partition_read(b, sector), op |-> op, buf |-> value]]
  /\ UNCHANGED <<chan, hw, irq, media, is_ata, all_blocks>>

lock_channel(t) ==
  /\ At(t, "lock") /\ chan[Chan(t)].lock = None
  /\ chan' = [chan EXCEPT ![Chan(t)].lock = t] /\ DkGo(t, "select")
  /\ UNCHANGED <<hw, irq, media, is_ata, all_blocks>>

\* The two polls of the status register.
wait_until_idle(c) == ~hw[c].bsy /\ ~hw[c].drq
wait_while_busy(c) == ~hw[c].bsy

select_device(d) == [hw[d[1]] EXCEPT !.dev = d[2]]

\* select_sector: wait_until_idle (reading the status drops a pending
\* interrupt), then the device and the sector.
select_sector(t) ==
  LET c == Chan(t)
  IN /\ At(t, "select") /\ wait_until_idle(c)
     /\ hw' = [hw EXCEPT ![c] = [select_device(req[t].disk) EXCEPT !.sec = req[t].sec]]
     /\ irq' = irq \ {c} /\ DkGo(t, "issue") /\ UNCHANGED <<chan, media, is_ata, all_blocks>>

issue_pio_command(t) ==
  LET c == Chan(t)
  IN /\ At(t, "issue") /\ chan' = [chan EXCEPT ![c].expecting = TRUE]
     /\ hw' = [hw EXCEPT ![c].cmd = req[t].op, ![c].bsy = TRUE]
     /\ DkGo(t, IF req[t].op = "write" THEN "busy" ELSE "wait")
     /\ UNCHANGED <<irq, media, is_ata, all_blocks>>

\* mistake: the data is polled for and the interrupt left to come
completion_waitNot(t) ==
  At(t, "wait") /\ DkGo(t, IF req[t].op = "write" THEN "release" ELSE "busy")
  /\ UNCHANGED <<chan, hw, irq, media, is_ata, all_blocks>>

\* sema_down (&c->completion_wait)
completion_wait(t) ==
  /\ At(t, "wait") /\ chan[Chan(t)].sema > 0
  /\ chan' = [chan EXCEPT ![Chan(t)].sema = @ - 1]
  /\ DkGo(t, IF req[t].op = "write" THEN "release" ELSE "busy")
  /\ UNCHANGED <<hw, irq, media, is_ata, all_blocks>>

\* wait_while_busy, then the sector in or out; without DRQ a read or a write
\* panics and a disk that does not identify itself is given up.
transfer(t) ==
  LET c == Chan(t)
  IN /\ At(t, "busy") /\ wait_while_busy(c)
     /\ \/ /\ hw[c].drq /\ req[t].op # "write"
           /\ hw' = [hw EXCEPT ![c].drq = FALSE, ![c].cmd = None]
           /\ req' = [req EXCEPT ![t].buf = hw[c].data, ![t].at = IF req[t].op = "identify" THEN "identified" ELSE "release"]
           /\ UNCHANGED is_ata
        \/ /\ hw[c].drq /\ req[t].op = "write"
           /\ hw' = [hw EXCEPT ![c].drq = FALSE, ![c].bsy = TRUE, ![c].data = req[t].buf]
           /\ DkGo(t, "wait") /\ UNCHANGED is_ata
        \/ /\ ~hw[c].drq /\ req[t].op = "identify"
           /\ is_ata' = [is_ata EXCEPT ![req[t].disk] = FALSE]
           /\ req' = [req EXCEPT ![t] = NextDevice(@.disk)] /\ UNCHANGED hw
        \/ /\ ~hw[c].drq /\ req[t].op # "identify" /\ DkGo(t, "panic") /\ UNCHANGED <<hw, is_ata>>
     /\ UNCHANGED <<chan, irq, media, all_blocks>>

lock_release(t) ==
  /\ At(t, "release") /\ chan' = [chan EXCEPT ![Chan(t)].lock = None]
  /\ req' = [req EXCEPT ![t] = NoReq] /\ UNCHANGED <<hw, irq, media, is_ata, all_blocks>>

\* interrupt_handler.  expecting_interrupt is never set back: it is the disk
\* that interrupts only when it has something to say.
interrupt_handler(c) ==
  /\ c \in irq /\ irq' = irq \ {c}
  /\ chan' = [chan EXCEPT ![c].sema = IF chan[c].expecting THEN @ + 1 ELSE @]
  /\ UNCHANGED <<hw, media, is_ata, all_blocks, req>>

-----------------------------------------------------------------------------
\* The disk (external).  A read or identify offers a sector and interrupts; a
\* write asks for one without an interrupt, stores it and interrupts.
DiskOffers(c) ==
  LET d == <<c, hw[c].dev>>
  IN /\ hw[c].bsy /\ hw[c].cmd \in {"read", "identify"}
     /\ hw' = [hw EXCEPT ![c].bsy = FALSE, ![c].drq = TRUE,
                         ![c].data = IF hw[c].cmd = "read" THEN media[d][hw[c].sec] ELSE 0]
     /\ irq' = irq \cup {c} /\ UNCHANGED <<chan, media, is_ata, all_blocks, req>>

DiskAsks(c) ==
  /\ hw[c].bsy /\ hw[c].cmd = "write"
  /\ hw' = [hw EXCEPT ![c].bsy = FALSE, ![c].drq = TRUE, ![c].cmd = "store"]
  /\ UNCHANGED <<chan, irq, media, is_ata, all_blocks, req>>

DiskStores(c) ==
  /\ hw[c].bsy /\ hw[c].cmd = "store"
  /\ media' = [media EXCEPT ![<<c, hw[c].dev>>][hw[c].sec] = hw[c].data]
  /\ hw' = [hw EXCEPT ![c].bsy = FALSE, ![c].cmd = None]
  /\ irq' = irq \cup {c} /\ UNCHANGED <<chan, is_ata, all_blocks, req>>

DiskFails(c) ==
  /\ DiskMayFail /\ hw[c].bsy /\ hw[c].cmd \in {"read", "identify", "write"}
  /\ hw' = [hw EXCEPT ![c].bsy = FALSE, ![c].cmd = None]
  /\ irq' = irq \cup {c} /\ UNCHANGED <<chan, media, is_ata, all_blocks, req>>

ThreadStep(t) ==
  \/ ide_init(t) \/ identify(t) \/ identified(t)
  \/ \E b \in all_blocks, sector \in 0 .. Sectors - 1 :
       \/ Request(t, "read", b, sector, 0)
       \/ \E v \in Values : Request(t, "write", b, sector, v)
  \/ lock_channel(t) \/ select_sector(t) \/ issue_pio_command(t) \/ completion_wait(t)
  \/ transfer(t) \/ lock_release(t)

DkNext ==
  /\ \A t \in DkThreads : ~At(t, "panic")
  /\ \/ \E t \in DkThreads : ThreadStep(t)
     \/ \E c \in Channels : \/ interrupt_handler(c) \/ DiskOffers(c) \/ DiskAsks(c) \/ DiskStores(c)
                            \/ DiskFails(c)

DkSpec == DkInit /\ [][DkNext]_DkVars

-----------------------------------------------------------------------------
\* A read ends with what the sector holds, a write with the sector written, on
\* the disk and at the sector that was asked for, whoever else uses the channel.
TransfersExact ==
  \A t \in DkThreads : At(t, "release") => media[req[t].disk][req[t].sec] = req[t].buf

\* A channel that is free has no completion left over: an interrupt that came
\* late or twice would end the next transfer before its time.
NoStrayCompletion ==
  \A c \in Channels : Booted /\ chan[c].lock = None => chan[c].sema = 0 /\ c \notin irq /\ ~hw[c].bsy /\ ~hw[c].drq

\* What is registered lies on its disk, whatever the table says.
PartitionsOnDisk == \A b \in all_blocks : b.start + b.size <= Sectors /\ is_ata[b.disk]

\* The partitions of a disk are those that its table describes and that fit on it, each at
\* its place: the test for the end is not fooled by a sum that wraps around.  (Not so with
\* extended partitions, which the comment of read_partition_table has in tables of their
\* own: for those the code reads sector 0 again.)
Described(disk) ==
  LET es == PartTable(disk).entries
  IN IF ~PartTable(disk).signed THEN {}
     ELSE {[start |-> e.offset, size |-> e.size] :
             e \in {f \in {es[i] : i \in DOMAIN es} : Used(f) /\ f.offset + f.size <= Sectors}}
PartitionsAsDescribed ==
  Booted => \A d \in Disks : is_ata[d] /\ Extensions(d) = {} =>
    {[start |-> b.start, size |-> b.size] : b \in {a \in all_blocks : a.disk = d /\ a.nr > 0}} = Described(d)

\* Threads that share a channel get their own transfers, on the partitions that
\* the tables describe (ide.c, partition.c).
DisksSound ==
  /\ TransfersExact /\ NoStrayCompletion /\ PartitionsOnDisk /\ PartitionsAsDescribed
=============================================================================
