--------------------------- MODULE ScratchArchive ---------------------------
(***************************************************************************)
(* Files carried in and out of Pintos: lib/ustar.c (the header of an       *)
(* archive member) and filesys/fsutil.c (ls, cat, rm, extract, append),    *)
(* one step per sector of the scratch device, with power loss between any  *)
(* two.  The host, which fills the device before a boot, is external.      *)
(***************************************************************************)
EXTENDS Integers, Sequences, FiniteSets

CONSTANTS
  Names,          \* file names: sequences of characters
  SectorBytes,    \* BLOCK_SECTOR_SIZE
  ScratchSectors, \* sectors of the scratch device
  NameChars,      \* the longest name of a header, 99
  SizeDigits,     \* octal digits of a size field, 11
  SumDigits,      \* octal digits of the checksum field, 7
  SumMod,         \* values of the integer the checksum is computed in
  Archives,       \* archives the host puts on the device: sequences of members
  MaxBoots, MaxActions

ASSUME SaAssumption == SectorBytes \in Nat \ {0} /\ ScratchSectors \in Nat \ {0}

VARIABLES
  scratch,        \* the sectors of the scratch device
  files,          \* the file system: the existing names and their contents
  exSector,       \* fsutil_extract's static sector
  apSector,       \* fsutil_append's static sector
  fs,             \* the call in progress
  put,            \* the members the host archived, while the archive is on the device
  clean,          \* an extract completed and nothing was archived since
  saved,          \* the files whose append completed, in order
  boots, actions
savars == <<scratch, files, exSector, apSector, fs, put, clean, saved, boots, actions>>

-----------------------------------------------------------------------------
(* ustar.c *)

Codes == [c \in {"/", ".", "a", "b", "c"} |->
            CASE c = "/" -> 3 [] c = "." -> 2 [] c = "a" -> 5 [] c = "b" -> 6 [] c = "c" -> 7]

\* %0<digits>o
Octal(n, digits) == [i \in 1 .. digits |-> (n \div 8 ^ (digits - i)) % 8]
parse_octal_field(field) ==
  LET value[i \in 0 .. Len(field)] == IF i = 0 THEN 0 ELSE value[i - 1] * 8 + field[i] IN value[Len(field)]

SumOf(s) == LET sum[i \in 0 .. Len(s)] == IF i = 0 THEN 0 ELSE sum[i - 1] + s[i] IN sum[Len(s)]

\* The sum of the header's bytes, the checksum field's counted as spaces; the bytes that
\* are the same in every header are left out.
calculate_chksum(h) == (SumOf([i \in 1 .. Len(h.name) |-> Codes[h.name[i]]]) + SumOf(h.size) + h.typeflag) % SumMod

StartsWith(s, prefix) == Len(s) >= Len(prefix) /\ SubSeq(s, 1, Len(prefix)) = prefix
Antisocial(s) == StartsWith(s, <<"/">>) \/ StartsWith(s, <<".", "/">>) \/ StartsWith(s, <<".", ".", "/">>)
FirstSlash(s) == CHOOSE i \in 1 .. Len(s) : s[i] = "/" /\ \A j \in 1 .. i - 1 : s[j] # "/"
\* The loop: after each `/' the rest is looked at again.
Stripped(s) ==
  LET rest[n \in 0 .. Len(s)] ==
        IF n = 0 \/ ~Antisocial(SubSeq(s, Len(s) - n + 1, Len(s))) THEN n
        ELSE rest[n - FirstSlash(SubSeq(s, Len(s) - n + 1, Len(s)))]
  IN SubSeq(s, Len(s) - rest[Len(s)] + 1, Len(s))
strip_antisocial_prefixes(s) ==
  IF Stripped(s) \in {<<>>, <<".", ".">>} THEN <<".">> ELSE Stripped(s)

Zeros == [is |-> "zeros"]
Data(bytes) == [is |-> "data", bytes |-> bytes]
Regular == 0
Directory == 5

Header(name, typeflag, size) ==
  LET h == [is |-> "header", name |-> name, typeflag |-> typeflag, size |-> Octal(size, SizeDigits), chksum |-> <<>>]
  IN [h EXCEPT !.chksum = Octal(calculate_chksum(h), SumDigits)]
ustar_make_header(file_name, typeflag, size) == Header(strip_antisocial_prefixes(file_name), typeflag, size)

\* What a sector is taken for: a member, the end of the archive, or a mistake.
ustar_parse_header(sector) ==
  IF sector = Zeros \/ (sector.is = "data" /\ SumOf(sector.bytes) = 0) THEN [type |-> "EOF"]
  ELSE IF \/ sector.is = "data"
          \/ parse_octal_field(sector.chksum) # calculate_chksum(sector)
          \/ Len(sector.name) > NameChars
          \/ sector.typeflag \notin {Regular, Directory}
       THEN [type |-> "error"]
  ELSE [type |-> IF sector.typeflag = Regular THEN "REGULAR" ELSE "DIRECTORY",
        name |-> strip_antisocial_prefixes(sector.name),
        size |-> IF sector.typeflag = Regular THEN parse_octal_field(sector.size) ELSE 0]

-----------------------------------------------------------------------------
(* The device as the host fills it: members in order, two sectors of zeros, the rest *)

Padded(bytes) == [i \in 1 .. SectorBytes |-> IF i <= Len(bytes) THEN bytes[i] ELSE 0]
Chunk(content, k) == SubSeq(content, (k - 1) * SectorBytes + 1,
                            IF k * SectorBytes < Len(content) THEN k * SectorBytes ELSE Len(content))
ChunkCount(size) == (size + SectorBytes - 1) \div SectorBytes
MemberSectors(m) ==
  <<Header(m.name, m.typeflag, Len(m.content))>>
  \o [k \in 1 .. ChunkCount(Len(m.content)) |-> Data(Padded(Chunk(m.content, k)))]
ArchiveSectors(members) ==
  LET all[i \in 0 .. Len(members)] == IF i = 0 THEN <<>> ELSE all[i - 1] \o MemberSectors(members[i])
  IN all[Len(members)] \o <<Zeros, Zeros>>
Device(sectors) == [s \in 0 .. ScratchSectors - 1 |-> IF s < Len(sectors) THEN sectors[s + 1] ELSE Zeros]

Idle == [at |-> "idle"]
Panic == [at |-> "panic"]
SaInit ==
  /\ scratch = Device(<<>>) /\ files \in [{} -> {}]
  /\ exSector = 0 /\ apSector = 0 /\ fs = Idle /\ put = <<>> /\ clean = TRUE /\ saved = <<>> /\ boots = 0 /\ actions = 0

\* Power is lost or the machine is switched off; the host may have filled the device.
Boot ==
  /\ boots < MaxBoots /\ boots' = boots + 1 /\ actions' = 0
  /\ exSector' = 0 /\ apSector' = 0 /\ fs' = Idle /\ saved' = <<>>
  /\ \/ UNCHANGED <<scratch, put, clean>>
     \/ \E members \in Archives : put' = members /\ clean' = FALSE /\ scratch' = Device(ArchiveSectors(members))
  /\ UNCHANGED files

\* One byte of a header on the device is damaged.
Damage ==
  /\ fs.at = "idle" /\ put # <<>> /\ actions = 0
  /\ \E s \in DOMAIN scratch : \E d \in 1 .. SizeDigits :
       /\ scratch[s].is = "header"
       /\ scratch' = [scratch EXCEPT ![s].size[d] = (@ + 1) % 8]
  /\ actions' = actions + 1
  /\ UNCHANGED <<files, exSector, apSector, fs, put, clean, saved, boots>>

Begin(next) == fs.at = "idle" /\ actions < MaxActions /\ actions' = actions + 1 /\ fs' = next
OnDevice(sector) == sector \in DOMAIN scratch

fsutil_rm(name) ==
  /\ Begin(IF name \in DOMAIN files THEN Idle ELSE Panic)
  /\ files' = [n \in DOMAIN files \ {name} |-> files[n]]
  /\ UNCHANGED <<scratch, exSector, apSector, saved, put, clean, boots>>

-----------------------------------------------------------------------------
(* fsutil_extract *)

\* As the comment of fsutil_append asks and the pintos script does, before all appends.
ExtractBegins == /\ apSector = 0 /\ Begin([at |-> "header"])
                 /\ UNCHANGED <<scratch, files, exSector, apSector, saved, put, clean, boots>>

\* The header is read and the file made, full size, before its data is copied.
ExtractHeader ==
  /\ fs.at = "header"
  /\ IF ~OnDevice(exSector) THEN fs' = Panic /\ UNCHANGED <<files, exSector>>
     ELSE LET h == ustar_parse_header(scratch[exSector])
          IN /\ exSector' = exSector + 1
             /\ CASE h.type = "error" -> fs' = Panic /\ UNCHANGED files
                  [] h.type = "EOF" -> fs' = [at |-> "erase", sector |-> 0] /\ UNCHANGED files
                  [] h.type = "DIRECTORY" -> UNCHANGED <<fs, files>>
                  [] h.type = "REGULAR" ->
                       IF h.name \in DOMAIN files THEN fs' = Panic /\ UNCHANGED files
                       ELSE /\ files' = [n \in DOMAIN files \cup {h.name} |->
                                           IF n = h.name THEN [i \in 1 .. h.size |-> 0] ELSE files[n]]
                            /\ fs' = IF h.size = 0 THEN [at |-> "header"]
                                     ELSE [at |-> "copy", name |-> h.name, size |-> h.size, done |-> 0]
  /\ UNCHANGED <<scratch, apSector, saved, actions, put, clean, boots>>

chunk_size(size) == IF size > SectorBytes THEN SectorBytes ELSE size

\* The bytes of a sector; those of a header, read as data, all stand as one value.
SectorData(s) ==
  CASE s.is = "zeros" -> Padded(<<>>) [] s.is = "data" -> s.bytes [] OTHER -> [i \in 1 .. SectorBytes |-> -1]

ExtractData ==
  /\ fs.at = "copy"
  /\ IF ~OnDevice(exSector) THEN fs' = Panic /\ UNCHANGED <<files, exSector>>
     ELSE LET n == chunk_size(fs.size - fs.done)
              data == SectorData(scratch[exSector])
          IN /\ exSector' = exSector + 1
             /\ files' = [files EXCEPT ![fs.name] =
                            [i \in DOMAIN @ |-> IF i \in fs.done + 1 .. fs.done + n THEN data[i - fs.done] ELSE @[i]]]
             /\ fs' = IF fs.done + n >= fs.size THEN [at |-> "header"] ELSE [fs EXCEPT !.done = @ + n]
  /\ UNCHANGED <<scratch, apSector, saved, actions, put, clean, boots>>

\* Two sectors of zeros are written over the archive's beginning.
ExtractEraseNot ==                                       \* a mistake: the archive is left
  /\ fs.at = "erase" /\ fs' = Idle /\ put' = <<>> /\ clean' = TRUE
  /\ UNCHANGED <<scratch, files, exSector, apSector, saved, actions, boots>>
ExtractErase ==
  /\ fs.at = "erase"
  /\ IF ~OnDevice(fs.sector) THEN fs' = Panic /\ UNCHANGED <<scratch, put, clean>>
     ELSE /\ scratch' = [scratch EXCEPT ![fs.sector] = Zeros]
          /\ IF fs.sector = 0 THEN fs' = [fs EXCEPT !.sector = 1] /\ UNCHANGED <<put, clean>>
             ELSE fs' = Idle /\ put' = <<>> /\ clean' = TRUE
  /\ UNCHANGED <<files, exSector, apSector, saved, actions, boots>>

-----------------------------------------------------------------------------
(* fsutil_append *)

AppendHeader(name) ==
  /\ UNCHANGED <<files, exSector, saved, boots>> /\ clean' = FALSE /\ put' = <<>>
  /\ IF \/ name \notin DOMAIN files
        \/ Len(strip_antisocial_prefixes(name)) > NameChars
        \/ ~OnDevice(apSector)
     THEN Begin(Panic) /\ UNCHANGED <<scratch, apSector>>
     ELSE /\ scratch' = [scratch EXCEPT ![apSector] = ustar_make_header(name, Regular, Len(files[name]))]
          /\ apSector' = apSector + 1
          /\ Begin([at |-> IF Len(files[name]) > 0 THEN "data" ELSE "mark", name |-> name, chunk |-> 1, mark |-> 0])

AppendData ==
  /\ fs.at = "data"
  /\ IF ~OnDevice(apSector) THEN fs' = Panic /\ UNCHANGED <<scratch, apSector>>
     ELSE /\ scratch' = [scratch EXCEPT ![apSector] = Data(Padded(Chunk(files[fs.name], fs.chunk)))]
          /\ apSector' = apSector + 1
          /\ fs' = IF fs.chunk = ChunkCount(Len(files[fs.name])) THEN [fs EXCEPT !.at = "mark"]
                   ELSE [fs EXCEPT !.chunk = @ + 1]
  /\ UNCHANGED <<files, exSector, saved, actions, put, clean, boots>>

\* The end of the archive, which the next append overwrites.
MarkAt == apSector + fs.mark
AppendMark ==
  /\ fs.at = "mark"
  /\ IF ~OnDevice(MarkAt) THEN fs' = Panic /\ UNCHANGED <<scratch, saved>>
     ELSE /\ scratch' = [scratch EXCEPT ![MarkAt] = Zeros]
          /\ IF fs.mark = 0 THEN fs' = [fs EXCEPT !.mark = 1] /\ UNCHANGED saved
             ELSE fs' = Idle /\ saved' = Append(saved, [name |-> fs.name, content |-> files[fs.name]])
  /\ UNCHANGED <<files, exSector, apSector, actions, put, clean, boots>>

SaNext ==
  \/ Boot \/ Damage \/ ExtractBegins \/ ExtractHeader \/ ExtractData \/ ExtractErase
  \/ AppendData \/ AppendMark
  \/ \E name \in Names : fsutil_rm(name) \/ AppendHeader(name)

-----------------------------------------------------------------------------
(* Properties *)

\* The members a reader of the device finds from its first sector on.
RECURSIVE MembersFrom(_)
MembersFrom(s) ==
  IF ~OnDevice(s) THEN <<"off the device">>
  ELSE LET h == ustar_parse_header(scratch[s])
       IN CASE h.type = "EOF" -> <<>>
            [] h.type = "error" -> <<"error">>
            [] OTHER ->
                 LET n == ChunkCount(h.size)
                     bytes == [i \in 1 .. h.size |->
                                 LET d == scratch[s + 1 + ((i - 1) \div SectorBytes)]
                                 IN IF d.is = "data" THEN d.bytes[((i - 1) % SectorBytes) + 1] ELSE 0]
                 IN <<[name |-> h.name, content |-> bytes]>> \o MembersFrom(s + 1 + n)

\* After every completed append the device reads, from its beginning, as the files appended
\* since the boot, in order, name and content.
AppendsReadBack ==
  fs = Idle /\ saved # <<>> =>
    MembersFrom(0) = [i \in DOMAIN saved |-> [saved[i] EXCEPT !.name = strip_antisocial_prefixes(@)]]

\* When extract is done copying, every regular member the host put is a file with its
\* content: a header with a damaged byte stops it instead.
ExtractsAll ==
  (fs.at = "erase" /\ exSector > 1) =>
    \A i \in DOMAIN put : put[i].typeflag = Regular =>
      /\ strip_antisocial_prefixes(put[i].name) \in DOMAIN files
      /\ files[strip_antisocial_prefixes(put[i].name)] = put[i].content

\* fsutil_extract's comment on the erasing: the operation is idempotent.  The first extract
\* of a boot finds nothing once an earlier one completed.
ExtractIdempotent ==
  clean /\ fs.at = "header" /\ exSector = 0 => ustar_parse_header(scratch[0]).type = "EOF"

\* Whatever name an archive holds, no file is made under one that leads out of the directory.
NamesSociable == \A n \in DOMAIN files : ~Antisocial(n) /\ n \notin {<<>>, <<".", ".">>}

\* What goes through the scratch device comes out as it went in, once, under a
\* name inside the directory (fsutil.c, ustar.c).
ArchivesCarryFiles == NamesSociable /\ AppendsReadBack /\ ExtractsAll /\ ExtractIdempotent
=============================================================================
