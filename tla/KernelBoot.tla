----------------------------- MODULE KernelBoot -----------------------------
(***************************************************************************)
(* The kernel's way from its entry to the idle loop, as far as the         *)
(* processor's tables are concerned: kernel_main and test_paging of        *)
(* main.c, init_cpu and irq_handler of cpu.c, init_gdt, init_idt with      *)
(* PIC_remap, and init_directory, over the codecs of Descriptors,          *)
(* PageTables, MemoryMap and Conversions. What the processor, the memory   *)
(* management unit and the interrupt controllers do with the tables is     *)
(* part of the model. The thread table is Scheduler's, the terminals are   *)
(* Display's.                                                              *)
(*                                                                         *)
(* The code is sequential; from idt_flush on, which sets the interrupt     *)
(* flag, an interrupt or an exception of any vector may come between two   *)
(* of its steps.                                                           *)
(***************************************************************************)
EXTENDS Descriptors, PageTables, MemoryMap, Conversions, SequencesExt

CONSTANTS
  MemoryMaps,     \* the memory maps the boot loader may hand over
  XPage,          \* the page in which main.c's variable x lies
  HandlersBase,   \* &custom_handlers
  StubAddress,    \* &irq_common_stub
  ScanCodes,      \* what the keyboard may send
  Samples         \* numbers for the conversions, besides those the kernel prints

\* x lies in the kernel's image, among the pages of the first table, and not at 0.
ASSUME XPageAssumption ==
  /\ XPage \in Entries /\ PageSize * XPage \in KernelStart .. KernelEnd - 1
  /\ PageSize <= KernelStart

\* The first address that the tables do not map.
MemoryEnd == PageSize * (TableSize * TableSize)

\* What is left of a number without its low 32 bits.
High(n) == (n \div 65536) \div 65536

\* Every int that is an address is mapped; and the boot loader reports words of 64
\* and 32 bits, of any value.
ASSUME MapsAssumption ==
  /\ IntLimit <= MemoryEnd
  /\ \A map \in MemoryMaps :
       /\ map \in Seq([addr : Nat, len : Nat, type : Nat])
       /\ \A k \in 1 .. Len(map) :
            /\ High(High(map[k].addr)) = 0 /\ High(High(map[k].len)) = 0
            /\ High(map[k].type) = 0

handlersCount == 48
Vectors == 0 .. handlersCount - 1
Slots   == 0 .. 4    \* of gdt_segment_t

\* The handlers lie in a memory of 32-bit addresses.
ASSUME AddressesAssumption ==
  /\ HandlersBase \in Nat /\ (HandlersBase + HandlerSize * handlersCount) \div 65536 < 65536
  /\ StubAddress \in Nat

\* The keyboard sends bytes; an int has 32 bits, and itoa cannot negate the least.
ASSUME ScanCodesAssumption == ScanCodes \subseteq 0 .. 255
ASSUME SamplesAssumption ==
  \A n \in Samples : n \in Int /\ n <= 2147483647 /\ -n <= 2147483647

\* A selector the boot loader has left behind.
Loaders == -1

VARIABLES
  pc, i, j,                     \* where the code is, and its loop counters
  seg, gdtLoaded,               \* the segment table; whether gdtr holds it
  codeSelector, dataSelector,   \* gdt.c's variables
  cs, ds,                       \* the processor's segment registers, ds for all others
  idt_seg, custom_handlers,     \* the gates and what they point at
  idtLoaded, interruptsOn,      \* whether idtr holds the gates; the interrupt flag
  pic,                          \* the interrupt controllers
  catalog, tables,              \* kernel_directory
  current,                      \* current_directory's tables, page by page
  paging,                       \* cr3 holds kernel_directory's catalog, paging is on
  mmap,                         \* the boot loader's memory map
  newPage,                      \* test_paging's newPageAddress
  mem,                          \* of each page frame, the word at x's offset
  y,                            \* what test has found, so far
  printed                       \* the numbers the last step has printed

gdtVars    == <<seg, gdtLoaded, codeSelector, dataSelector, cs, ds>>
idtVars    == <<idt_seg, custom_handlers, idtLoaded, interruptsOn, pic>>
pagingVars == <<catalog, tables, paging>>
testVars   == <<current, newPage, mem, y>>
vars == <<pc, i, j, gdtVars, idtVars, pagingVars, testVars, mmap, printed>>

Labels == {"gdt", "select", "lgdt", "load_ds", "load_cs", "idt", "pic", "lidt", "sti",
           "catalog", "table", "paging", "map", "t_page", "t_copy", "t_write", "t_first",
           "t_remap", "t_second", "halt"}

NoDescriptor == makeDescriptor(compileDescriptor(0, 0, 0, 0))
NoGate    == idt_set(0, 0, 0)
NoHandler == [pushes |-> <<>>, opJmpArg |-> 0]

\* One of the two controllers: its next initialisation word, 0 in operation; the
\* vector of its first line; its mask. These offsets are the BIOS's.
Controller(offset) == [stage |-> 0, offset |-> offset, mask |-> 0]

Init ==
  /\ pc = "gdt" /\ i = 0 /\ j = 0
  /\ seg = [k \in Slots |-> NoDescriptor] /\ gdtLoaded = FALSE
  /\ codeSelector = 0 /\ dataSelector = 0
  /\ cs = Loaders /\ ds = Loaders
  /\ idt_seg = [n \in Vectors |-> NoGate]
  /\ custom_handlers = [n \in Vectors |-> NoHandler]
  /\ idtLoaded = FALSE /\ interruptsOn = FALSE
  /\ pic = [master |-> Controller(8), slave |-> Controller(112)]
  /\ catalog = [k \in Entries |-> 0]
  /\ tables = [k \in Entries |-> [l \in Entries |-> 0]]
  /\ current = [p \in Pages |-> 0]
  /\ paging = FALSE
  /\ mmap \in MemoryMaps
  /\ newPage = 0
  /\ mem = [p \in Pages |-> IF p = XPage THEN 10 ELSE 0]
  /\ y = <<>> /\ printed = {}

\* One step of the code, of which nobody prints anything.
Go(from, to) == pc = from /\ pc' = to /\ printed' = {} /\ UNCHANGED mmap

-----------------------------------------------------------------------------
(* init_gdt.                                                               *)

\* The five assignments to seg in their order: the slot, the limit, the access byte
\* and the flags. gdt_segment_t has code32 and data32 in slots 1 and 2.
GdtEntries ==
  << [slot |-> 0, limit |->  0, access |-> 0,   gran |-> 0],
     [slot |-> 3, limit |-> -1, access |-> 154, gran |-> 207],
     [slot |-> 4, limit |-> -1, access |-> 146, gran |-> 207],
     [slot |-> 1, limit |-> -1, access |-> 250, gran |-> 207],
     [slot |-> 2, limit |-> -1, access |-> 242, gran |-> 207] >>

gdt_entry ==
  LET e == GdtEntries[i + 1] IN
  /\ Go("gdt", IF i + 1 < Len(GdtEntries) THEN "gdt" ELSE "select")
  /\ seg' = [seg EXCEPT ![e.slot] =
               makeDescriptor(compileDescriptor(0, e.limit, e.access, e.gran))]
  /\ i' = IF i + 1 < Len(GdtEntries) THEN i + 1 ELSE 0
  /\ UNCHANGED <<j, gdtLoaded, codeSelector, dataSelector, cs, ds, idtVars, pagingVars,
                 testVars>>

gdt_select ==
  /\ Go("select", "lgdt")
  /\ codeSelector' = compile_selector(make_selector(3, FALSE, 0))
  /\ dataSelector' = compile_selector(make_selector(4, FALSE, 0))
  /\ UNCHANGED <<i, j, seg, gdtLoaded, cs, ds, idtVars, pagingVars, testVars>>

lgdt ==
  /\ Go("lgdt", "load_ds")
  /\ gdtLoaded' = TRUE
  /\ UNCHANGED <<i, j, seg, codeSelector, dataSelector, cs, ds, idtVars, pagingVars,
                 testVars>>

load_ds ==
  /\ Go("load_ds", "load_cs")
  /\ ds' = dataSelector
  /\ UNCHANGED <<i, j, seg, gdtLoaded, codeSelector, dataSelector, cs, idtVars, pagingVars,
                 testVars>>

\* The far return to continue_pm.
load_cs ==
  /\ Go("load_cs", "idt")
  /\ cs' = codeSelector
  /\ UNCHANGED <<i, j, seg, gdtLoaded, codeSelector, dataSelector, ds, idtVars, pagingVars,
                 testVars>>

-----------------------------------------------------------------------------
(* init_idt.                                                               *)

HandlerAddress(n) == HandlersBase + HandlerSize * n

\* Mutant: the gates begin at the second handler.
idt_entry_OffByOne ==
  /\ Go("idt", IF i + 1 < handlersCount THEN "idt" ELSE "pic")
  /\ custom_handlers' = [custom_handlers EXCEPT
                           ![i] = makeCustomHandler(HandlerAddress(i), i, StubAddress)]
  /\ idt_seg' = [idt_seg EXCEPT ![i] =
       idt_set(HandlerAddress(i + 1), compile_selector(make_selector(3, FALSE, 0)), 142)]
  /\ i' = IF i + 1 < handlersCount THEN i + 1 ELSE 0
  /\ UNCHANGED <<j, gdtVars, idtLoaded, interruptsOn, pic, pagingVars, testVars>>

\* One turn of the loop.
idt_entry ==
  /\ Go("idt", IF i + 1 < handlersCount THEN "idt" ELSE "pic")
  /\ custom_handlers' = [custom_handlers EXCEPT
                           ![i] = makeCustomHandler(HandlerAddress(i), i, StubAddress)]
  /\ idt_seg' = [idt_seg EXCEPT ![i] =
       idt_set(HandlerAddress(i), compile_selector(make_selector(3, FALSE, 0)), 142)]
  /\ i' = IF i + 1 < handlersCount THEN i + 1 ELSE 0
  /\ UNCHANGED <<j, gdtVars, idtLoaded, interruptsOn, pic, pagingVars, testVars>>

\* A controller's answer to a write: the first initialisation word, at the command
\* port, makes the next three data writes initialisation words as well.
Written(c, port, value) ==
  IF port = "command" THEN [c EXCEPT !.stage = 2]
  ELSE CASE c.stage = 2 -> [c EXCEPT !.stage = 3, !.offset = value]
         [] c.stage = 3 -> [c EXCEPT !.stage = 4]
         [] c.stage = 4 -> [c EXCEPT !.stage = 0]
         [] OTHER       -> [c EXCEPT !.mask = value]

\* A sequence of writes [unit, port, value].
OutPorts(p, writes) ==
  LET after[k \in 0 .. Len(writes)] ==
        IF k = 0 THEN p
        ELSE [after[k - 1] EXCEPT
                ![writes[k].unit] = Written(@, writes[k].port, writes[k].value)]
  IN after[Len(writes)]

Out(unit, port, value) == [unit |-> unit, port |-> port, value |-> value]

PIC_remap(offset1, offset2) ==
  LET a1 == pic.master.mask
      a2 == pic.slave.mask
  IN OutPorts(pic,
       << Out("master", "command", 17), Out("slave", "command", 17),
          Out("master", "data", offset1), Out("slave", "data", offset2),
          Out("master", "data", 4), Out("slave", "data", 2),
          Out("master", "data", 1), Out("slave", "data", 1),
          Out("master", "data", 255), Out("master", "data", a1),
          Out("slave", "data", a2) >>)

pic_remap ==
  /\ Go("pic", "lidt")
  /\ pic' = PIC_remap(32, 40)
  /\ UNCHANGED <<i, j, gdtVars, idt_seg, custom_handlers, idtLoaded, interruptsOn,
                 pagingVars, testVars>>

\* idt_flush, in two steps.
lidt ==
  /\ Go("lidt", "sti")
  /\ idtLoaded' = TRUE
  /\ UNCHANGED <<i, j, gdtVars, idt_seg, custom_handlers, interruptsOn, pic, pagingVars,
                 testVars>>

sti ==
  /\ Go("sti", "catalog")
  /\ interruptsOn' = TRUE
  /\ UNCHANGED <<i, j, gdtVars, idt_seg, custom_handlers, idtLoaded, pic, pagingVars,
                 testVars>>

-----------------------------------------------------------------------------
(* init_directory.                                                         *)

catalog_entry ==
  /\ Go("catalog", "table")
  /\ catalog' = [catalog EXCEPT ![i] = encode_page_table_entry(KernelEntry(TableAddress(i)))]
  /\ j' = 0
  /\ UNCHANGED <<i, gdtVars, idtVars, tables, paging, testVars>>

\* Mutant: every table maps the first pages.
table_entry_FirstTable ==
  /\ Go("table", IF j + 1 < TableSize THEN "table"
                 ELSE IF i + 1 < TableSize THEN "catalog" ELSE "paging")
  /\ tables' = [tables EXCEPT ![i][j] = encode_page_table_entry(KernelEntry(j * PageSize))]
  /\ j' = IF j + 1 < TableSize THEN j + 1 ELSE 0
  /\ i' = IF j + 1 < TableSize THEN i ELSE IF i + 1 < TableSize THEN i + 1 ELSE 0
  /\ UNCHANGED <<gdtVars, idtVars, catalog, paging, testVars>>

\* Mutant: j <= 1024, which runs past the table.
table_entry_TooFar ==
  /\ Go("table", IF j < TableSize THEN "table"
                 ELSE IF i + 1 < TableSize THEN "catalog" ELSE "paging")
  /\ tables' = [tables EXCEPT ![i][j] =
       encode_page_table_entry(KernelEntry((i * TableSize + j) * PageSize))]
  /\ j' = IF j < TableSize THEN j + 1 ELSE 0
  /\ i' = IF j < TableSize THEN i ELSE IF i + 1 < TableSize THEN i + 1 ELSE 0
  /\ UNCHANGED <<gdtVars, idtVars, catalog, paging, testVars>>

\* One turn of the inner loop. With 1024 entries the int (i * 1024 + j) * 4096
\* overflows into the sign, and is the right uint.
table_entry ==
  /\ Go("table", IF j + 1 < TableSize THEN "table"
                 ELSE IF i + 1 < TableSize THEN "catalog" ELSE "paging")
  /\ tables' = [tables EXCEPT ![i][j] =
       encode_page_table_entry(KernelEntry((i * TableSize + j) * PageSize))]
  /\ j' = IF j + 1 < TableSize THEN j + 1 ELSE 0
  /\ i' = IF j + 1 < TableSize THEN i ELSE IF i + 1 < TableSize THEN i + 1 ELSE 0
  /\ UNCHANGED <<gdtVars, idtVars, catalog, paging, testVars>>

enable_paging ==
  /\ Go("paging", "map")
  /\ paging' = TRUE
  /\ UNCHANGED <<i, j, gdtVars, idtVars, catalog, tables, testVars>>

-----------------------------------------------------------------------------
(* The rest of kernel_main.                                                *)

\* A number, the base it is shown in, and its text.
Number(n, base, text) == [n |-> n, base |-> base, text |-> text]

\* printMultibootInfo, entry by entry.
print_map ==
  /\ pc = "map"
  /\ IF i < Len(mmap)
     THEN /\ i' = i + 1
          /\ printed' = {Number(mmap[i + 1].addr, 16, ultox(mmap[i + 1].addr, 20)),
                         Number(mmap[i + 1].len, 16, ultox(mmap[i + 1].len, 20)),
                         Number(mmap[i + 1].type, 16, utox(mmap[i + 1].type, 20))}
          /\ UNCHANGED pc
     ELSE i' = 0 /\ pc' = "t_page" /\ printed' = {}
  /\ UNCHANGED <<j, gdtVars, idtVars, pagingVars, testVars, mmap>>

\* The frame an access to an address goes to.
Frame(address) == Walk(catalog, tables, address \div PageSize).physicalAddress \div PageSize

t_page ==
  /\ Go("t_page", "t_copy")
  /\ newPage' = get_free_page_address(mmap)
  /\ UNCHANGED <<i, j, gdtVars, idtVars, pagingVars, current, mem, y>>

\* memcpy of x's page to the new one, which is page 0 if none was found.
t_copy ==
  /\ Go("t_copy", "t_write")
  /\ mem' = [mem EXCEPT ![Frame(newPage)] = mem[Frame(XPage * PageSize)]]
  /\ UNCHANGED <<i, j, gdtVars, idtVars, pagingVars, current, newPage, y>>

t_write ==
  /\ Go("t_write", "t_first")
  /\ mem' = [mem EXCEPT ![Frame(newPage)] = 5]
  /\ UNCHANGED <<i, j, gdtVars, idtVars, pagingVars, current, newPage, y>>

\* test, and its result printed.
Test(from, to) ==
  LET result == IF mem[Frame(XPage * PageSize)] = 10 THEN 1 ELSE 0 IN
  /\ pc = from /\ pc' = to
  /\ y' = Append(y, result)
  /\ printed' = {Number(result, 10, itoa(result, 20))}
  /\ UNCHANGED <<i, j, gdtVars, idtVars, pagingVars, current, newPage, mem, mmap>>

t_first == Test("t_first", "t_remap")

\* 1204 for 1024: an index past the table runs into the next.
TestModulus == TableSize + 180

\* The entry changed is current_directory's, which nothing has filled or loaded.
t_remap ==
  LET p    == (XPage \div TableSize) * TableSize + (XPage % TestModulus)
      info == decode_page_table_entry(current[p])
  IN /\ Go("t_remap", "t_second")
     /\ current' = [current EXCEPT ![p] =
          encode_page_table_entry([info EXCEPT !.physicalAddress = newPage])]
     /\ UNCHANGED <<i, j, gdtVars, idtVars, pagingVars, newPage, mem, y>>

t_second == Test("t_second", "halt")

-----------------------------------------------------------------------------
(* An interrupt, from the vector to the iret.                              *)

\* The exceptions for which the processor pushes an error code of its own.
PushesErrorCode(n) == n \in {8, 10, 11, 12, 13, 14, 17}

\* What is interrupted, but for its segments: any three different words.
Eip == 1001
Eflags == 1002
Registers == 1003
ErrorCode == 1004

\* The index of the handler that a vector's gate leads to.
HandlerOf(n) == (GateBase(idt_seg[n]) - HandlersBase) \div HandlerSize

\* The stack, its top first, when irq_common_stub calls irq_handler: ds and the
\* registers that it has pushed, the handler's two words, the processor's part.
FrameOf(n) ==
  <<ds, Registers>> \o Reverse(custom_handlers[HandlerOf(n)].pushes)
  \o (IF PushesErrorCode(n) THEN <<ErrorCode>> ELSE <<>>) \o <<Eip, cs, Eflags>>

\* registers_t: what irq_handler takes for the number, and what the stub's pops, its
\* addition to esp and the iret then put into the registers.
Resumed(frame) ==
  [ds |-> frame[1], registers |-> frame[2], int_no |-> frame[3],
   eip |-> frame[5], cs |-> frame[6], eflags |-> frame[7]]

\* Where the handler's jump ends.
JumpTarget(n) ==
  LET k == HandlerOf(n)
  IN HandlerAddress(k) + NopOffset + custom_handlers[k].opJmpArg

\* irq_handler's output; timer and display are Scheduler's and Display's.
Printed(n, x) ==
  CASE n = 32 -> {}
    [] n = 33 -> IF x # 65 /\ x < 128
                 THEN {Number(n, 10, itoa(n, 12)), Number(x, 10, utoa(x, 12))} ELSE {}
    [] OTHER  -> {Number(n, 10, itoa(n, 12))}

\* The end of the interrupt at the two controllers has no effect on the model.
irq_handler(n, x) ==
  /\ interruptsOn /\ ~PushesErrorCode(n)
  /\ printed' = Printed(Resumed(FrameOf(n)).int_no, x)
  /\ UNCHANGED <<pc, i, j, gdtVars, idtVars, pagingVars, testVars, mmap>>

-----------------------------------------------------------------------------
init_gdt == gdt_entry \/ gdt_select \/ lgdt \/ load_ds \/ load_cs
init_idt == idt_entry \/ pic_remap \/ lidt \/ sti
init_directory == catalog_entry \/ table_entry \/ enable_paging
test_paging == t_page \/ t_copy \/ t_write \/ t_first \/ t_remap \/ t_second

Next ==
  \/ init_gdt \/ init_idt \/ init_directory \/ print_map \/ test_paging
  \/ \E n \in Vectors, x \in ScanCodes : irq_handler(n, x)

Spec == Init /\ [][Next]_vars

-----------------------------------------------------------------------------
(* Properties.                                                             *)

Descriptor == [0 .. 7 -> 0 .. 255]

\* Every variable keeps to its type; the loop counters stay inside the tables and
\* the memory map that they index.
TypeOK ==
  /\ pc \in Labels /\ i \in Nat /\ j \in Entries
  /\ pc = "gdt" => i < Len(GdtEntries)
  /\ pc = "idt" => i \in Vectors
  /\ pc \in {"catalog", "table"} => i \in Entries
  /\ pc = "map" => i <= Len(mmap)
  /\ seg \in [Slots -> Descriptor] /\ gdtLoaded \in BOOLEAN
  /\ {codeSelector, dataSelector, cs, ds} \subseteq Int
  /\ DOMAIN idt_seg = Vectors /\ DOMAIN custom_handlers = Vectors
  /\ idtLoaded \in BOOLEAN /\ interruptsOn \in BOOLEAN
  /\ pic.master.stage \in {0, 2, 3, 4} /\ pic.slave.stage \in {0, 2, 3, 4}
  /\ catalog \in [Entries -> Nat] /\ tables \in [Entries -> [Entries -> Nat]]
  /\ current \in [Pages -> Nat] /\ paging \in BOOLEAN
  /\ newPage \in Nat /\ mem \in [Pages -> {0, 5, 10}] /\ Len(y) <= 2

\* A selector picks a flat segment that the kernel's privilege level may use.
Picks(selector, kind(_)) ==
  /\ SelectorIndex(selector) \in Slots \ {0}
  /\ Flat(seg[SelectorIndex(selector)]) /\ kind(seg[SelectorIndex(selector)])

KernelCode(s) == Executable(s) /\ Privilege(s) = 0
Data(s) == ~Executable(s)

\* The vector of an interrupt line.
VectorOf(line) ==
  IF line < 8 THEN pic.master.offset + line ELSE pic.slave.offset + (line - 8)

\* From the instruction that turns interrupts on: the tables are loaded, and every
\* vector without an error code finds a gate to flat kernel code, whose handler
\* leads to the stub with that vector's number where irq_handler looks for it; the
\* stub's own selector 0x10 is flat data; what was interrupted goes on as it was;
\* and no line of the controllers shares a vector with an exception.
InterruptsReturn ==
  interruptsOn =>
    /\ gdtLoaded /\ idtLoaded /\ Picks(cs, KernelCode) /\ Picks(ds, Data) /\ Picks(16, Data)
    /\ \A n \in Vectors : ~PushesErrorCode(n) =>
         /\ GateReady(idt_seg[n]) /\ Picks(idt_seg[n].sel, KernelCode)
         /\ GateBase(idt_seg[n]) = HandlerAddress(n) /\ JumpTarget(n) = StubAddress
         /\ Resumed(FrameOf(n)) = [ds |-> ds, registers |-> Registers, int_no |-> n,
                                   eip |-> Eip, cs |-> cs, eflags |-> Eflags]
    /\ \A line \in 0 .. 15 : VectorOf(line) \in 32 .. handlersCount - 1

\* Once paging is on, every page is present, writable and its own frame, also after
\* test_paging has changed an entry: the kernel's addresses stay what they were. So
\* the test finds x unchanged both times, and its second output says nothing.
IdentityMapped ==
  /\ paging => \A page \in Pages :
       /\ Reaches(catalog, tables, page)
       /\ Walk(catalog, tables, page).isWriteable
       /\ Walk(catalog, tables, page).physicalAddress = page * PageSize
  /\ \A k \in 1 .. Len(y) : y[k] = 1

\* The page test_paging copies x's page into and writes to is never the kernel's,
\* whatever the memory map: it is page 0, when none was found, or a whole page above
\* LowMemory beside the image. It is free memory if the map is roomy. If not, it
\* may be page 0, or lie where the map offers nothing; so it does with a region from
\* 1 MB to 3 GB, which an int takes to end below 0.
FreePageIsFree ==
  pc \in {"t_copy", "t_write", "t_first", "t_remap", "t_second", "halt"} =>
    /\ newPage = 0 \/ OffImage(newPage)
    /\ Roomy(mmap) => PageFree(mmap, newPage)

\* The conversions on their own: what fits into the buffer reads back; of what does
\* not, a decimal loses its leading digits and a hexadecimal its last ones.
SamplesReadBack ==
  \A n \in Samples :
    /\ Decimal(itoa(n, 12).text) = n /\ itoa(n, 12).from = 0
    /\ n >= 0 =>
         /\ Decimal(utoa(n, 12).text) = n
         /\ Decimal(itoa(n, 4).text) = n % 1000
         /\ HexValue(utox(n, 9).text) = n /\ HexValue(utox(n, 6).text) = n \div 256
         /\ HexValue(ultox(n, 17).text) = n

\* Every number the kernel prints can be read back from its text, and the
\* conversions stay inside their buffers; but for utoa, which writes all its digits
\* in front of its buffer. So can other numbers, of either sign.
PrintedAsMeant ==
  /\ SamplesReadBack
  /\ \A p \in printed :
       /\ p.n = IF p.base = 10 THEN Decimal(p.text.text) ELSE HexValue(p.text.text)
       /\ p.text.from = 0 \/ p.text = utoa(p.n, 12)
=============================================================================
