----------------------------- MODULE PageTables -----------------------------
(***************************************************************************)
(* tables.c: page-table entries and their encoding, and, for reference,    *)
(* how the memory management unit walks a page_directory.                  *)
(***************************************************************************)
EXTENDS Integers

CONSTANTS
  TableSize,         \* entries of a page_table: 1024 in the code
  KernelDirectory    \* the address of kernel_directory

PageSize == 4096   \* the size of a page, and of a page_table

ASSUME TableSizeAssumption == TableSize \in Nat \ {0}
ASSUME KernelDirectoryAssumption ==
  KernelDirectory \in Nat /\ KernelDirectory % PageSize = 0

Entries == 0 .. TableSize - 1
Pages   == 0 .. TableSize * TableSize - 1

\* &kernel_directory.tables[k]: the tables follow the catalog.
TableAddress(k) == KernelDirectory + PageSize * (k + 1)

\* A flag at the bit of some weight.
Bit(flag, weight) == IF flag THEN weight ELSE 0

\* The twelve low bits are flags, the others the address, whose low bits are cut off.
encode_page_table_entry(info) ==
  Bit(info.isPresented, 1) + Bit(info.isWriteable, 2) + Bit(info.isUserAccessible, 4)
  + Bit(info.isCacheWriteThough, 8) + Bit(info.isCashingDisabled, 16)
  + Bit(info.wasAccessed, 32) + Bit(info.wasWritten, 64) + Bit(info.isExpanded, 128)
  + Bit(info.isGlobal, 256) + 512 * (info.customBits % 8)
  + (info.physicalAddress - (info.physicalAddress % 4096))

HasBit(e, weight) == (e \div weight) % 2 = 1

decode_page_table_entry(e) ==
  [isPresented |-> HasBit(e, 1), isWriteable |-> HasBit(e, 2),
   isUserAccessible |-> HasBit(e, 4), isCacheWriteThough |-> HasBit(e, 8),
   isCashingDisabled |-> HasBit(e, 16), wasAccessed |-> HasBit(e, 32),
   wasWritten |-> HasBit(e, 64), isExpanded |-> HasBit(e, 128), isGlobal |-> HasBit(e, 256),
   customBits |-> (e \div 512) % 8, physicalAddress |-> e - (e % 4096)]

\* The entry of init_directory, for a page or a table at an address.
KernelEntry(address) ==
  [isPresented |-> TRUE, isWriteable |-> TRUE, isUserAccessible |-> FALSE,
   isCacheWriteThough |-> TRUE, isCashingDisabled |-> FALSE, wasAccessed |-> FALSE,
   wasWritten |-> FALSE, isExpanded |-> FALSE, isGlobal |-> FALSE, customBits |-> 0,
   physicalAddress |-> address]

\* The entry the processor finds for a page when it walks the catalog in cr3, whose
\* tables lie where kernel_directory's do.
Walk(catalog, tables, page) ==
  LET table == decode_page_table_entry(catalog[page \div TableSize])
      k     == (table.physicalAddress - TableAddress(0)) \div PageSize
  IN decode_page_table_entry(tables[k][page % TableSize])

\* The processor can walk to a page's entry, and both entries are present.
Reaches(catalog, tables, page) ==
  LET table == decode_page_table_entry(catalog[page \div TableSize])
  IN /\ table.isPresented
     /\ \E k \in Entries : table.physicalAddress = TableAddress(k)
     /\ Walk(catalog, tables, page).isPresented
=============================================================================
