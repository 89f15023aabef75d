----------------------------- MODULE MemoryMap -----------------------------
(***************************************************************************)
(* main.c: the search of the boot loader's memory map for a free page. A   *)
(* map is a sequence of entries [addr, len, type], of 64, 64 and 32 bits;  *)
(* type 1 is available. The search computes in int.                        *)
(***************************************************************************)
EXTENDS Integers, Sequences

CONSTANTS
  LowMemory,       \* where the search begins: 1024 * 1024 in the code
  KernelStart,     \* &_multiboot_header
  KernelEnd,       \* &_end
  IntLimit         \* the least number an int does not hold: 2^31 in the code

PageLength == 4096   \* s in the code

\* The kernel is linked at 1 MB.
ASSUME KernelAssumption ==
  /\ LowMemory \in Nat /\ KernelStart \in Nat /\ KernelEnd \in Nat
  /\ LowMemory <= KernelStart /\ KernelStart < KernelEnd

ASSUME IntLimitAssumption ==
  IntLimit \in Nat /\ IntLimit % PageLength = 0 /\ KernelEnd + PageLength <= IntLimit

\* A number stored into an int, which keeps its low bits; and the result of int
\* arithmetic, which wraps, as nothing is optimised.
ToInt(n) == ((n + IntLimit) % (2 * IntLimit)) - IntLimit

\* C's remainder, which has the sign of the first operand.
Remainder(a, b) == IF a < 0 THEN -((-a) % b) ELSE a % b

\* The next multiple of an int; a whole multiple too far when size is 0.
align_to(size, alignment) ==
  ToInt(size + (alignment - Remainder(ToInt(size - 1), alignment)) - 1)

\* Whether the search considers an entry.
Considered(entry) == entry.type = 1 /\ align_to(ToInt(entry.addr), PageLength) >= LowMemory

\* The page an entry of the map has to offer, 0 if none. The test before the image
\* does not ask whether the entry is a page long, the test behind it not whether
\* the entry begins before the image's end; and an entry that reaches beyond what an
\* int holds ends, or even begins, somewhere else.
PageOf(entry) ==
  LET a_rn == align_to(ToInt(entry.addr), PageLength)
      b_rn == ToInt(entry.addr + entry.len)
      b_m  == align_to(KernelEnd, PageLength)
  IN IF Considered(entry)
     THEN IF ToInt(KernelStart - a_rn) > PageLength THEN a_rn
          ELSE IF ToInt(b_rn - b_m) > PageLength THEN b_m ELSE 0
     ELSE 0

\* Mutant: the kernel's own image counts as free.
get_free_page_address_Image(map) ==
  LET offering == {k \in 1 .. Len(map) : Considered(map[k])}
  IN IF offering = {} THEN 0
     ELSE align_to(ToInt(map[CHOOSE k \in offering : \A j \in offering : k <= j].addr), PageLength)

\* The first entry with a page decides; 0 if there is none, which nobody tests.
get_free_page_address(map) ==
  LET offering == {k \in 1 .. Len(map) : PageOf(map[k]) # 0}
  IN IF offering = {} THEN 0
     ELSE PageOf(map[CHOOSE k \in offering : \A j \in offering : k <= j])

-----------------------------------------------------------------------------
\* A whole page above LowMemory, and not the kernel's.
OffImage(p) ==
  p % PageLength = 0 /\ p >= LowMemory /\ (p + PageLength <= KernelStart \/ KernelEnd <= p)

\* And in memory that the map says is available.
PageFree(map, p) ==
  /\ OffImage(p)
  /\ \E k \in 1 .. Len(map) :
        map[k].type = 1 /\ map[k].addr <= p /\ p + PageLength <= map[k].addr + map[k].len

\* The first entry that the search considers holds the kernel, ends where an int
\* still reaches, and has more than a page to spare before the kernel or behind it.
Roomy(map) ==
  \E k \in 1 .. Len(map) :
    LET begin == map[k].addr
        end   == map[k].addr + map[k].len
    IN /\ Considered(map[k]) /\ \A j \in 1 .. k - 1 : ~Considered(map[j])
       /\ begin <= KernelStart /\ KernelEnd <= end /\ end < IntLimit
       /\ \/ KernelStart - align_to(begin, PageLength) > PageLength
          \/ end - align_to(KernelEnd, PageLength) > PageLength
=============================================================================
