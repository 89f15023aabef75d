---------------------------- MODULE MCKernelBoot ----------------------------
(***************************************************************************)
(* KernelBoot with tables of five entries, a kernel image from page 4 to   *)
(* the middle of page 11, with its page directory in pages 5 to 10, an int *)
(* that holds the addresses of 17 pages, and a memory map of each kind     *)
(* that the search tells apart.                                            *)
(***************************************************************************)
EXTENDS KernelBoot

Entry(addr, len, type) == [addr |-> addr, len |-> len, type |-> type]

\* The kernel's entry begins with the kernel; room before it; room in neither place;
\* low memory, a reserved entry and an unaligned start; an entry that ends before
\* the image; an entry behind the image only; no map. Then what an int cannot hold:
\* an end that is negative (1 MB to 3 GB); an end so far that the difference is
\* positive again; an entry beyond twice the limit (4 GB), which seems to begin
\* before the image; and one whose begin is rounded up to the limit.
Maps ==
  { << Entry(16384, 10 * 4096, 1) >>,
    << Entry(8192, 10 * 4096, 1) >>,
    << Entry(12288, 9 * 4096 + 50, 1) >>,
    << Entry(0, 4096, 1), Entry(4096, 4096, 2), Entry(8200, 11 * 4096, 1) >>,
    << Entry(8192, 100, 1) >>,
    << Entry(8192, 100, 2), Entry(13 * 4096, 3 * 4096, 1) >>,
    << >>,
    << Entry(16384, 26 * 4096, 1) >>,
    << Entry(16384, 16 * 4096, 1) >>,
    << Entry(36 * 4096, 4096, 1), Entry(16384, 10 * 4096, 1) >>,
    << Entry(17 * 4096 - 10, 4096, 1), Entry(16384, 10 * 4096, 1) >> }

\* Around every change of the number of digits, in either base.
Numbers == {-2147483647, -100, -99, -10, -9, 0, 9, 10, 15, 16, 99, 100, 255, 256, 999, 1000, 4095,
            4096, 65535, 65536, 999999, 1000000, 2147483647}

\* What gdt.c and idt.c encode, decoded again.
ASSUME CodecsRoundTrip ==
  /\ \A k \in 0 .. 40, rpl \in 0 .. 3 :
       parse_selector(compile_selector(make_selector(k, FALSE, rpl))).rplLevel = rpl
  /\ \A base \in {0, 255, 256, 65536, 74565}, limit \in {0, -1, 4096} :
       SegmentBase(makeDescriptor(compileDescriptor(base, limit, 154, 207))) = base
=============================================================================
