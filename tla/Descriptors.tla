---------------------------- MODULE Descriptors ----------------------------
(***************************************************************************)
(* The codecs of gdt.c and idt.c: segment descriptors, selectors, the      *)
(* gates of the interrupt table and the few bytes of machine code each     *)
(* gate points at; and, for reference, how the processor reads them.       *)
(* Shifts of an int are floor divisions, and masks are remainders.         *)
(***************************************************************************)
EXTENDS Integers

\* The field of n that begins at the bit of weight unit and has size values.
Field(n, unit, size) == (n \div unit) % size

-----------------------------------------------------------------------------
(* Segment descriptors. limit is an int, so that -1 is 0xFFFFFFFF.         *)

compileDescriptor(base, limit, access, gran) ==
  [base_low |-> Field(base, 1, 65536), base_middle |-> Field(base, 65536, 256),
   base_high |-> Field(base, 16777216, 256), limit_low |-> Field(limit, 1, 65536),
   granularity |-> Field(limit, 65536, 16) + 16 * Field(gran, 16, 16), access |-> access]

\* raw_descriptor_t: bytes 0 to 7.
makeDescriptor(info) ==
  [k \in 0 .. 7 |->
     CASE k = 0 -> Field(info.limit_low, 1, 256)
       [] k = 1 -> Field(info.limit_low, 256, 256)
       [] k = 2 -> Field(info.base_low, 1, 256)
       [] k = 3 -> Field(info.base_low, 256, 256)
       [] k = 4 -> info.base_middle
       [] k = 5 -> info.access
       [] k = 6 -> info.granularity
       [] k = 7 -> info.base_high]

\* parseDescriptor shifts bytes 1 and 3 up and then masks them away, and drops the
\* low half of byte 6; nothing calls it.
parseDescriptor(s) ==
  [base_high |-> s[7], granularity |-> s[6] - (s[6] % 16), access |-> s[5],
   base_middle |-> s[4], base_low |-> s[2], limit_low |-> s[0]]

\* The processor: where a segment begins, its limit, its access byte and its flags.
SegmentBase(s)  == s[2] + 256 * s[3] + 65536 * s[4] + 16777216 * s[7]
SegmentLimit(s) == s[0] + 256 * s[1] + 65536 * (s[6] % 16)
SegmentFlags(s) == s[6] \div 16

\* A present segment over all of memory: 4 KB units, 32 bits.
Flat(s) ==
  /\ SegmentBase(s) = 0 /\ SegmentLimit(s) = 1048575 /\ SegmentFlags(s) = 12
  /\ Field(s[5], 128, 2) = 1

Executable(s) == Field(s[5], 8, 2) = 1
Privilege(s)  == Field(s[5], 32, 4)

-----------------------------------------------------------------------------
(* Selectors.                                                              *)

make_selector(index, useLdt, rplLevel) ==
  [index |-> index, useLdt |-> useLdt, rplLevel |-> rplLevel]

\* Bit 2 is masked with 0x0040, bit 6, so useLdt leaves no trace.
compile_selector(info) == Field(info.index, 1, 8192) * 8 + (info.rplLevel % 4)

\* Read back, useLdt is bit 3 of the index.
parse_selector(s) ==
  [index |-> Field(s, 8, 8192), useLdt |-> Field(s, 64, 2) = 1, rplLevel |-> s % 4]

\* The processor's reading of the index.
SelectorIndex(s) == s \div 8

-----------------------------------------------------------------------------
(* Gates, and the handlers they point at.                                  *)

\* The byte of a raw_custom_handler_instance_t at which opNop begins.
NopOffset   == 10
HandlerSize == 16

\* cli; push 0; push n; jmp stub. Instance n lies at address h.
makeCustomHandler(h, n, stub) ==
  [pushes |-> <<0, n>>, opJmpArg |-> stub - (h + NopOffset)]

idt_set(base, sel, flags) ==
  [base_1 |-> Field(base, 1, 65536), base_2 |-> Field(base, 65536, 65536), sel |-> sel,
   always0 |-> 0, flags |-> flags]

\* The processor: the gate's address, and whether it is a present interrupt gate.
GateBase(gate) == gate.base_1 + 65536 * gate.base_2
GateReady(gate) == gate.always0 = 0 /\ Field(gate.flags, 128, 2) = 1 /\ gate.flags % 16 = 14
=============================================================================
