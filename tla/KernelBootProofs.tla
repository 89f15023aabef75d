-------------------------- MODULE KernelBootProofs --------------------------
(***************************************************************************)
(* Theorems about KernelBoot, for tables of any size, any memory map and   *)
(* any place of the kernel.                                                *)
(***************************************************************************)
EXTENDS KernelBoot, TLAPS, WellFoundedInduction

(***************************************************************************)
(* Arithmetic.                                                             *)
(***************************************************************************)

\* An int keeps the numbers in its range, and wraps just beyond it.
LEMMA ToIntKeeps ==
  /\ \A n \in Int : -IntLimit <= n /\ n < IntLimit => ToInt(n) = n
  /\ ToInt(IntLimit) = -IntLimit /\ ToInt(-IntLimit - 1) = IntLimit - 1
  /\ \A n \in Int : ToInt(n) \in Int /\ -IntLimit <= ToInt(n) /\ ToInt(n) < IntLimit
<1> DEFINE M == 2 * IntLimit
<1>1. IntLimit \in Nat /\ M \in Nat /\ 0 < M /\ 0 < IntLimit
  BY IntLimitAssumption, KernelAssumption DEF PageLength
<1>2. \A n \in Int : n % M \in 0 .. M - 1
  <2> HIDE DEF M
  <2> QED BY <1>1
<1>3. \A n \in 0 .. M - 1 : n % M = n
  <2> HIDE DEF M
  <2> QED BY <1>1
<1>4. M % M = 0 /\ (-1) % M = M - 1
  <2> HIDE DEF M
  <2> QED BY <1>1
<1>5. ASSUME NEW n \in Int, -IntLimit <= n, n < IntLimit PROVE ToInt(n) = n
  BY <1>1, <1>3, <1>5 DEF ToInt
<1>6. ToInt(IntLimit) = -IntLimit /\ ToInt(-IntLimit - 1) = IntLimit - 1
  BY <1>1, <1>4 DEF ToInt
<1>7. ASSUME NEW n \in Int PROVE ToInt(n) \in Int /\ -IntLimit <= ToInt(n) /\ ToInt(n) < IntLimit
  BY <1>1, <1>2 DEF ToInt
<1> QED
  BY <1>5, <1>6, <1>7

\* Rounding without the width of an int.
Rounded(size) == size + (PageLength - Remainder(size - 1, PageLength)) - 1

LEMMA RoundedUp ==
  ASSUME NEW size \in Nat
  PROVE  LET a == Rounded(size)
         IN /\ a \in Nat /\ a % PageLength = 0 /\ size <= a /\ a > 0
            /\ a <= size + PageLength /\ (size > 0 => a < size + PageLength)
            /\ \A b \in Nat : b % PageLength = 0 /\ size <= b /\ b > 0 => a <= b
BY DEF Rounded, Remainder, PageLength

\* align_to finds the smallest multiple that is not below a positive size, and
\* goes one page too far for size 0, as long as an int has room for it.
LEMMA AlignTo ==
  ASSUME NEW size \in Nat, size + PageLength <= IntLimit
  PROVE  LET a == align_to(size, PageLength)
         IN /\ a \in Nat /\ a % PageLength = 0 /\ size <= a /\ a > 0
            /\ size > 0 => a < size + PageLength
            /\ \A b \in Nat : b % PageLength = 0 /\ size <= b /\ b > 0 => a <= b
<1> DEFINE a == Rounded(size)
<1>1. IntLimit \in Nat /\ IntLimit > PageLength /\ PageLength \in Nat /\ PageLength > 1
  BY IntLimitAssumption, KernelAssumption DEF PageLength
<1>2. ToInt(size - 1) = size - 1
  <2> DEFINE m == size - 1
  <2>1. m \in Int /\ -IntLimit <= m /\ m < IntLimit
    BY <1>1
  <2> HIDE DEF m
  <2>2. ToInt(m) = m
    BY <2>1, ToIntKeeps
  <2> QED
    BY <2>2 DEF m
<1>3. align_to(size, PageLength) = ToInt(a)
  BY <1>2 DEF align_to, Rounded
<1>4. /\ a \in Nat /\ a % PageLength = 0 /\ size <= a /\ a > 0
      /\ a <= size + PageLength /\ (size > 0 => a < size + PageLength)
      /\ \A b \in Nat : b % PageLength = 0 /\ size <= b /\ b > 0 => a <= b
  BY RoundedUp
<1> HIDE DEF a
<1>5. a < IntLimit
  BY <1>1, <1>4, IntLimitAssumption DEF PageLength
<1>6. ToInt(a) = a
  BY <1>1, <1>4, <1>5, ToIntKeeps
<1> QED
  BY <1>3, <1>4, <1>6

\* What is rounded, and not negative, is a whole page that an int reaches.
LEMMA AlignInt ==
  ASSUME NEW size \in Int, -IntLimit <= size, size < IntLimit
  PROVE  LET a == align_to(size, PageLength)
         IN a \in Int /\ a < IntLimit /\ (a >= 0 => a % PageLength = 0)
<1> DEFINE m == size - 1
           r == Remainder(ToInt(m), PageLength)
           a == size + (PageLength - r) - 1
<1>1. IntLimit \in Nat /\ IntLimit % 4096 = 0 /\ IntLimit > 4096
  BY IntLimitAssumption, KernelAssumption DEF PageLength
<1>2. align_to(size, PageLength) = ToInt(a)
  BY DEF align_to
<1>3. ToInt(m) = m \/ (size = -IntLimit /\ ToInt(m) = IntLimit - 1)
  <2>1. CASE size = -IntLimit
    <3>1. m = -IntLimit - 1
      BY <2>1
    <3> QED
      BY <1>1, <2>1, <3>1, ToIntKeeps
  <2>2. CASE size # -IntLimit
    <3>1. m \in Int /\ -IntLimit <= m /\ m < IntLimit
      BY <1>1, <2>2
    <3> HIDE DEF m
    <3> QED
      BY <3>1, ToIntKeeps
  <2> QED
    BY <2>1, <2>2
<1>4. a \in Int /\ a % 4096 = 0 /\ -IntLimit <= a /\ a <= IntLimit
  <2>1. CASE ToInt(m) = m
    <3>1. a = Rounded(size)
      BY <2>1 DEF Rounded
    <3> HIDE DEF a, m
    <3>2. CASE size > 0
      BY <1>1, <3>1, <3>2 DEF Rounded, Remainder, PageLength
    <3>3. CASE size <= 0
      BY <1>1, <3>1, <3>3 DEF Rounded, Remainder, PageLength
    <3> QED
      BY <3>2, <3>3
  <2>2. CASE size = -IntLimit /\ ToInt(m) = IntLimit - 1
    <3>1. r = 4095
      BY <1>1, <2>2 DEF Remainder, PageLength
    <3> HIDE DEF r
    <3> QED
      BY <1>1, <2>2, <3>1 DEF PageLength
  <2> QED
    BY <1>3, <2>1, <2>2
<1> HIDE DEF a
<1>5. CASE a = IntLimit
  BY <1>1, <1>2, <1>5, ToIntKeeps
<1>6. CASE a # IntLimit
  <2>1. ToInt(a) = a
    BY <1>1, <1>4, <1>6, ToIntKeeps
  <2> QED
    BY <1>1, <1>2, <1>4, <1>6, <2>1 DEF PageLength
<1> QED
  BY <1>5, <1>6

\* A page number splits into the numbers of its table and of its entry.
LEMMA SplitPage ==
  ASSUME NEW p \in Pages
  PROVE  /\ p \div TableSize \in Entries /\ p % TableSize \in Entries
         /\ (p \div TableSize) * TableSize + (p % TableSize) = p
BY TableSizeAssumption DEF Pages, Entries

\* A set of natural numbers has a least.
LEMMA LeastNat ==
  ASSUME NEW S \in SUBSET Nat, S # {}
  PROVE  \E m \in S : \A n \in S : m <= n
<1> DEFINE Below == {ss \in Nat \X Nat : ss[1] < ss[2]}
<1>1. IsWellFoundedOn(Below, Nat)
  BY NatLessThanWellFounded DEF OpToRel
<1>2. PICK m \in S : \A n \in S : <<n, m>> \notin Below
  <2> HIDE DEF Below
  <2> QED BY <1>1, WFMin
<1>3. ASSUME NEW n \in S PROVE m <= n
  <2>1. n \in Nat /\ m \in Nat /\ <<n, m>> \notin Below
    BY <1>2
  <2> QED
    BY <2>1
<1> QED
  BY <1>3

(***************************************************************************)
(* The codecs.                                                             *)
(***************************************************************************)

\* Entries with three custom bits.
EntryInfo ==
  [isPresented : BOOLEAN, isWriteable : BOOLEAN, isUserAccessible : BOOLEAN,
   isCacheWriteThough : BOOLEAN, isCashingDisabled : BOOLEAN, wasAccessed : BOOLEAN,
   wasWritten : BOOLEAN, isExpanded : BOOLEAN, isGlobal : BOOLEAN, customBits : 0 .. 7,
   physicalAddress : Nat]

LEMMA KernelEntryDecoded ==
  ASSUME NEW address \in Nat, address % PageSize = 0
  PROVE  LET info == decode_page_table_entry(encode_page_table_entry(KernelEntry(address)))
         IN info.isPresented /\ info.isWriteable /\ info.physicalAddress = address
<1>1. encode_page_table_entry(KernelEntry(address)) = 11 + address
  BY DEF encode_page_table_entry, KernelEntry, Bit, PageSize
<1>2. /\ HasBit(11 + address, 1) /\ HasBit(11 + address, 2)
      /\ (11 + address) - ((11 + address) % 4096) = address
  BY DEF HasBit, PageSize
<1> QED
  BY <1>1, <1>2 DEF decode_page_table_entry

\* Decoding is the inverse of encoding, for an entry whose address is a multiple of
\* the page size and whose custom bits are three.
THEOREM EncodeDecode ==
  ASSUME NEW info \in EntryInfo, info.physicalAddress % PageSize = 0
  PROVE  decode_page_table_entry(encode_page_table_entry(info)) = info
<1> DEFINE e == encode_page_table_entry(info)
           b(flag) == IF flag THEN 1 ELSE 0
           q == info.physicalAddress \div 4096
           top == info.customBits + 8 * q
           b0 == b(info.isPresented)
           b1 == b(info.isWriteable)
           b2 == b(info.isUserAccessible)
           b3 == b(info.isCacheWriteThough)
           b4 == b(info.isCashingDisabled)
           b5 == b(info.wasAccessed)
           b6 == b(info.wasWritten)
           b7 == b(info.isExpanded)
           b8 == b(info.isGlobal)
<1>1. /\ q \in Nat /\ info.physicalAddress = 4096 * q /\ info.physicalAddress % 4096 = 0
      /\ info.customBits \in 0 .. 7 /\ info.customBits % 8 = info.customBits /\ top \in Nat
  BY DEF EntryInfo, PageSize
<1>2. /\ info.isPresented \in BOOLEAN
      /\ info.isWriteable \in BOOLEAN
      /\ info.isUserAccessible \in BOOLEAN
      /\ info.isCacheWriteThough \in BOOLEAN
      /\ info.isCashingDisabled \in BOOLEAN
      /\ info.wasAccessed \in BOOLEAN
      /\ info.wasWritten \in BOOLEAN
      /\ info.isExpanded \in BOOLEAN
      /\ info.isGlobal \in BOOLEAN
  BY DEF EntryInfo
<1>3. /\ b0 \in 0 .. 1 /\ (b0 = 1 <=> info.isPresented)
      /\ b1 \in 0 .. 1 /\ (b1 = 1 <=> info.isWriteable)
      /\ b2 \in 0 .. 1 /\ (b2 = 1 <=> info.isUserAccessible)
      /\ b3 \in 0 .. 1 /\ (b3 = 1 <=> info.isCacheWriteThough)
      /\ b4 \in 0 .. 1 /\ (b4 = 1 <=> info.isCashingDisabled)
      /\ b5 \in 0 .. 1 /\ (b5 = 1 <=> info.wasAccessed)
      /\ b6 \in 0 .. 1 /\ (b6 = 1 <=> info.wasWritten)
      /\ b7 \in 0 .. 1 /\ (b7 = 1 <=> info.isExpanded)
      /\ b8 \in 0 .. 1 /\ (b8 = 1 <=> info.isGlobal)
  <2>1. \A flag \in BOOLEAN : b(flag) \in 0 .. 1 /\ (b(flag) = 1 <=> flag)
    OBVIOUS
  <2> QED
    BY <1>2, <2>1
<1> HIDE DEF b, b0, b1, b2, b3, b4, b5, b6, b7, b8, top, q
<1>4. e = b0 + 2 * b1 + 4 * b2 + 8 * b3 + 16 * b4 + 32 * b5 + 64 * b6 + 128 * b7
          + 256 * b8 + 512 * top
  <2>1. info.physicalAddress - (info.physicalAddress % 4096) = 4096 * q
    BY <1>1
  <2>2. 512 * top = 512 * info.customBits + 4096 * q
    BY <1>1 DEF top
  <2>3. e = b0 + 2 * b1 + 4 * b2 + 8 * b3 + 16 * b4 + 32 * b5 + 64 * b6 + 128 * b7
            + 256 * b8 + 512 * info.customBits + 4096 * q
    BY <1>1, <2>1 DEF encode_page_table_entry, Bit, b, b0, b1, b2, b3, b4, b5, b6, b7, b8
  <2> HIDE DEF e
  <2> QED
    BY <1>1, <1>3, <2>2, <2>3
<1> HIDE DEF e
<1>5. HasBit(e, 1) = info.isPresented
  <2>1. e \div 1 = b0 + 2 * (b1 + 2 * b2 + 4 * b3 + 8 * b4 + 16 * b5 + 32 * b6 + 64 * b7
                             + 128 * b8 + 256 * top)
    BY <1>1, <1>3, <1>4
  <2> QED
    BY <1>1, <1>2, <1>3, <2>1 DEF HasBit
<1>6. HasBit(e, 2) = info.isWriteable
  <2>1. e \div 2 = b1 + 2 * (b2 + 2 * b3 + 4 * b4 + 8 * b5 + 16 * b6 + 32 * b7 + 64 * b8
                             + 128 * top)
    BY <1>1, <1>3, <1>4
  <2> QED
    BY <1>1, <1>2, <1>3, <2>1 DEF HasBit
<1>7. HasBit(e, 4) = info.isUserAccessible
  <2>1. e \div 4 = b2 + 2 * (b3 + 2 * b4 + 4 * b5 + 8 * b6 + 16 * b7 + 32 * b8 + 64 * top)
    BY <1>1, <1>3, <1>4
  <2> QED
    BY <1>1, <1>2, <1>3, <2>1 DEF HasBit
<1>8. HasBit(e, 8) = info.isCacheWriteThough
  <2>1. e \div 8 = b3 + 2 * (b4 + 2 * b5 + 4 * b6 + 8 * b7 + 16 * b8 + 32 * top)
    BY <1>1, <1>3, <1>4
  <2> QED
    BY <1>1, <1>2, <1>3, <2>1 DEF HasBit
<1>9. HasBit(e, 16) = info.isCashingDisabled
  <2>1. e \div 16 = b4 + 2 * (b5 + 2 * b6 + 4 * b7 + 8 * b8 + 16 * top)
    BY <1>1, <1>3, <1>4
  <2> QED
    BY <1>1, <1>2, <1>3, <2>1 DEF HasBit
<1>10. HasBit(e, 32) = info.wasAccessed
  <2>1. e \div 32 = b5 + 2 * (b6 + 2 * b7 + 4 * b8 + 8 * top)
    BY <1>1, <1>3, <1>4
  <2> QED
    BY <1>1, <1>2, <1>3, <2>1 DEF HasBit
<1>11. HasBit(e, 64) = info.wasWritten
  <2>1. e \div 64 = b6 + 2 * (b7 + 2 * b8 + 4 * top)
    BY <1>1, <1>3, <1>4
  <2> QED
    BY <1>1, <1>2, <1>3, <2>1 DEF HasBit
<1>12. HasBit(e, 128) = info.isExpanded
  <2>1. e \div 128 = b7 + 2 * (b8 + 2 * top)
    BY <1>1, <1>3, <1>4
  <2> QED
    BY <1>1, <1>2, <1>3, <2>1 DEF HasBit
<1>13. HasBit(e, 256) = info.isGlobal
  <2>1. e \div 256 = b8 + 2 * (top)
    BY <1>1, <1>3, <1>4
  <2> QED
    BY <1>1, <1>2, <1>3, <2>1 DEF HasBit
<1>14. (e \div 512) % 8 = info.customBits
  <2>1. e \div 512 = top
    BY <1>1, <1>3, <1>4
  <2> QED
    BY <1>1, <2>1 DEF top
<1>15. e - (e % 4096) = info.physicalAddress
  <2> DEFINE low == b0 + 2 * b1 + 4 * b2 + 8 * b3 + 16 * b4 + 32 * b5 + 64 * b6 + 128 * b7
                    + 256 * b8 + 512 * info.customBits
  <2>1. low \in 0 .. 4095
    BY <1>1, <1>3, SMTT(30)
  <2>2. e = low + 4096 * q
    BY <1>1, <1>3, <1>4 DEF top
  <2> HIDE DEF low
  <2> QED
    BY <1>1, <2>1, <2>2, SMTT(30)
<1>16. info = [isPresented |-> info.isPresented, isWriteable |-> info.isWriteable,
               isUserAccessible |-> info.isUserAccessible,
               isCacheWriteThough |-> info.isCacheWriteThough,
               isCashingDisabled |-> info.isCashingDisabled,
               wasAccessed |-> info.wasAccessed, wasWritten |-> info.wasWritten,
               isExpanded |-> info.isExpanded, isGlobal |-> info.isGlobal,
               customBits |-> info.customBits, physicalAddress |-> info.physicalAddress]
  BY DEF EntryInfo
<1> QED
  BY <1>5, <1>6, <1>7, <1>8, <1>9, <1>10, <1>11, <1>12, <1>13, <1>14, <1>15, <1>16
  DEF decode_page_table_entry, e

(***************************************************************************)
(* The free page.                                                          *)
(***************************************************************************)

\* A search that finds an entry yields the page of the first entry that has one.
LEMMA FirstOffer ==
  ASSUME NEW map, Len(map) \in Nat, NEW k \in 1 .. Len(map), PageOf(map[k]) # 0
  PROVE  \E n \in 1 .. Len(map) :
           /\ PageOf(map[n]) # 0 /\ \A m \in 1 .. n - 1 : PageOf(map[m]) = 0
           /\ get_free_page_address(map) = PageOf(map[n])
<1> DEFINE offering == {m \in 1 .. Len(map) : PageOf(map[m]) # 0}
           first == CHOOSE m \in offering : \A n \in offering : m <= n
<1>1. offering \in SUBSET Nat /\ offering # {}
  OBVIOUS
<1>2. \E m \in offering : \A n \in offering : m <= n
  <2> HIDE DEF offering
  <2> QED
    BY <1>1, LeastNat
<1>3. first \in offering /\ \A n \in offering : first <= n
  BY <1>2
<1>4. get_free_page_address(map) = PageOf(map[first])
  BY <1>1 DEF get_free_page_address
<1> HIDE DEF first
<1> QED
  BY <1>1, <1>3, <1>4

\* PageOf without its abbreviations.
LEMMA PageOfEntry ==
  ASSUME NEW entry
  PROVE  LET a_rn == align_to(ToInt(entry.addr), PageLength)
             b_rn == ToInt(entry.addr + entry.len)
             b_m  == align_to(KernelEnd, PageLength)
         IN PageOf(entry) =
              IF Considered(entry)
              THEN IF ToInt(KernelStart - a_rn) > PageLength THEN a_rn
                   ELSE IF ToInt(b_rn - b_m) > PageLength THEN b_m ELSE 0
              ELSE 0
BY DEF PageOf, Considered

MapEntry == [addr : Nat, len : Nat, type : Nat]

\* The end of the image, rounded up.
LEMMA ImageEnd ==
  LET b_m == align_to(KernelEnd, PageLength)
  IN /\ b_m \in Nat /\ b_m % PageLength = 0 /\ KernelEnd <= b_m /\ b_m < IntLimit
     /\ \A b \in Nat : b % PageLength = 0 /\ KernelEnd <= b /\ b > 0 => b_m <= b
<1>1. KernelEnd \in Nat /\ KernelEnd > 0 /\ KernelEnd + PageLength <= IntLimit
  BY KernelAssumption, IntLimitAssumption
<1>2. KernelEnd + PageLength \in Nat /\ IntLimit \in Nat
  BY <1>1, IntLimitAssumption DEF PageLength
<1> QED
  BY <1>1, <1>2, AlignTo

\* A page on offer is a whole one that an int reaches, and not the kernel's,
\* whatever the entry says.
LEMMA OfferedPage ==
  ASSUME NEW entry \in MapEntry
  PROVE  LET p == PageOf(entry)
         IN p \in Nat /\ p < IntLimit /\ (p = 0 \/ OffImage(p))
<1> DEFINE size == ToInt(entry.addr)
           a_rn == align_to(size, PageLength)
           b_rn == ToInt(entry.addr + entry.len)
           b_m  == align_to(KernelEnd, PageLength)
           gap  == KernelStart - a_rn
<1>1. size \in Int /\ -IntLimit <= size /\ size < IntLimit
  <2>1. entry.addr \in Int
    BY DEF MapEntry
  <2> QED
    BY <2>1, ToIntKeeps
<1>2. a_rn \in Int /\ a_rn < IntLimit /\ (a_rn >= 0 => a_rn % PageLength = 0)
  <2> HIDE DEF size
  <2> QED
    BY <1>1, AlignInt
<1>3. b_m \in Nat /\ b_m % PageLength = 0 /\ KernelEnd <= b_m /\ b_m < IntLimit
  BY ImageEnd
<1>4. PageOf(entry) = IF Considered(entry)
                      THEN IF ToInt(gap) > PageLength THEN a_rn
                           ELSE IF ToInt(b_rn - b_m) > PageLength THEN b_m ELSE 0
                      ELSE 0
  BY PageOfEntry
<1>5. Considered(entry) => a_rn >= LowMemory
  BY DEF Considered
<1> HIDE DEF size, a_rn, b_rn, b_m
<1>6. Considered(entry) => ToInt(gap) = gap
  <2>1. ASSUME Considered(entry)
        PROVE  gap \in Int /\ -IntLimit <= gap /\ gap < IntLimit
    BY <1>2, <1>5, <2>1, KernelAssumption, IntLimitAssumption DEF PageLength
  <2> HIDE DEF gap
  <2> QED
    BY <2>1, ToIntKeeps
<1>7. CASE PageOf(entry) = 0
  BY <1>7, IntLimitAssumption, KernelAssumption DEF PageLength
<1>8. CASE PageOf(entry) = a_rn /\ Considered(entry) /\ ToInt(gap) > PageLength
  BY <1>2, <1>5, <1>6, <1>8, KernelAssumption DEF PageLength, OffImage
<1>9. CASE PageOf(entry) = b_m
  BY <1>3, <1>9, KernelAssumption DEF PageLength, OffImage
<1> QED
  BY <1>4, <1>7, <1>8, <1>9

\* What the search yields, whatever the map: no page, or one beside the image.
LEMMA NewPage ==
  ASSUME NEW map \in MemoryMaps
  PROVE  LET p == get_free_page_address(map)
         IN p \in Nat /\ p \div PageSize \in Pages \ {XPage} /\ (p = 0 \/ OffImage(p))
<1> DEFINE p == get_free_page_address(map)
<1>1. map \in Seq(MapEntry)
  BY MapsAssumption DEF MapEntry
<1>2. p \in Nat /\ p < IntLimit /\ (p = 0 \/ OffImage(p))
  <2>1. CASE \E k \in 1 .. Len(map) : PageOf(map[k]) # 0
    <3>1. PICK n \in 1 .. Len(map) : p = PageOf(map[n])
      BY <1>1, <2>1, FirstOffer
    <3>2. map[n] \in MapEntry
      BY <1>1
    <3> QED
      BY <3>1, <3>2, OfferedPage
  <2>2. CASE ~ \E k \in 1 .. Len(map) : PageOf(map[k]) # 0
    <3>1. p = 0
      BY <2>2 DEF get_free_page_address
    <3> QED
      BY <3>1, IntLimitAssumption, KernelAssumption DEF PageLength
  <2> QED
    BY <2>1, <2>2
<1> HIDE DEF p
<1>3. p \div PageSize \in Pages
  <2>1. IntLimit <= MemoryEnd /\ IntLimit \in Nat
    BY MapsAssumption, IntLimitAssumption
  <2>2. MemoryEnd \in Nat /\ p < MemoryEnd
    BY <1>2, <2>1, TableSizeAssumption DEF MemoryEnd, PageSize
  <2> QED
    BY <1>2, <2>2, TableSizeAssumption DEF MemoryEnd, PageSize, Pages
<1>4. p \div PageSize # XPage
  BY <1>2, XPageAssumption, KernelAssumption DEF PageSize, PageLength, Entries, OffImage
<1> QED
  BY <1>2, <1>3, <1>4 DEF p

\* The search keeps its promise on a roomy map.
LEMMA RoomyMap ==
  ASSUME NEW map \in MemoryMaps, Roomy(map)
  PROVE  PageFree(map, get_free_page_address(map))
<1> DEFINE begin(k) == map[k].addr
           end(k)   == map[k].addr + map[k].len
           b_m      == align_to(KernelEnd, PageLength)
<1>1. map \in Seq(MapEntry)
  BY MapsAssumption DEF MapEntry
<1>2. PICK k \in 1 .. Len(map) :
        /\ Considered(map[k]) /\ \A m \in 1 .. k - 1 : ~Considered(map[m])
        /\ begin(k) <= KernelStart /\ KernelEnd <= end(k) /\ end(k) < IntLimit
        /\ \/ KernelStart - align_to(begin(k), PageLength) > PageLength
           \/ end(k) - b_m > PageLength
  BY DEF Roomy
<1>3. begin(k) \in Nat /\ end(k) \in Nat
  <2>1. map[k] \in MapEntry
    BY <1>1
  <2> QED
    BY <2>1 DEF MapEntry
<1> DEFINE a_rn == align_to(begin(k), PageLength)
<1>4. /\ b_m \in Nat /\ b_m % PageLength = 0 /\ KernelEnd <= b_m /\ b_m < IntLimit
      /\ \A b \in Nat : b % PageLength = 0 /\ KernelEnd <= b /\ b > 0 => b_m <= b
  BY ImageEnd
<1>5. /\ a_rn \in Nat /\ a_rn % PageLength = 0 /\ begin(k) <= a_rn /\ a_rn < IntLimit
      /\ a_rn > 0
      /\ a_rn <= b_m
  <2>1. begin(k) + PageLength <= IntLimit /\ begin(k) <= KernelEnd /\ KernelEnd > 0
    BY <1>2, <1>3, KernelAssumption, IntLimitAssumption DEF PageLength
  <2> HIDE DEF begin
  <2>2. /\ a_rn \in Nat /\ a_rn % PageLength = 0 /\ begin(k) <= a_rn /\ a_rn > 0
        /\ \A b \in Nat : b % PageLength = 0 /\ begin(k) <= b /\ b > 0 => a_rn <= b
    BY <1>3, <2>1, AlignTo
  <2> HIDE DEF a_rn, b_m
  <2> QED
    BY <1>3, <1>4, <2>1, <2>2, KernelAssumption, IntLimitAssumption
<1>6. ToInt(begin(k)) = begin(k) /\ ToInt(end(k)) = end(k)
  <2>1. \A n \in Nat : n < IntLimit => ToInt(n) = n
    BY ToIntKeeps, IntLimitAssumption
  <2>2. begin(k) < IntLimit /\ end(k) < IntLimit
    BY <1>2, <1>3, KernelAssumption, IntLimitAssumption DEF PageLength
  <2> HIDE DEF begin, end
  <2> QED
    BY <1>3, <2>1, <2>2
<1>7. Considered(map[k]) /\ a_rn >= LowMemory
  BY <1>2, <1>6 DEF Considered
<1>8. PageOf(map[k]) = IF ToInt(KernelStart - a_rn) > PageLength THEN a_rn
                       ELSE IF ToInt(end(k) - b_m) > PageLength THEN b_m ELSE 0
  BY <1>6, <1>7, PageOfEntry
<1> HIDE DEF begin, end, a_rn, b_m
<1>9. /\ ToInt(KernelStart - a_rn) = KernelStart - a_rn
      /\ ToInt(end(k) - b_m) = end(k) - b_m
  <2> DEFINE gap == KernelStart - a_rn
             rest == end(k) - b_m
  <2>1. gap \in Int /\ -IntLimit <= gap /\ gap < IntLimit
    BY <1>5, KernelAssumption, IntLimitAssumption DEF PageLength
  <2>2. rest \in Int /\ -IntLimit <= rest /\ rest < IntLimit
    BY <1>2, <1>3, <1>4, IntLimitAssumption
  <2> HIDE DEF gap, rest
  <2>3. ToInt(gap) = gap /\ ToInt(rest) = rest
    BY <2>1, <2>2, ToIntKeeps
  <2> QED
    BY <2>3 DEF gap, rest
<1>10. PageOf(map[k]) = IF KernelStart - a_rn > PageLength THEN a_rn ELSE b_m
  <2>1. KernelStart - a_rn > PageLength \/ end(k) - b_m > PageLength
    BY <1>2 DEF a_rn, b_m
  <2> QED
    BY <1>8, <1>9, <2>1
<1>11. \A m \in 1 .. k - 1 : PageOf(map[m]) = 0
  BY <1>2, PageOfEntry
<1>12. PageOf(map[k]) # 0
  BY <1>4, <1>5, <1>10, KernelAssumption
<1>13. get_free_page_address(map) = PageOf(map[k])
  <2>1. PICK n \in 1 .. Len(map) :
          /\ PageOf(map[n]) # 0 /\ \A m \in 1 .. n - 1 : PageOf(map[m]) = 0
          /\ get_free_page_address(map) = PageOf(map[n])
    BY <1>1, <1>12, FirstOffer
  <2>2. n = k
    BY <1>1, <1>11, <1>12, <2>1
  <2> QED
    BY <2>1, <2>2
<1> DEFINE p == get_free_page_address(map)
<1>14. OffImage(p) /\ begin(k) <= p /\ p + PageLength <= end(k)
  <2>1. CASE KernelStart - a_rn > PageLength
    <3>1. p = a_rn
      BY <1>10, <1>13, <2>1
    <3> HIDE DEF p
    <3> QED
      BY <1>2, <1>3, <1>5, <1>7, <2>1, <3>1, KernelAssumption DEF PageLength, OffImage
  <2>2. CASE ~ (KernelStart - a_rn > PageLength)
    <3>1. p = b_m
      BY <1>10, <1>13, <2>2
    <3> HIDE DEF p
    <3>2. end(k) - b_m > PageLength
      BY <1>2, <2>2 DEF a_rn, b_m
    <3>3. p \in Nat /\ p % PageLength = 0 /\ KernelEnd <= p /\ a_rn <= p
      BY <1>4, <1>5, <3>1
    <3>4. p >= LowMemory /\ begin(k) <= p
      BY <1>3, <1>5, <1>7, <3>3, KernelAssumption
    <3>5. p + PageLength <= end(k)
      BY <1>3, <3>1, <3>2, <3>3 DEF PageLength
    <3> QED
      BY <3>3, <3>4, <3>5 DEF OffImage
  <2> QED
    BY <2>1, <2>2
<1>15. map[k].type = 1 /\ map[k].addr <= p /\ p + PageLength <= map[k].addr + map[k].len
  BY <1>7, <1>14 DEF Considered, begin, end
<1> QED
  BY <1>14, <1>15 DEF PageFree

(***************************************************************************)
(* The inductive invariant. The loops of init_directory have filled the    *)
(* catalog and the tables up to their counters; nothing touches them       *)
(* afterwards. What test_paging writes through the tables goes elsewhere   *)
(* than to x.                                                              *)
(***************************************************************************)

Filled  == {"paging", "map", "t_page", "t_copy", "t_write", "t_first", "t_remap", "t_second",
            "halt"}
HasPage == {"t_copy", "t_write", "t_first", "t_remap", "t_second", "halt"}

LoopInv ==
  /\ pc \in {"pic", "lidt", "sti"} => i = 0
  /\ pc \in {"catalog", "table"} => i \in Entries
  /\ pc = "table" => j \in Entries
  /\ paging => pc \in Filled

Encoded(address) == encode_page_table_entry(KernelEntry(address))

CatalogInv ==
  /\ catalog \in [Entries -> Nat]
  /\ \A k \in Entries :
       (pc = "catalog" /\ k < i) \/ (pc = "table" /\ k <= i) \/ pc \in Filled =>
         catalog[k] = Encoded(TableAddress(k))

TablesInv ==
  /\ tables \in [Entries -> [Entries -> Nat]]
  /\ \A k, l \in Entries :
       \/ pc \in {"catalog", "table"} /\ k < i
       \/ pc = "table" /\ k = i /\ l < j
       \/ pc \in Filled
       => tables[k][l] = Encoded((k * TableSize + l) * PageSize)

TestInv ==
  /\ mmap \in MemoryMaps
  /\ pc \in HasPage => newPage = get_free_page_address(mmap)
  /\ mem \in [Pages -> {0, 5, 10}] /\ mem[XPage] = 10
  /\ y \in Seq({1})

BootInv == LoopInv /\ CatalogInv /\ TablesInv /\ TestInv

\* What the loops store is a natural number.
LEMMA EncodedNat ==
  ASSUME NEW address \in Nat
  PROVE  Encoded(address) \in Nat
BY DEF Encoded, encode_page_table_entry, KernelEntry, Bit

LEMMA Addresses ==
  /\ \A k \in Entries : TableAddress(k) \in Nat /\ TableAddress(k) % PageSize = 0
  /\ \A k, l \in Entries : (k * TableSize + l) * PageSize \in Nat
BY TableSizeAssumption, KernelDirectoryAssumption DEF TableAddress, Entries, PageSize

\* Once all is filled, the processor's walk ends at the page's own frame.
LEMMA WalkIsIdentity ==
  ASSUME CatalogInv, TablesInv, pc \in Filled, NEW page \in Pages
  PROVE  /\ Reaches(catalog, tables, page)
         /\ Walk(catalog, tables, page).isWriteable
         /\ Walk(catalog, tables, page).physicalAddress = page * PageSize
<1> DEFINE t == page \div TableSize
           l == page % TableSize
<1>1. t \in Entries /\ l \in Entries /\ t * TableSize + l = page
  BY SplitPage
<1> HIDE DEF t, l
<1>2. /\ decode_page_table_entry(catalog[t]).isPresented
      /\ decode_page_table_entry(catalog[t]).physicalAddress = TableAddress(t)
  BY <1>1, Addresses, KernelEntryDecoded DEF CatalogInv, Encoded
<1>3. (TableAddress(t) - TableAddress(0)) \div PageSize = t
  BY <1>1, KernelDirectoryAssumption DEF TableAddress, PageSize, Entries
<1>4. tables[t][l] = Encoded(page * PageSize)
  BY <1>1 DEF TablesInv
<1>5. page * PageSize \in Nat /\ (page * PageSize) % PageSize = 0
  BY TableSizeAssumption DEF Pages, PageSize
<1>6. Walk(catalog, tables, page) = decode_page_table_entry(tables[t][l])
  BY <1>2, <1>3 DEF Walk, t, l
<1>7. /\ Walk(catalog, tables, page).isPresented
      /\ Walk(catalog, tables, page).isWriteable
      /\ Walk(catalog, tables, page).physicalAddress = page * PageSize
  BY <1>4, <1>5, <1>6, KernelEntryDecoded DEF Encoded
<1> QED
  BY <1>1, <1>2, <1>7 DEF Reaches, t

\* Accesses go where their addresses say.
LEMMA FrameIsPage ==
  ASSUME CatalogInv, TablesInv, pc \in Filled, NEW address \in Nat,
         address \div PageSize \in Pages
  PROVE  Frame(address) = address \div PageSize
<1> DEFINE page == address \div PageSize
<1>1. Walk(catalog, tables, page).physicalAddress = page * PageSize
  BY WalkIsIdentity
<1>2. page \in Nat /\ (page * PageSize) \div PageSize = page
  BY DEF PageSize
<1> HIDE DEF page
<1> QED
  BY <1>1, <1>2 DEF Frame, page

LEMMA BootInit ==
  ASSUME Init
  PROVE  BootInv
<1>1. LoopInv
  BY DEF Init, LoopInv
<1>2. CatalogInv
  BY DEF Init, CatalogInv, Filled
<1>3. TablesInv
  BY DEF Init, TablesInv, Filled
<1>4. TestInv
  <2>1. XPage \in Pages
    BY XPageAssumption, TableSizeAssumption DEF Entries, Pages
  <2> QED
    BY <2>1 DEF Init, TestInv, HasPage
<1> QED
  BY <1>1, <1>2, <1>3, <1>4 DEF BootInv

\* Before the loops begin, whatever does not touch the page tables keeps them.
LEMMA BeforeTables ==
  ASSUME BootInv, init_gdt \/ init_idt
  PROVE  BootInv'
<1> USE DEF BootInv
<1>1. /\ UNCHANGED <<pagingVars, testVars, mmap>>
      /\ pc \notin Filled /\ pc' \notin Filled \cup HasPage \cup {"table"}
      /\ pc' = "catalog" => i' = 0
      /\ pc' \in {"pic", "lidt", "sti"} => i' = 0
  <2> USE DEF Filled, HasPage, Go, LoopInv
  <2>1. CASE gdt_entry
    BY <2>1 DEF gdt_entry, GdtEntries
  <2>2. CASE gdt_select \/ lgdt \/ load_ds \/ load_cs
    BY <2>2 DEF gdt_select, lgdt, load_ds, load_cs
  <2>3. CASE idt_entry
    BY <2>3 DEF idt_entry
  <2>4. CASE pic_remap \/ lidt \/ sti
    BY <2>4 DEF pic_remap, lidt, sti
  <2> QED
    BY <2>1, <2>2, <2>3, <2>4 DEF init_gdt, init_idt
<1>2. LoopInv'
  BY <1>1, TableSizeAssumption DEF LoopInv, Entries, pagingVars
<1>3. CatalogInv'
  BY <1>1 DEF CatalogInv, Entries, pagingVars
<1>4. TablesInv'
  BY <1>1 DEF TablesInv, Entries, pagingVars
<1>5. TestInv'
  BY <1>1 DEF TestInv, testVars
<1> QED
  BY <1>2, <1>3, <1>4, <1>5

LEMMA CatalogStep ==
  ASSUME BootInv, catalog_entry
  PROVE  BootInv'
<1> USE DEF BootInv
<1>1. /\ pc = "catalog" /\ pc' = "table" /\ i \in Entries /\ i' = i /\ j' = 0
      /\ catalog' = [catalog EXCEPT ![i] = Encoded(TableAddress(i))]
      /\ UNCHANGED <<tables, paging, testVars, mmap>>
  BY DEF catalog_entry, Go, LoopInv, Encoded
<1>2. LoopInv'
  BY <1>1, TableSizeAssumption DEF LoopInv, Entries, Filled
<1>3. CatalogInv'
  <2>1. Encoded(TableAddress(i)) \in Nat
    BY <1>1, Addresses, EncodedNat
  <2> QED
    BY <1>1, <2>1 DEF CatalogInv, Entries, Filled
<1>4. TablesInv'
  BY <1>1 DEF TablesInv, Entries, Filled
<1>5. TestInv'
  BY <1>1 DEF TestInv, testVars, HasPage
<1> QED
  BY <1>2, <1>3, <1>4, <1>5

LEMMA TableStep ==
  ASSUME BootInv, table_entry
  PROVE  BootInv'
<1> USE DEF BootInv
<1> DEFINE code == Encoded((i * TableSize + j) * PageSize)
<1>1. /\ pc = "table" /\ i \in Entries /\ j \in Entries
      /\ tables' = [tables EXCEPT ![i][j] = code]
      /\ UNCHANGED <<catalog, paging, testVars, mmap>>
  BY DEF table_entry, Go, LoopInv, Encoded
<1>2. \/ pc' = "table" /\ i' = i /\ j' = j + 1 /\ j + 1 < TableSize
      \/ pc' = "catalog" /\ i' = i + 1 /\ j' = 0 /\ j + 1 = TableSize /\ i + 1 < TableSize
      \/ pc' = "paging" /\ i' = 0 /\ j' = 0 /\ j + 1 = TableSize /\ i + 1 = TableSize
  BY <1>1, TableSizeAssumption DEF table_entry, Go, Entries
<1>3. code \in Nat
  BY <1>1, Addresses, EncodedNat
<1> HIDE DEF code
<1>4. LoopInv'
  BY <1>1, <1>2, TableSizeAssumption DEF LoopInv, Entries, Filled
<1>5. CatalogInv'
  BY <1>1, <1>2, TableSizeAssumption DEF CatalogInv, Entries, Filled
<1>6. TablesInv'
  <2>1. tables' \in [Entries -> [Entries -> Nat]]
    BY <1>1, <1>3 DEF TablesInv
  <2>2. ASSUME NEW k \in Entries, NEW l \in Entries,
               \/ pc' \in {"catalog", "table"} /\ k < i'
               \/ pc' = "table" /\ k = i' /\ l < j'
               \/ pc' \in Filled
        PROVE  tables'[k][l] = Encoded((k * TableSize + l) * PageSize)
    <3>1. CASE k = i /\ l = j
      BY <1>1, <3>1 DEF TablesInv, code
    <3>2. CASE ~ (k = i /\ l = j)
      <4>1. k < i \/ (k = i /\ l < j)
        BY <1>1, <1>2, <2>2, <3>2, TableSizeAssumption DEF Entries, Filled
      <4>2. tables[k][l] = Encoded((k * TableSize + l) * PageSize)
        BY <1>1, <4>1 DEF TablesInv
      <4>3. tables'[k][l] = tables[k][l]
        BY <1>1, <3>2 DEF TablesInv
      <4> QED
        BY <4>2, <4>3
    <3> QED
      BY <3>1, <3>2
  <2> QED
    BY <2>1, <2>2 DEF TablesInv
<1>7. TestInv'
  BY <1>1, <1>2 DEF TestInv, testVars, HasPage
<1> QED
  BY <1>4, <1>5, <1>6, <1>7

LEMMA TestStep ==
  ASSUME BootInv, enable_paging \/ print_map \/ test_paging
  PROVE  BootInv'
<1> USE DEF BootInv
<1>1. /\ UNCHANGED <<catalog, tables, mmap>> /\ pc \in Filled /\ pc' \in Filled
      /\ pc' \in HasPage => pc \in HasPage \cup {"t_page"}
  <2> USE DEF Filled, HasPage, Go, pagingVars
  <2>1. CASE enable_paging
    BY <2>1 DEF enable_paging
  <2>2. CASE print_map
    BY <2>2 DEF print_map
  <2>3. CASE t_page \/ t_copy \/ t_write \/ t_remap
    BY <2>3 DEF t_page, t_copy, t_write, t_remap
  <2>4. CASE t_first \/ t_second
    BY <2>4 DEF t_first, t_second, Test
  <2> QED
    BY <2>1, <2>2, <2>3, <2>4 DEF test_paging
<1>2. LoopInv'
  BY <1>1 DEF LoopInv, Filled
<1>3. CatalogInv'
  BY <1>1 DEF CatalogInv, Filled
<1>4. TablesInv'
  BY <1>1 DEF TablesInv, Filled
<1>5. XPage \in Pages /\ XPage * PageSize \in Nat /\ (XPage * PageSize) \div PageSize = XPage
  BY XPageAssumption, TableSizeAssumption DEF Entries, Pages, PageSize
<1>6. Frame(XPage * PageSize) = XPage
  BY <1>1, <1>5, FrameIsPage
<1>7. TestInv'
  <2>1. CASE enable_paging
    BY <2>1, <1>1 DEF TestInv, enable_paging, testVars, HasPage, Go
  <2>2. CASE print_map
    BY <2>2, <1>1 DEF TestInv, print_map, testVars, HasPage
  <2>3. CASE t_page
    BY <2>3, <1>1 DEF TestInv, t_page, HasPage, Go
  <2>4. ASSUME pc \in HasPage PROVE Frame(newPage) \in Pages \ {XPage}
    <3>1. newPage \in Nat /\ newPage \div PageSize \in Pages \ {XPage}
      BY <2>4, NewPage DEF TestInv
    <3> QED
      BY <1>1, <3>1, FrameIsPage
  <2>5. CASE t_copy
    BY <2>5, <2>4, <1>1, <1>5, <1>6 DEF TestInv, t_copy, HasPage, Go
  <2>6. CASE t_write
    BY <2>6, <2>4, <1>1, <1>5, <1>6 DEF TestInv, t_write, HasPage, Go
  <2>7. CASE t_remap
    BY <2>7, <1>1 DEF TestInv, t_remap, HasPage, Go
  <2>8. CASE t_first \/ t_second
    <3>1. /\ UNCHANGED <<newPage, mem, mmap>> /\ pc \in HasPage
          /\ y' = Append(y, IF mem[Frame(XPage * PageSize)] = 10 THEN 1 ELSE 0)
      BY <2>8 DEF t_first, t_second, Test, HasPage
    <3>2. y' = Append(y, 1)
      BY <1>6, <3>1 DEF TestInv
    <3> QED
      BY <3>1, <3>2 DEF TestInv
  <2> QED
    BY <2>1, <2>2, <2>3, <2>5, <2>6, <2>7, <2>8 DEF test_paging
<1> QED
  BY <1>2, <1>3, <1>4, <1>7

LEMMA BootStep ==
  ASSUME BootInv, [Next]_vars
  PROVE  BootInv'
<1> DEFINE still == UNCHANGED <<pc, i, j, pagingVars, testVars, mmap>>
<1>1. CASE init_gdt \/ init_idt
  BY <1>1, BeforeTables
<1>2. CASE init_directory
  BY <1>2, CatalogStep, TableStep, TestStep DEF init_directory
<1>3. CASE print_map \/ test_paging
  BY <1>3, TestStep
<1>4. ASSUME still PROVE BootInv'
  BY <1>4 DEF BootInv, LoopInv, CatalogInv, TablesInv, TestInv, pagingVars, testVars
<1>5. CASE \E n \in Vectors, x \in ScanCodes : irq_handler(n, x)
  BY <1>4, <1>5 DEF irq_handler
<1>6. CASE UNCHANGED vars
  BY <1>4, <1>6 DEF vars
<1> QED
  BY <1>1, <1>2, <1>3, <1>5, <1>6 DEF Next

LEMMA BootInvariant == Spec => []BootInv
<1>1. Init => BootInv
  BY BootInit
<1>2. BootInv /\ [Next]_vars => BootInv'
  BY BootStep
<1> QED
  BY <1>1, <1>2, PTL DEF Spec

\* Whatever the size of the tables, and whatever interrupts come in between: once
\* paging is on, every page is present, writable and its own frame, and both tests
\* of x find it unchanged.
THEOREM PagesStayIdentityMapped == Spec => []IdentityMapped
<1>1. BootInv => IdentityMapped
  <2> SUFFICES ASSUME BootInv PROVE IdentityMapped
    OBVIOUS
  <2>1. paging => pc \in Filled
    BY DEF BootInv, LoopInv
  <2>2. \A k \in 1 .. Len(y) : y[k] = 1
    BY DEF BootInv, TestInv
  <2> QED
    BY <2>1, <2>2, WalkIsIdentity DEF IdentityMapped, BootInv
<1> QED
  BY <1>1, BootInvariant, PTL

\* Whatever 64-bit map the boot loader reports, the test writes to page 0 or to a
\* whole page above LowMemory beside the kernel's image; and to free memory, if the
\* map is roomy.
THEOREM TestWritesFreePage == Spec => []FreePageIsFree
<1>1. BootInv => FreePageIsFree
  BY RoomyMap, NewPage DEF BootInv, TestInv, FreePageIsFree, HasPage
<1> QED
  BY <1>1, BootInvariant, PTL

(***************************************************************************)
(* The counters and the types: each loop begins at 0 and leaves its        *)
(* counter at 0, so that the next finds it there.                          *)
(***************************************************************************)

\* How often test has run.
Tested ==
  CASE pc \in {"t_remap", "t_second"} -> 1 [] pc = "halt" -> 2 [] OTHER -> 0

CountInv ==
  /\ pc \in Labels /\ i \in Nat /\ j \in Entries
  /\ pc = "gdt" => i \in 0 .. 4
  /\ pc = "idt" => i \in Vectors
  /\ pc \in {"select", "lgdt", "load_ds", "load_cs", "paging"} => i = 0
  /\ pc = "map" => i <= Len(mmap)
  /\ Len(y) = Tested
  /\ paging \in BOOLEAN /\ newPage \in Nat /\ current \in [Pages -> Nat]

\* A page-table entry is a natural number, whatever its fields.
LEMMA EncodeNat ==
  ASSUME NEW info, info.customBits \in Nat, info.physicalAddress \in Nat
  PROVE  encode_page_table_entry(info) \in Nat
BY DEF encode_page_table_entry, Bit

LEMMA OneLonger ==
  ASSUME NEW s \in Seq({0, 1}), NEW bit \in {0, 1}
  PROVE  Len(Append(s, bit)) = Len(s) + 1
OBVIOUS

\* Before the page tables.
LEMMA CountEarly ==
  ASSUME BootInv, CountInv, init_gdt \/ init_idt
  PROVE  CountInv'
<1> DEFINE early == {"gdt", "select", "lgdt", "load_ds", "load_cs", "idt", "pic", "lidt", "sti"}
<1>1. /\ UNCHANGED <<j, paging, newPage, current, y, mmap>>
      /\ pc \in early /\ pc' \in early \cup {"catalog"} /\ i' \in Nat
      /\ pc' = "gdt" => i' \in 0 .. 4
      /\ pc' = "idt" => i' \in Vectors
      /\ pc' \in {"select", "lgdt", "load_ds", "load_cs"} => i' = 0
  <2> USE DEF Go, pagingVars, testVars
  <2>1. /\ i \in Nat
        /\ pc = "gdt" => i \in 0 .. 4
        /\ pc = "idt" => i \in Vectors
        /\ pc \in {"select", "lgdt", "load_ds", "load_cs"} => i = 0
    BY DEF CountInv
  <2>2. 0 \in Vectors /\ \A n \in Vectors : n + 1 < handlersCount => n + 1 \in Vectors
    BY DEF Vectors, handlersCount
  <2>3. CASE gdt_entry
    <3>1. Len(GdtEntries) = 5
      BY DEF GdtEntries
    <3>2. /\ pc = "gdt" /\ pc' = IF i + 1 < Len(GdtEntries) THEN "gdt" ELSE "select"
          /\ i' = IF i + 1 < Len(GdtEntries) THEN i + 1 ELSE 0
          /\ UNCHANGED <<j, pagingVars, testVars, mmap>>
      BY <2>3 DEF gdt_entry
    <3> QED
      BY <2>1, <3>1, <3>2
  <2>4. CASE gdt_select \/ lgdt \/ load_ds \/ load_cs
    BY <2>1, <2>2, <2>4 DEF gdt_select, lgdt, load_ds, load_cs
  <2>5. CASE idt_entry
    BY <2>1, <2>2, <2>5 DEF idt_entry
  <2>6. CASE pic_remap \/ lidt \/ sti
    BY <2>1, <2>6 DEF pic_remap, lidt, sti
  <2> QED
    BY <2>3, <2>4, <2>5, <2>6 DEF init_gdt, init_idt
<1>2. Tested = 0 /\ Tested' = 0 /\ pc' \in Labels \ {"paging", "map"}
  BY <1>1 DEF Tested, Labels
<1> QED
  BY <1>1, <1>2 DEF CountInv

LEMMA CountTables ==
  ASSUME BootInv, CountInv, init_directory
  PROVE  CountInv'
<1>1. /\ UNCHANGED <<newPage, current, y, mmap>> /\ paging' \in BOOLEAN
      /\ Tested = 0 /\ Tested' = 0
      /\ pc' \in {"catalog", "table", "paging", "map"} /\ i' \in Nat /\ j' \in Entries
      /\ pc' \in {"paging", "map"} => i' = 0
  <2> USE TableSizeAssumption DEF CountInv, Go, Tested, Labels, testVars, Entries
  <2>1. CASE catalog_entry
    BY <2>1 DEF catalog_entry
  <2>2. CASE table_entry
    BY <2>2 DEF table_entry
  <2>3. CASE enable_paging
    BY <2>3 DEF enable_paging
  <2> QED
    BY <2>1, <2>2, <2>3 DEF init_directory
<1>2. Len(mmap) \in Nat
  BY MapsAssumption DEF BootInv, TestInv
<1> QED
  BY <1>1, <1>2 DEF CountInv, Labels

LEMMA CountTest ==
  ASSUME BootInv, CountInv, print_map \/ test_paging
  PROVE  CountInv'
<1>1. /\ UNCHANGED <<j, paging, mmap>> /\ i' \in Nat
      /\ pc' \in {"map", "t_page", "t_copy", "t_write", "t_first", "t_remap", "t_second",
                  "halt"}
      /\ pc' = "map" => i' <= Len(mmap)
  <2> USE DEF CountInv, Go, pagingVars
  <2>1. CASE print_map
    <3>1. Len(mmap) \in Nat
      BY MapsAssumption DEF BootInv, TestInv
    <3> QED
      BY <2>1, <3>1 DEF print_map
  <2>2. CASE t_page \/ t_copy \/ t_write \/ t_remap
    BY <2>2 DEF t_page, t_copy, t_write, t_remap
  <2>3. CASE t_first \/ t_second
    BY <2>3 DEF t_first, t_second, Test
  <2> QED
    BY <2>1, <2>2, <2>3 DEF test_paging
<1>2. Len(y') = Tested'
  <2> USE DEF CountInv, Go, Tested
  <2>1. CASE print_map
    BY <2>1 DEF print_map, testVars
  <2>2. CASE t_page \/ t_copy \/ t_write \/ t_remap
    BY <2>2 DEF t_page, t_copy, t_write, t_remap
  <2>3. CASE t_first \/ t_second
    <3> DEFINE result == IF mem[Frame(XPage * PageSize)] = 10 THEN 1 ELSE 0
    <3>1. Len(y') = Len(y) + 1
      <4>1. y' = Append(y, result)
        BY <2>3 DEF t_first, t_second, Test
      <4>2. y \in Seq({0, 1}) /\ result \in {0, 1}
        BY DEF BootInv, TestInv
      <4> QED
        BY <4>1, <4>2, OneLonger
    <3> QED
      BY <2>3, <3>1 DEF t_first, t_second, Test
  <2> QED
    BY <2>1, <2>2, <2>3 DEF test_paging
<1>3. newPage' \in Nat
  <2>1. CASE t_page
    BY <2>1, NewPage DEF t_page, BootInv, TestInv
  <2>2. CASE ~t_page
    BY <2>2 DEF CountInv, print_map, testVars, test_paging, t_copy, t_write, t_first, t_remap,
                t_second, Test
  <2> QED
    BY <2>1, <2>2
<1>4. current' \in [Pages -> Nat]
  <2>1. CASE t_remap
    <3> DEFINE p == (XPage \div TableSize) * TableSize + (XPage % TestModulus)
               info == [decode_page_table_entry(current[p]) EXCEPT !.physicalAddress = newPage]
    <3>1. current' = [current EXCEPT ![p] = encode_page_table_entry(info)]
      BY <2>1 DEF t_remap
    <3>2. ASSUME p \in Pages PROVE encode_page_table_entry(info) \in Nat
      <4>1. current[p] \in Nat /\ newPage \in Nat
        BY <3>2 DEF CountInv
      <4> HIDE DEF p
      <4>2. info.customBits = (current[p] \div 512) % 8 /\ info.physicalAddress = newPage
        BY DEF decode_page_table_entry
      <4>3. info.customBits \in Nat
        BY <4>1, <4>2
      <4> HIDE DEF info
      <4> QED
        BY <4>1, <4>2, <4>3, EncodeNat
    <3> HIDE DEF p, info
    <3> QED
      BY <3>1, <3>2 DEF CountInv
  <2>2. CASE ~t_remap
    BY <2>2 DEF CountInv, print_map, testVars, test_paging, t_page, t_copy, t_write, t_first,
                t_second, Test
  <2> QED
    BY <2>1, <2>2
<1> QED
  BY <1>1, <1>2, <1>3, <1>4 DEF CountInv, Labels

(***************************************************************************)
(* The processor's tables. Interrupts are off until all of them are filled *)
(* and loaded, so that no interrupt can meet one that is half done.        *)
(***************************************************************************)

\* Where the segments, the selectors, the gates and the controllers are not yet done.
Segments  == {"gdt"}
Selectors == Segments \cup {"select"}
Gdtr      == Selectors \cup {"lgdt"}
DataRegs  == Gdtr \cup {"load_ds"}
CodeReg   == DataRegs \cup {"load_cs"}
Gates     == CodeReg \cup {"idt"}
Pics      == Gates \cup {"pic"}
Idtr      == Pics \cup {"lidt"}
Masked    == Idtr \cup {"sti"}

Segment(access) == makeDescriptor(compileDescriptor(0, -1, access, 207))
Gate(n)    == idt_set(HandlerAddress(n), 24, 142)
Handler(n) == makeCustomHandler(HandlerAddress(n), n, StubAddress)

SegmentInv ==
  /\ seg \in [Slots -> Descriptor]
  /\ pc \notin Segments \/ i >= 2 => seg[3] = Segment(154)
  /\ pc \notin Segments \/ i >= 3 => seg[4] = Segment(146)
  /\ pc \notin Segments => seg[2] = Segment(242)

SelectorInv ==
  /\ IF pc \in Selectors THEN codeSelector = 0 /\ dataSelector = 0
                         ELSE codeSelector = 24 /\ dataSelector = 32
  /\ gdtLoaded = (pc \notin Gdtr)
  /\ ds = IF pc \in DataRegs THEN Loaders ELSE 32
  /\ cs = IF pc \in CodeReg THEN Loaders ELSE 24

GateInv ==
  /\ DOMAIN idt_seg = Vectors /\ DOMAIN custom_handlers = Vectors
  /\ \A n \in Vectors : pc \notin Gates \/ (pc = "idt" /\ n < i) =>
       idt_seg[n] = Gate(n) /\ custom_handlers[n] = Handler(n)

PicInv ==
  /\ pic = IF pc \in Pics THEN [master |-> Controller(8), slave |-> Controller(112)]
           ELSE [master |-> Controller(32), slave |-> Controller(40)]
  /\ idtLoaded = (pc \notin Idtr)
  /\ interruptsOn = (pc \notin Masked)

ProcessorInv == SegmentInv /\ SelectorInv /\ GateInv /\ PicInv

\* The limit -1, as an unsigned number, and the constants of the codecs.
LEMMA Minus1 ==
  Field(-1, 1, 65536) = 65535 /\ Field(-1, 65536, 16) = 15
<1>1. -1 \in -1 .. 0 /\ -1 # 0
  OBVIOUS
<1>2. \A n \in -1 .. 0 : n # 0 => Field(n, 1, 65536) = 65535 /\ Field(n, 65536, 16) = 15
  BY DEF Field
<1> QED
  BY <1>1, <1>2

LEMMA FieldsOfConstants ==
  /\ Field(0, 1, 65536) = 0 /\ Field(0, 65536, 256) = 0 /\ Field(0, 16777216, 256) = 0
  /\ Field(0, 1, 256) = 0 /\ Field(0, 256, 256) = 0
  /\ Field(0, 65536, 16) = 0 /\ Field(0, 16, 16) = 0 /\ Field(207, 16, 16) = 12
  /\ Field(65535, 1, 256) = 255 /\ Field(65535, 256, 256) = 255
BY DEF Field

\* The descriptors that init_gdt builds, byte for byte; those of its segments are flat.
LEMMA NullBytes ==
  /\ NoDescriptor = [k \in 0 .. 7 |-> 0]
  /\ NoDescriptor \in Descriptor
<1>1. NoDescriptor = [k \in 0 .. 7 |-> 0]
  BY FieldsOfConstants DEF NoDescriptor, makeDescriptor, compileDescriptor
<1> QED
  BY <1>1 DEF Descriptor

LEMMA SegmentBytes ==
  ASSUME NEW access \in 0 .. 255
  PROVE  LET d == Segment(access)
         IN /\ d \in Descriptor
            /\ d[0] = 255 /\ d[1] = 255 /\ d[2] = 0 /\ d[3] = 0 /\ d[4] = 0
            /\ d[5] = access /\ d[6] = 207 /\ d[7] = 0
            /\ Field(access, 128, 2) = 1 => Flat(d)
<1> DEFINE d == Segment(access)
<1>1. /\ d[0] = 255 /\ d[1] = 255 /\ d[2] = 0 /\ d[3] = 0 /\ d[4] = 0
      /\ d[5] = access /\ d[6] = 207 /\ d[7] = 0
  BY Minus1, FieldsOfConstants DEF Segment, makeDescriptor, compileDescriptor
<1>2. d = [k \in 0 .. 7 |-> d[k]]
  BY DEF Segment, makeDescriptor
<1> HIDE DEF d
<1>3. \A k \in 0 .. 7 : d[k] \in 0 .. 255
  BY <1>1
<1>4. d \in Descriptor
  BY <1>2, <1>3 DEF Descriptor
<1>5. SegmentBase(d) = 0 /\ SegmentLimit(d) = 1048575 /\ SegmentFlags(d) = 12
  BY <1>1 DEF SegmentBase, SegmentLimit, SegmentFlags
<1>6. Field(access, 128, 2) = 1 => Flat(d)
  BY <1>1, <1>5 DEF Flat
<1> QED
  BY <1>1, <1>4, <1>6 DEF d

\* The selectors of init_gdt and init_idt.
LEMMA SelectorValues ==
  /\ compile_selector(make_selector(3, FALSE, 0)) = 24
  /\ compile_selector(make_selector(4, FALSE, 0)) = 32
BY DEF compile_selector, make_selector, Field

LEMMA ProcessorInit ==
  ASSUME Init
  PROVE  ProcessorInv
<1>1. SegmentInv
  <2>1. NoDescriptor \in Descriptor
    BY NullBytes
  <2> QED
    BY <2>1 DEF Init, SegmentInv, Segments
<1>2. SelectorInv
  BY DEF Init, SelectorInv, Selectors, Segments, Gdtr, DataRegs, CodeReg
<1>3. GateInv
  BY DEF Init, GateInv, Gates, CodeReg, DataRegs, Gdtr, Selectors, Segments
<1>4. PicInv
  BY DEF Init, PicInv, Masked, Idtr, Pics, Gates, CodeReg, DataRegs, Gdtr, Selectors, Segments
<1> QED
  BY <1>1, <1>2, <1>3, <1>4 DEF ProcessorInv

\* The five assignments, each of which leaves what the earlier ones have built.
LEMMA SegmentStep ==
  ASSUME CountInv, SegmentInv, gdt_entry
  PROVE  SegmentInv'
<1> DEFINE e == GdtEntries[i + 1]
           built == makeDescriptor(compileDescriptor(0, e.limit, e.access, e.gran))
<1>1. /\ pc = "gdt" /\ seg' = [seg EXCEPT ![e.slot] = built]
      /\ pc' = IF i + 1 < Len(GdtEntries) THEN "gdt" ELSE "select"
      /\ i' = IF i + 1 < Len(GdtEntries) THEN i + 1 ELSE 0
  BY DEF gdt_entry, Go
<1>2. i \in 0 .. 4 /\ Len(GdtEntries) = 5
  BY <1>1 DEF CountInv, GdtEntries
<1>3. CASE i = 0
  <2>1. e = [slot |-> 0, limit |-> 0, access |-> 0, gran |-> 0]
    BY <1>3 DEF GdtEntries
  <2>2. e.slot = 0 /\ built \in Descriptor
    BY <2>1, NullBytes DEF NoDescriptor
  <2> HIDE DEF e, built
  <2> QED
    BY <1>1, <1>2, <1>3, <2>2 DEF SegmentInv, Segments, Slots
<1>4. CASE i = 1
  <2>1. e = [slot |-> 3, limit |-> -1, access |-> 154, gran |-> 207]
    BY <1>4 DEF GdtEntries
  <2>2. e.slot = 3 /\ built \in Descriptor /\ built = Segment(154)
    BY <2>1, SegmentBytes DEF Segment
  <2> HIDE DEF e, built
  <2> QED
    BY <1>1, <1>2, <1>4, <2>2 DEF SegmentInv, Segments, Slots
<1>5. CASE i = 2
  <2>1. e = [slot |-> 4, limit |-> -1, access |-> 146, gran |-> 207]
    BY <1>5 DEF GdtEntries
  <2>2. e.slot = 4 /\ built \in Descriptor /\ built = Segment(146)
    BY <2>1, SegmentBytes DEF Segment
  <2> HIDE DEF e, built
  <2> QED
    BY <1>1, <1>2, <1>5, <2>2 DEF SegmentInv, Segments, Slots
<1>6. CASE i = 3
  <2>1. e = [slot |-> 1, limit |-> -1, access |-> 250, gran |-> 207]
    BY <1>6 DEF GdtEntries
  <2>2. e.slot = 1 /\ built \in Descriptor
    BY <2>1, SegmentBytes DEF Segment
  <2> HIDE DEF e, built
  <2> QED
    BY <1>1, <1>2, <1>6, <2>2 DEF SegmentInv, Segments, Slots
<1>7. CASE i = 4
  <2>1. e = [slot |-> 2, limit |-> -1, access |-> 242, gran |-> 207]
    BY <1>7 DEF GdtEntries
  <2>2. e.slot = 2 /\ built \in Descriptor /\ built = Segment(242)
    BY <2>1, SegmentBytes DEF Segment
  <2> HIDE DEF e, built
  <2> QED
    BY <1>1, <1>2, <1>7, <2>2 DEF SegmentInv, Segments, Slots
<1> QED
  BY <1>2, <1>3, <1>4, <1>5, <1>6, <1>7

\* The eleven writes of PIC_remap.
Ports ==
  << Out("master", "command", 17), Out("slave", "command", 17),
     Out("master", "data", 32), Out("slave", "data", 40),
     Out("master", "data", 4), Out("slave", "data", 2),
     Out("master", "data", 1), Out("slave", "data", 1),
     Out("master", "data", 255), Out("master", "data", 0),
     Out("slave", "data", 0) >>

\* The word that follows the first is the offset.
LEMMA FirstWord ==
  ASSUME NEW n \in Int, NEW value \in Int
  PROVE  Written([stage |-> 2, offset |-> n, mask |-> 0], "data", value) =
           [stage |-> 3, offset |-> value, mask |-> 0]
<1> DEFINE c == [stage |-> 2, offset |-> n, mask |-> 0]
           d == [stage |-> 3, offset |-> n, mask |-> 0]
<1>1. [c EXCEPT !.stage = 3] = d /\ c.stage = 2
  OBVIOUS
<1>2. [d EXCEPT !.offset = value] = [stage |-> 3, offset |-> value, mask |-> 0]
  OBVIOUS
<1> HIDE DEF c, d
<1>3. Written(c, "data", value) = [[c EXCEPT !.stage = 3] EXCEPT !.offset = value]
  BY <1>1, SMT DEF Written
<1> QED
  BY <1>1, <1>2, <1>3 DEF c

\* One after the other, they leave the controllers in operation, with their first lines
\* at the two offsets and the masks they had.
LEMMA Remap ==
  ASSUME pic = [master |-> Controller(8), slave |-> Controller(112)]
  PROVE  PIC_remap(32, 40) = [master |-> Controller(32), slave |-> Controller(40)]
<1> DEFINE C(stage, offset, mask) == [stage |-> stage, offset |-> offset, mask |-> mask]
           P(m, s) == [master |-> m, slave |-> s]
           states ==
             << P(C(0, 8, 0), C(0, 112, 0)),
                P(C(2, 8, 0), C(0, 112, 0)),
                P(C(2, 8, 0), C(2, 112, 0)),
                P(C(3, 32, 0), C(2, 112, 0)),
                P(C(3, 32, 0), C(3, 40, 0)),
                P(C(4, 32, 0), C(3, 40, 0)),
                P(C(4, 32, 0), C(4, 40, 0)),
                P(C(0, 32, 0), C(4, 40, 0)),
                P(C(0, 32, 0), C(0, 40, 0)),
                P(C(0, 32, 255), C(0, 40, 0)),
                P(C(0, 32, 0), C(0, 40, 0)),
                P(C(0, 32, 0), C(0, 40, 0)) >>
           then(p, w) == [p EXCEPT ![w.unit] = Written(@, w.port, w.value)]
           Rec(f) == f = [k \in 0 .. 11 |-> IF k = 0 THEN pic ELSE then(f[k - 1], Ports[k])]
           run   == [k \in 0 .. 11 |-> states[k + 1]]
           after == CHOOSE f : Rec(f)
<1>1. PIC_remap(32, 40) = after[11]
  <2>1. PIC_remap(32, 40) = OutPorts(pic, Ports)
    BY DEF PIC_remap, Controller, Ports
  <2>2. Len(Ports) = 11
    BY DEF Ports
  <2> QED
    BY <2>1, <2>2 DEF OutPorts
<1>2. \A k \in 1 .. 11 : states[k + 1] = then(states[k], Ports[k])
  <2>12. Written(C(2, 8, 0), "data", 32) = C(3, 32, 0)
    BY FirstWord
  <2>13. Written(C(2, 112, 0), "data", 40) = C(3, 40, 0)
    BY FirstWord
  <2> USE DEF Ports, Out
  <2>1. states[2] = then(states[1], Ports[1])
    BY DEF Written
  <2>2. states[3] = then(states[2], Ports[2])
    BY DEF Written
  <2>3. states[4] = then(states[3], Ports[3])
    BY <2>12
  <2>4. states[5] = then(states[4], Ports[4])
    BY <2>13
  <2>5. states[6] = then(states[5], Ports[5])
    BY DEF Written
  <2>6. states[7] = then(states[6], Ports[6])
    BY DEF Written
  <2>7. states[8] = then(states[7], Ports[7])
    BY DEF Written
  <2>8. states[9] = then(states[8], Ports[8])
    BY DEF Written
  <2>9. states[10] = then(states[9], Ports[9])
    BY DEF Written
  <2>10. states[11] = then(states[10], Ports[10])
    BY DEF Written
  <2>11. states[12] = then(states[11], Ports[11])
    BY DEF Written
  <2> HIDE DEF states, then, Ports, Written
  <2> QED
    BY <2>1, <2>2, <2>3, <2>4, <2>5, <2>6, <2>7, <2>8, <2>9, <2>10, <2>11
<1>3. states[1] = pic /\ states[12] = P(C(0, 32, 0), C(0, 40, 0))
  BY DEF Controller
<1>4. Rec(run)
  <2> HIDE DEF states, then
  <2> QED BY <1>2, <1>3
<1>5. Rec(after)
  <2> HIDE DEF Rec, run
  <2> QED BY <1>4
<1>6. \A k \in 0 .. 11 : after[k] = states[k + 1]
  <2>1. after[0] = pic /\ \A k \in 1 .. 11 : after[k] = then(after[k - 1], Ports[k])
    <3> HIDE DEF after, then
    <3> QED BY <1>5
  <2> HIDE DEF after, then, states
  <2>2. after[0] = states[1]
    BY <1>3, <2>1
  <2>3. after[1] = states[2]
    BY <1>2, <2>1, <2>2
  <2>4. after[2] = states[3]
    BY <1>2, <2>1, <2>3
  <2>5. after[3] = states[4]
    BY <1>2, <2>1, <2>4
  <2>6. after[4] = states[5]
    BY <1>2, <2>1, <2>5
  <2>7. after[5] = states[6]
    BY <1>2, <2>1, <2>6
  <2>8. after[6] = states[7]
    BY <1>2, <2>1, <2>7
  <2>9. after[7] = states[8]
    BY <1>2, <2>1, <2>8
  <2>10. after[8] = states[9]
    BY <1>2, <2>1, <2>9
  <2>11. after[9] = states[10]
    BY <1>2, <2>1, <2>10
  <2>12. after[10] = states[11]
    BY <1>2, <2>1, <2>11
  <2>13. after[11] = states[12]
    BY <1>2, <2>1, <2>12
  <2> QED
    BY <2>2, <2>3, <2>4, <2>5, <2>6, <2>7, <2>8, <2>9, <2>10, <2>11, <2>12, <2>13
<1> HIDE DEF after, states
<1> QED
  BY <1>1, <1>3, <1>6 DEF Controller

\* Past the loading of the code segment nothing touches the segments, nor, past
\* idt_flush, anything of the processor.
LEMMA GdtStep ==
  ASSUME CountInv, ProcessorInv, init_gdt
  PROVE  ProcessorInv'
<1> USE DEF ProcessorInv
<1>1. CASE gdt_entry
  <2>1. /\ pc = "gdt" /\ pc' \in {"gdt", "select"}
        /\ UNCHANGED <<gdtLoaded, codeSelector, dataSelector, cs, ds, idt_seg,
                       custom_handlers, idtLoaded, interruptsOn, pic>>
    BY <1>1 DEF gdt_entry, Go, idtVars
  <2>2. SelectorInv'
    BY <2>1 DEF SelectorInv, Selectors, Segments, Gdtr, DataRegs, CodeReg
  <2>3. GateInv'
    BY <2>1 DEF GateInv, Gates, CodeReg, DataRegs, Gdtr, Selectors, Segments
  <2>4. PicInv'
    BY <2>1 DEF PicInv, Masked, Idtr, Pics, Gates, CodeReg, DataRegs, Gdtr, Selectors, Segments
  <2> QED
    BY <1>1, <2>2, <2>3, <2>4, SegmentStep
<1>2. CASE gdt_select \/ lgdt \/ load_ds \/ load_cs
  <2>1. /\ pc \in {"select", "lgdt", "load_ds", "load_cs"} /\ i = 0
        /\ pc' \in {"lgdt", "load_ds", "load_cs", "idt"} /\ i' = i
        /\ UNCHANGED <<seg, idt_seg, custom_handlers, idtLoaded, interruptsOn, pic>>
    BY <1>2 DEF gdt_select, lgdt, load_ds, load_cs, Go, idtVars, CountInv
  <2>2. SegmentInv'
    BY <2>1 DEF SegmentInv, Segments
  <2>3. SelectorInv'
    <3> USE DEF SelectorInv, Selectors, Segments, Gdtr, DataRegs, CodeReg, Go
    <3>1. CASE gdt_select
      BY <3>1, SelectorValues DEF gdt_select
    <3>2. CASE lgdt
      BY <3>2 DEF lgdt
    <3>3. CASE load_ds
      BY <3>3 DEF load_ds
    <3>4. CASE load_cs
      BY <3>4 DEF load_cs
    <3> QED
      BY <1>2, <3>1, <3>2, <3>3, <3>4
  <2>4. GateInv'
    <3>1. \A n \in Vectors : ~ (n < 0)
      BY DEF Vectors, handlersCount
    <3> QED
      BY <2>1, <3>1 DEF GateInv, Gates, CodeReg, DataRegs, Gdtr, Selectors, Segments
  <2>5. PicInv'
    BY <2>1 DEF PicInv, Masked, Idtr, Pics, Gates, CodeReg, DataRegs, Gdtr, Selectors, Segments
  <2> QED
    BY <2>2, <2>3, <2>4, <2>5
<1> QED
  BY <1>1, <1>2 DEF init_gdt

LEMMA IdtStep ==
  ASSUME CountInv, ProcessorInv, init_idt
  PROVE  ProcessorInv'
<1> USE DEF ProcessorInv
<1>1. /\ pc \in {"idt", "pic", "lidt", "sti"}
      /\ pc' \in {"idt", "pic", "lidt", "sti", "catalog"}
      /\ UNCHANGED gdtVars
  BY DEF init_idt, idt_entry, pic_remap, lidt, sti, Go
<1>2. SegmentInv'
  BY <1>1 DEF SegmentInv, Segments, gdtVars
<1>3. SelectorInv'
  BY <1>1 DEF SelectorInv, Selectors, Segments, Gdtr, DataRegs, CodeReg, gdtVars
<1>4. GateInv'
  <2>1. CASE idt_entry
    <3>1. /\ pc = "idt" /\ i \in Vectors
          /\ \/ i + 1 < handlersCount /\ pc' = "idt" /\ i' = i + 1
             \/ i + 1 >= handlersCount /\ pc' = "pic"
          /\ custom_handlers' = [custom_handlers EXCEPT ![i] = Handler(i)]
          /\ idt_seg' = [idt_seg EXCEPT ![i] = Gate(i)]
      <4>1. pc = "idt" /\ i \in Vectors
        BY <2>1 DEF idt_entry, Go, CountInv
      <4>2. i \in 0 .. 47 /\ handlersCount = 48
        BY <4>1 DEF Vectors, handlersCount
      <4>3. \/ i + 1 < handlersCount /\ pc' = "idt" /\ i' = i + 1
            \/ i + 1 >= handlersCount /\ pc' = "pic"
        BY <2>1, <4>2 DEF idt_entry, Go
      <4>4. custom_handlers' = [custom_handlers EXCEPT ![i] = Handler(i)]
        BY <2>1 DEF idt_entry, Handler
      <4>5. idt_seg' = [idt_seg EXCEPT ![i] = Gate(i)]
        BY <2>1, SelectorValues DEF idt_entry, Gate
      <4> QED
        BY <4>1, <4>3, <4>4, <4>5
    <3>2. handlersCount = 48 /\ Vectors = 0 .. 47
      BY DEF Vectors, handlersCount
    <3>3. ASSUME NEW n \in Vectors, pc' \notin Gates \/ (pc' = "idt" /\ n < i')
          PROVE  idt_seg'[n] = Gate(n) /\ custom_handlers'[n] = Handler(n)
      <4>1. n = i \/ n < i
        <5>1. "idt" \in Gates
          BY DEF Gates
        <5> QED
          BY <3>1, <3>2, <3>3, <5>1
      <4> QED
        BY <3>1, <4>1 DEF GateInv
    <3>4. DOMAIN idt_seg' = Vectors /\ DOMAIN custom_handlers' = Vectors
      BY <3>1 DEF GateInv
    <3> QED
      BY <3>3, <3>4 DEF GateInv
  <2>2. CASE pic_remap \/ lidt \/ sti
    <3>1. /\ pc \in {"pic", "lidt", "sti"} /\ pc' \in {"lidt", "sti", "catalog"}
          /\ UNCHANGED <<idt_seg, custom_handlers>>
      BY <2>2 DEF pic_remap, lidt, sti, Go
    <3> QED
      BY <3>1 DEF GateInv, Gates, CodeReg, DataRegs, Gdtr, Selectors, Segments
  <2> QED
    BY <2>1, <2>2 DEF init_idt
<1>5. PicInv'
  <2> USE DEF PicInv, Masked, Idtr, Pics, Gates, CodeReg, DataRegs, Gdtr, Selectors,
              Segments, Go
  <2>1. CASE idt_entry
    BY <2>1 DEF idt_entry
  <2>2. CASE pic_remap
    <3>1. pic = [master |-> Controller(8), slave |-> Controller(112)]
      BY <2>2 DEF pic_remap
    <3> QED
      BY <2>2, <3>1, Remap DEF pic_remap
  <2>3. CASE lidt
    BY <2>3 DEF lidt
  <2>4. CASE sti
    BY <2>4 DEF sti
  <2> QED
    BY <2>1, <2>2, <2>3, <2>4 DEF init_idt
<1> QED
  BY <1>2, <1>3, <1>4, <1>5

\* What comes later.
Later == Labels \ Masked

LEMMA ProcessorStep ==
  ASSUME CountInv, ProcessorInv, [Next]_vars
  PROVE  ProcessorInv'
<1> USE DEF ProcessorInv
<1>1. CASE init_gdt \/ init_idt
  BY <1>1, GdtStep, IdtStep
<1>2. CASE init_directory \/ print_map \/ test_paging
  <2>1. /\ pc \in Later /\ pc' \in Later
        /\ UNCHANGED <<gdtVars, idtVars>>
    <3> USE DEF Later, Labels, Masked, Idtr, Pics, Gates, CodeReg, DataRegs, Gdtr, Selectors,
                Segments, Go
    <3>1. CASE init_directory
      BY <3>1 DEF init_directory, catalog_entry, table_entry, enable_paging
    <3>2. CASE print_map
      BY <3>2 DEF print_map
    <3>3. CASE test_paging
      BY <3>3 DEF test_paging, t_page, t_copy, t_write, t_first, t_remap, t_second, Test
    <3> QED
      BY <1>2, <3>1, <3>2, <3>3
  <2>2. SegmentInv'
    BY <2>1 DEF SegmentInv, gdtVars, Later, Masked, Idtr, Pics, Gates, CodeReg, DataRegs, Gdtr,
                Selectors, Segments
  <2>3. SelectorInv'
    BY <2>1 DEF SelectorInv, gdtVars, Later, Masked, Idtr, Pics, Gates, CodeReg, DataRegs, Gdtr,
                Selectors, Segments
  <2>4. GateInv'
    BY <2>1 DEF GateInv, idtVars, Later, Masked, Idtr, Pics, Gates, CodeReg, DataRegs, Gdtr,
                Selectors, Segments
  <2>5. PicInv'
    BY <2>1 DEF PicInv, idtVars, Later, Masked, Idtr, Pics, Gates, CodeReg, DataRegs, Gdtr,
                Selectors, Segments
  <2> QED
    BY <2>2, <2>3, <2>4, <2>5
<1>3. ASSUME UNCHANGED <<pc, i, gdtVars, idtVars>> PROVE ProcessorInv'
  BY <1>3 DEF SegmentInv, SelectorInv, GateInv, PicInv, gdtVars, idtVars
<1>4. CASE \E n \in Vectors, x \in ScanCodes : irq_handler(n, x)
  BY <1>3, <1>4 DEF irq_handler
<1>5. CASE UNCHANGED vars
  BY <1>3, <1>5 DEF vars
<1> QED
  BY <1>1, <1>2, <1>4, <1>5 DEF Next

LEMMA CountStep ==
  ASSUME BootInv, CountInv, [Next]_vars
  PROVE  CountInv'
<1>1. ASSUME UNCHANGED <<pc, i, j, pagingVars, testVars, mmap>> PROVE CountInv'
  BY <1>1 DEF CountInv, Tested, pagingVars, testVars
<1>2. CASE \E n \in Vectors, x \in ScanCodes : irq_handler(n, x)
  BY <1>1, <1>2 DEF irq_handler
<1>3. CASE UNCHANGED vars
  BY <1>1, <1>3 DEF vars
<1> QED
  BY <1>2, <1>3, CountEarly, CountTables, CountTest DEF Next

LEMMA CountInit ==
  ASSUME Init
  PROVE  CountInv
<1>1. /\ pc \in Labels /\ i \in Nat /\ j \in Entries
      /\ pc = "gdt" /\ i = 0 /\ Len(y) = 0
  BY TableSizeAssumption DEF Init, Labels, Entries
<1>2. paging \in BOOLEAN /\ newPage \in Nat /\ current \in [Pages -> Nat]
  BY DEF Init
<1> QED
  BY <1>1, <1>2 DEF CountInv, Tested

LEMMA ProcessorInvariant == Spec => [](BootInv /\ CountInv /\ ProcessorInv)
<1>1. Init => BootInv /\ CountInv /\ ProcessorInv
  BY BootInit, CountInit, ProcessorInit
<1>2. BootInv /\ CountInv /\ ProcessorInv /\ [Next]_vars
        => (BootInv /\ CountInv /\ ProcessorInv)'
  BY BootStep, CountStep, ProcessorStep
<1> QED
  BY <1>1, <1>2, PTL DEF Spec

\* Whatever the size of the tables and the memory map, every variable keeps to its
\* type, and the counters of the loops of init_gdt, init_idt, init_directory and
\* printMultibootInfo stay inside what they index.
THEOREM TypeCorrect == Spec => []TypeOK
<1>1. BootInv /\ CountInv /\ ProcessorInv => TypeOK
  <2> SUFFICES ASSUME BootInv, CountInv, ProcessorInv PROVE TypeOK
    OBVIOUS
  <2>1. /\ pc \in Labels /\ i \in Nat /\ j \in Entries
        /\ pc = "gdt" => i < Len(GdtEntries)
        /\ pc = "idt" => i \in Vectors
        /\ pc \in {"catalog", "table"} => i \in Entries
        /\ pc = "map" => i <= Len(mmap)
    <3>1. Len(GdtEntries) = 5
      BY DEF GdtEntries
    <3> QED
      BY <3>1 DEF CountInv, BootInv, LoopInv
  <2>2. seg \in [Slots -> Descriptor] /\ gdtLoaded \in BOOLEAN
    BY DEF ProcessorInv, SegmentInv, SelectorInv
  <2>3. {codeSelector, dataSelector, cs, ds} \subseteq Int
    BY DEF ProcessorInv, SelectorInv, Loaders
  <2>4. /\ DOMAIN idt_seg = Vectors /\ DOMAIN custom_handlers = Vectors
        /\ idtLoaded \in BOOLEAN /\ interruptsOn \in BOOLEAN
    BY DEF ProcessorInv, GateInv, PicInv
  <2>5. pic.master.stage \in {0, 2, 3, 4} /\ pic.slave.stage \in {0, 2, 3, 4}
    BY DEF ProcessorInv, PicInv, Controller
  <2>6. /\ catalog \in [Entries -> Nat] /\ tables \in [Entries -> [Entries -> Nat]]
        /\ current \in [Pages -> Nat] /\ paging \in BOOLEAN
        /\ newPage \in Nat /\ mem \in [Pages -> {0, 5, 10}]
    BY DEF BootInv, CatalogInv, TablesInv, TestInv, CountInv
  <2>7. Len(y) <= 2
    BY DEF CountInv, Tested
  <2> QED
    BY <2>1, <2>2, <2>3, <2>4, <2>5, <2>6, <2>7 DEF TypeOK
<1> QED
  BY <1>1, ProcessorInvariant, PTL

\* The processor finds what it needs in the segments of init_gdt.
LEMMA SegmentsPicked ==
  ASSUME seg[3] = Segment(154), seg[4] = Segment(146), seg[2] = Segment(242)
  PROVE  Picks(24, KernelCode) /\ Picks(32, Data) /\ Picks(16, Data)
<1>1. SelectorIndex(24) = 3 /\ SelectorIndex(32) = 4 /\ SelectorIndex(16) = 2
  BY DEF SelectorIndex
<1>2. /\ Field(154, 128, 2) = 1 /\ Field(146, 128, 2) = 1 /\ Field(242, 128, 2) = 1
      /\ Field(154, 8, 2) = 1 /\ Field(146, 8, 2) = 0 /\ Field(242, 8, 2) = 0
      /\ Field(154, 32, 4) = 0
  BY DEF Field
<1>3. Flat(seg[3]) /\ Flat(seg[4]) /\ Flat(seg[2])
  BY <1>2, SegmentBytes
<1>4. KernelCode(seg[3]) /\ Data(seg[4]) /\ Data(seg[2])
  <2>1. seg[3][5] = 154 /\ seg[4][5] = 146 /\ seg[2][5] = 242
    BY SegmentBytes
  <2> QED
    BY <1>2, <2>1 DEF KernelCode, Data, Executable, Privilege
<1> QED
  BY <1>1, <1>3, <1>4 DEF Picks, Slots

\* An address of 32 bits survives the two halves of its gate.
LEMMA AddressInGate ==
  ASSUME NEW n \in Vectors
  PROVE  /\ HandlerAddress(n) \in Nat /\ GateBase(Gate(n)) = HandlerAddress(n)
         /\ GateReady(Gate(n)) /\ Gate(n).sel = 24
         /\ (HandlerAddress(n) - HandlersBase) \div HandlerSize = n
<1>1. n \in 0 .. 47 /\ handlersCount = 48
  BY DEF Vectors, handlersCount
<1>2. /\ HandlerAddress(n) \in Nat /\ HandlerAddress(n) \div 65536 < 65536
      /\ (HandlerAddress(n) - HandlersBase) \div HandlerSize = n
  BY <1>1, AddressesAssumption DEF HandlerAddress, HandlerSize
<1>3. \A a \in Nat : a \div 65536 < 65536 =>
        Field(a, 1, 65536) + 65536 * Field(a, 65536, 65536) = a
  BY DEF Field
<1>4. /\ Gate(n).base_1 = Field(HandlerAddress(n), 1, 65536)
      /\ Gate(n).base_2 = Field(HandlerAddress(n), 65536, 65536)
      /\ Gate(n).sel = 24 /\ Gate(n).always0 = 0 /\ Gate(n).flags = 142
  BY DEF Gate, idt_set
<1>5. Field(142, 128, 2) = 1 /\ 142 % 16 = 14
  BY DEF Field
<1> QED
  BY <1>2, <1>3, <1>4, <1>5 DEF GateBase, GateReady

LEMMA SevenWords ==
  ASSUME NEW a \in Int, NEW b \in Int, NEW n \in Int, NEW zero \in Int,
         NEW e \in Int, NEW c \in Int, NEW f \in Int
  PROVE  LET s == <<a, b>> \o <<n, zero>> \o <<>> \o <<e, c, f>>
         IN s[1] = a /\ s[2] = b /\ s[3] = n /\ s[5] = e /\ s[6] = c /\ s[7] = f
OBVIOUS

\* Where the words of the frame lie: the handler's two pushes, the later one first,
\* lie between what the stub pushes and what the processor has pushed.
LEMMA FrameWords ==
  ASSUME NEW n \in Vectors, NEW d \in Int, NEW c \in Int
  PROVE  Resumed(<<d, Registers>> \o Reverse(<<0, n>>) \o <<>> \o <<Eip, c, Eflags>>) =
           [ds |-> d, registers |-> Registers, int_no |-> n, eip |-> Eip, cs |-> c,
            eflags |-> Eflags]
<1> DEFINE s == <<d, Registers>> \o <<n, 0>> \o <<>> \o <<Eip, c, Eflags>>
<1>1. n \in Int /\ Registers \in Int /\ Eip \in Int /\ Eflags \in Int
  BY DEF Vectors, Registers, Eip, Eflags
<1>2. Reverse(<<0, n>>) = <<n, 0>>
  BY DEF Reverse
<1>3. s[1] = d /\ s[2] = Registers /\ s[3] = n /\ s[5] = Eip /\ s[6] = c /\ s[7] = Eflags
  BY <1>1, SevenWords
<1> HIDE DEF s
<1>4. Resumed(s) = [ds |-> d, registers |-> Registers, int_no |-> n, eip |-> Eip, cs |-> c,
                    eflags |-> Eflags]
  BY <1>3 DEF Resumed
<1> QED
  BY <1>2, <1>4 DEF s

\* Where interrupts are on, the tables are complete.
LEMMA TablesServeInterrupts ==
  ASSUME CountInv, ProcessorInv
  PROVE  InterruptsReturn
<1> SUFFICES ASSUME interruptsOn PROVE InterruptsReturn
  BY DEF InterruptsReturn
<1>1. pc \notin Masked
  BY DEF ProcessorInv, PicInv
<1>2. /\ pc \notin Segments /\ pc \notin Selectors /\ pc \notin Gdtr /\ pc \notin DataRegs
      /\ pc \notin CodeReg /\ pc \notin Gates /\ pc \notin Pics /\ pc \notin Idtr
  BY <1>1 DEF Masked, Idtr, Pics, Gates, CodeReg, DataRegs, Gdtr, Selectors
<1>3. gdtLoaded /\ idtLoaded /\ cs = 24 /\ ds = 32
  BY <1>2 DEF ProcessorInv, SelectorInv, PicInv
<1>4. Picks(24, KernelCode) /\ Picks(32, Data) /\ Picks(16, Data)
  BY <1>2, SegmentsPicked DEF ProcessorInv, SegmentInv
<1>5. ASSUME NEW n \in Vectors, ~PushesErrorCode(n)
      PROVE  /\ GateReady(idt_seg[n]) /\ Picks(idt_seg[n].sel, KernelCode)
             /\ GateBase(idt_seg[n]) = HandlerAddress(n) /\ JumpTarget(n) = StubAddress
             /\ Resumed(FrameOf(n)) = [ds |-> ds, registers |-> Registers, int_no |-> n,
                                       eip |-> Eip, cs |-> cs, eflags |-> Eflags]
  <2>1. idt_seg[n] = Gate(n) /\ custom_handlers[n] = Handler(n)
    BY <1>2 DEF ProcessorInv, GateInv
  <2>2. /\ HandlerAddress(n) \in Nat /\ GateBase(idt_seg[n]) = HandlerAddress(n)
        /\ GateReady(idt_seg[n]) /\ idt_seg[n].sel = 24 /\ HandlerOf(n) = n
    BY <2>1, AddressInGate DEF HandlerOf
  <2>3. /\ custom_handlers[n].pushes = <<0, n>>
        /\ custom_handlers[n].opJmpArg = StubAddress - (HandlerAddress(n) + NopOffset)
    BY <2>1 DEF Handler, makeCustomHandler
  <2>4. JumpTarget(n) = StubAddress
    BY <2>2, <2>3, AddressesAssumption DEF JumpTarget, NopOffset
  <2>5. FrameOf(n) = <<ds, Registers>> \o Reverse(<<0, n>>) \o <<>> \o <<Eip, cs, Eflags>>
    BY <1>5, <2>2, <2>3 DEF FrameOf
  <2> QED
    BY <1>3, <1>4, <2>2, <2>4, <2>5, FrameWords
<1>6. ASSUME NEW line \in 0 .. 15 PROVE VectorOf(line) \in 32 .. handlersCount - 1
  <2>1. pic.master.offset = 32 /\ pic.slave.offset = 40
    BY <1>2 DEF ProcessorInv, PicInv, Controller
  <2> QED
    BY <2>1 DEF VectorOf, handlersCount
<1> QED
  BY <1>3, <1>4, <1>5, <1>6 DEF InterruptsReturn

\* For every address of the kernel: as soon as interrupts are on, an interrupt or
\* exception without an error code, of any vector, finds its gate, its handler, the
\* stub and flat segments, carries its own number and returns to what it interrupted.
THEOREM InterruptsComeBack == Spec => []InterruptsReturn
BY TablesServeInterrupts, ProcessorInvariant, PTL

(***************************************************************************)
(* The conversions. Recursive functions exist: the iterations of a step    *)
(* define one, and it is the only one.                                     *)
(***************************************************************************)

IsStep(V, v, step) == v \in V /\ step \in [Nat -> [V -> V]]

IsIteration(f, V, v, step) ==
  f \in [Nat -> V] /\ f[0] = v /\ \A k \in Nat : f[k + 1] = step[k][f[k]]

Iterates(n, f, v, step) == f[0] = v /\ \A k \in 0 .. n - 1 : f[k + 1] = step[k][f[k]]

LEMMA IterationExists ==
  ASSUME NEW V, NEW v, NEW step, IsStep(V, v, step)
  PROVE  \E f : IsIteration(f, V, v, step)
<1>0. v \in V /\ step \in [Nat -> [V -> V]]
  BY DEF IsStep
<1> USE <1>0
<1>1. \A n \in Nat : \E f \in [Nat -> V] : Iterates(n, f, v, step)
  <2> DEFINE S == {n \in Nat : ~ \E f \in [Nat -> V] : Iterates(n, f, v, step)}
  <2> SUFFICES ASSUME S # {} PROVE FALSE
    OBVIOUS
  <2>1. PICK n \in S : \A l \in S : n <= l
    <3> S \in SUBSET Nat
      OBVIOUS
    <3> HIDE DEF S
    <3> QED BY LeastNat
  <2>2. n # 0
    <3>1. Iterates(0, [k \in Nat |-> v], v, step)
      BY DEF Iterates
    <3> QED
      BY <3>1
  <2>3. PICK f \in [Nat -> V] : Iterates(n - 1, f, v, step)
    <3>1. n - 1 \in Nat /\ n - 1 \notin S
      BY <2>1, <2>2
    <3> QED
      BY <3>1
  <2> DEFINE g == [f EXCEPT ![n] = step[n - 1][f[n - 1]]]
  <2>4. g \in [Nat -> V] /\ Iterates(n, g, v, step)
    BY <2>2, <2>3 DEF Iterates
  <2> QED
    BY <2>4
<1>2. ASSUME NEW n \in Nat, NEW l \in Nat, n <= l, NEW f \in [Nat -> V], NEW g \in [Nat -> V],
             Iterates(n, f, v, step), Iterates(l, g, v, step)
      PROVE  f[n] = g[n]
  <2> DEFINE S == {k \in Nat : k <= n /\ f[k] # g[k]}
  <2> SUFFICES ASSUME S # {} PROVE FALSE
    OBVIOUS
  <2>1. PICK k \in S : \A o \in S : k <= o
    <3> S \in SUBSET Nat
      OBVIOUS
    <3> HIDE DEF S
    <3> QED BY LeastNat
  <2>2. k # 0
    BY <1>2 DEF Iterates
  <2>3. f[k - 1] = g[k - 1] /\ k - 1 \in 0 .. n - 1 /\ k - 1 \in 0 .. l - 1
    <3>1. k - 1 \in Nat /\ k - 1 \notin S
      BY <2>1, <2>2
    <3> QED
      BY <1>2, <3>1
  <2> QED
    BY <1>2, <2>3 DEF Iterates
<1> DEFINE part(n) == CHOOSE f \in [Nat -> V] : Iterates(n, f, v, step)
           F == [n \in Nat |-> part(n)[n]]
<1>3. \A n \in Nat : part(n) \in [Nat -> V] /\ Iterates(n, part(n), v, step)
  BY <1>1
<1> HIDE DEF part
<1>4. F \in [Nat -> V] /\ F[0] = v
  BY <1>3 DEF Iterates
<1>5. ASSUME NEW k \in Nat PROVE F[k + 1] = step[k][F[k]]
  <2>1. /\ part(k) \in [Nat -> V] /\ Iterates(k, part(k), v, step)
        /\ part(k + 1) \in [Nat -> V] /\ Iterates(k + 1, part(k + 1), v, step)
    BY <1>3
  <2>2. Iterates(k, part(k + 1), v, step)
    BY <2>1 DEF Iterates
  <2>3. part(k + 1)[k] = F[k]
    BY <1>2, <2>1, <2>2
  <2> QED
    BY <2>1, <2>3 DEF Iterates
<1> QED
  BY <1>4, <1>5 DEF IsIteration

(* Texts of digits *)
LEMMA ReadingDef ==
  ASSUME NEW text \in Seq(Int)
  PROVE  /\ Reading(text) \in [0 .. Len(text) -> Int] /\ Reading(text)[0] = 0
         /\ \A k \in 1 .. Len(text) :
              Reading(text)[k] = 10 * Reading(text)[k - 1] + (text[k] - Zero)
<1> DEFINE then(n, c) == 10 * n + (c - Zero)
           Rec(v) == v = [k \in 0 .. Len(text) |-> IF k = 0 THEN 0 ELSE then(v[k - 1], text[k])]
           step == [k \in Nat |-> [n \in Int |->
                      IF k < Len(text) THEN then(n, text[k + 1]) ELSE 0]]
<1>1. IsStep(Int, 0, step)
  BY DEF Zero, IsStep
<1>2. \E f : IsIteration(f, Int, 0, step)
  <2> HIDE DEF step
  <2> QED BY <1>1, IterationExists
<1> HIDE DEF step
<1>3. PICK f \in [Nat -> Int] : f[0] = 0 /\ \A k \in Nat : f[k + 1] = step[k][f[k]]
  BY <1>2 DEF IsIteration
<1> DEFINE g == [k \in 0 .. Len(text) |-> f[k]]
<1>4. \A k \in 1 .. Len(text) : f[k] = then(f[k - 1], text[k])
  <2> SUFFICES ASSUME NEW k \in 1 .. Len(text) PROVE f[k] = then(f[k - 1], text[k])
    OBVIOUS
  <2>1. k - 1 \in Nat /\ (k - 1) + 1 = k /\ k - 1 < Len(text)
    OBVIOUS
  <2>2. f[k] = step[k - 1][f[k - 1]] /\ f[k - 1] \in Int
    BY <1>3, <2>1
  <2> HIDE DEF then
  <2>3. step[k - 1][f[k - 1]] = then(f[k - 1], text[k])
    BY <2>1, <2>2 DEF step
  <2> QED
    BY <2>2, <2>3
<1> DEFINE D == 0 .. Len(text)
<1>5. g \in [D -> Int] /\ g[0] = 0 /\ \A k \in 1 .. Len(text) : g[k] = then(g[k - 1], text[k])
  <2>1. /\ g \in [D -> Int] /\ g[0] = f[0]
        /\ \A k \in 1 .. Len(text) : g[k] = f[k] /\ g[k - 1] = f[k - 1]
    OBVIOUS
  <2> HIDE DEF g, then
  <2> QED BY <1>3, <1>4, <2>1
<1> HIDE DEF then
<1>6. Rec(g)
  <2>1. g = [k \in D |-> g[k]] /\ \A k \in D : k = 0 \/ k \in 1 .. Len(text)
    OBVIOUS
  <2>2. \A k \in D : g[k] = IF k = 0 THEN 0 ELSE then(g[k - 1], text[k])
    <3> HIDE DEF g, D
    <3> QED BY <1>5, <2>1
  <2> HIDE DEF g
  <2> QED BY <2>1, <2>2
<1>7. Reading(text) = CHOOSE v : Rec(v)
  BY DEF Reading, then
<1>8. Rec(Reading(text))
  <2> HIDE DEF Rec
  <2> QED BY <1>6, <1>7
<1>9. \A v : Rec(v) => v = g
  <2> SUFFICES ASSUME NEW v, Rec(v) PROVE v = g
    OBVIOUS
  <2> DEFINE S == {k \in Nat : k <= Len(text) /\ v[k] # g[k]}
  <2>1. v[0] = 0 /\ \A k \in 1 .. Len(text) : v[k] = then(v[k - 1], text[k])
    <3> DEFINE b == [k \in D |-> IF k = 0 THEN 0 ELSE then(v[k - 1], text[k])]
    <3>1. v = b
      OBVIOUS
    <3>2. 0 \in D /\ \A k \in 1 .. Len(text) : k \in D /\ k # 0
      OBVIOUS
    <3> HIDE DEF D
    <3>3. b[0] = 0 /\ \A k \in 1 .. Len(text) : b[k] = then(v[k - 1], text[k])
      BY <3>2
    <3> HIDE DEF b
    <3> QED BY <3>1, <3>3
  <2>2. v = [k \in D |-> v[k]]
    OBVIOUS
  <2> HIDE DEF Rec, g
  <2>3. ASSUME S # {} PROVE FALSE
    <3>1. PICK k \in S : \A o \in S : k <= o
      <4> S \in SUBSET Nat
        OBVIOUS
      <4> HIDE DEF S
      <4> QED BY <2>3, LeastNat
    <3>2. k # 0
      BY <1>5, <2>1
    <3>3. k - 1 \in Nat /\ k - 1 \notin S
      BY <3>1, <3>2
    <3> QED
      BY <1>5, <2>1, <3>2, <3>3
  <2>4. \A k \in D : v[k] = g[k]
    BY <2>3
  <2>5. g = [k \in D |-> g[k]]
    BY <1>5
  <2> QED
    BY <2>2, <2>4, <2>5
<1>10. Reading(text) = g
  BY <1>8, <1>9
<1> HIDE DEF g
<1> QED
  BY <1>5, <1>10 DEF then

LEMMA DigitsDef ==
  ASSUME NEW room \in Nat, NEW u \in Nat
  PROVE  Digits[room][u] = IF u \div 10 > 0 /\ room - 1 > 0
                           THEN Append(Digits[room - 1][u \div 10], Zero + (u % 10))
                           ELSE <<Zero + (u % 10)>>
<1> DEFINE V == [Nat -> Seq(Int)]
           body(h, r, n) == IF n \div 10 > 0 /\ r - 1 > 0
                            THEN Append(h[n \div 10], Zero + (n % 10)) ELSE <<Zero + (n % 10)>>
           first == [n \in Nat |-> <<Zero + (n % 10)>>]
           step  == [k \in Nat |-> [h \in V |-> [n \in Nat |-> body(h, k + 1, n)]]]
           Rec(d) == d = [r \in Nat |-> [n \in Nat |-> body(d[r - 1], r, n)]]
<1>1. IsStep(V, first, step)
  <2>1. ASSUME NEW h \in V, NEW k \in Nat, NEW n \in Nat PROVE body(h, k + 1, n) \in Seq(Int)
    <3>1. n \div 10 \in Nat /\ Zero + (n % 10) \in Int
      BY DEF Zero
    <3>2. h[n \div 10] \in Seq(Int)
      BY <3>1
    <3> QED
      BY <3>1, <3>2
  <2>2. first \in V
    BY DEF Zero
  <2> HIDE DEF body, first
  <2>3. step \in [Nat -> [V -> V]]
    BY <2>1
  <2> QED
    BY <2>2, <2>3 DEF IsStep
<1>2. \E f : IsIteration(f, V, first, step)
  <2> HIDE DEF step, V, first
  <2> QED BY <1>1, IterationExists
<1>3. PICK f \in [Nat -> V] : f[0] = first /\ \A k \in Nat : f[k + 1] = step[k][f[k]]
  <2> HIDE DEF step, V, first
  <2> QED BY <1>2 DEF IsIteration
<1>4. \A r \in Nat : f[r] = [n \in Nat |-> body(f[r - 1], r, n)]
  <2> SUFFICES ASSUME NEW r \in Nat PROVE f[r] = [n \in Nat |-> body(f[r - 1], r, n)]
    OBVIOUS
  <2>1. CASE r = 0
    <3>1. \A n \in Nat : body(f[r - 1], r, n) = <<Zero + (n % 10)>>
      BY <2>1
    <3>2. f[r] = first
      <4> HIDE DEF first
      <4> QED BY <1>3, <2>1
    <3> HIDE DEF body
    <3> QED BY <3>1, <3>2
  <2>2. CASE r # 0
    <3>1. r - 1 \in Nat /\ (r - 1) + 1 = r
      BY <2>2
    <3>2. f[r - 1] \in V /\ f[r] = step[r - 1][f[r - 1]]
      <4> HIDE DEF step, V
      <4> QED BY <1>3, <3>1
    <3> HIDE DEF body, V
    <3>3. step[r - 1][f[r - 1]] = [n \in Nat |-> body(f[r - 1], r, n)]
      BY <3>1, <3>2
    <3> HIDE DEF step
    <3> QED BY <3>2, <3>3
  <2> QED
    BY <2>1, <2>2
<1>5. Rec(f)
  <2> HIDE DEF body, V
  <2>1. f = [r \in Nat |-> f[r]]
    OBVIOUS
  <2> QED BY <1>4, <2>1
<1>6. Digits = CHOOSE d : Rec(d)
  BY DEF Digits
<1>7. Rec(Digits)
  <2> HIDE DEF Rec
  <2> QED BY <1>5, <1>6
<1>8. Digits[room][u] = body(Digits[room - 1], room, u)
  <2> HIDE DEF body
  <2>1. Digits[room] = [n \in Nat |-> body(Digits[room - 1], room, n)]
    <3> DEFINE b == [r \in Nat |-> [n \in Nat |-> body(Digits[r - 1], r, n)]]
    <3>1. Digits = b
      BY <1>7
    <3>2. b[room] = [n \in Nat |-> body(Digits[room - 1], room, n)]
      OBVIOUS
    <3> HIDE DEF b
    <3> QED BY <3>1, <3>2
  <2> QED
    BY <2>1
<1> QED
  BY <1>8

Tenth(u) == u \div 10
Units(u)  == u % 10
Char(u)  == Zero + (u % 10)

LEMMA LastDigit ==
  ASSUME NEW room \in Nat, NEW u \in Nat, Tenth(u) = 0 \/ room <= 1
  PROVE  Digits[room][u] = <<Char(u)>>
<1>1. ~(u \div 10 > 0 /\ room - 1 > 0)
  BY DEF Tenth
<1> QED
  BY <1>1, DigitsDef DEF Char

LEMMA MoreDigits ==
  ASSUME NEW room \in Nat, NEW less \in Nat, room = less + 1, less # 0,
         NEW u \in Nat, Tenth(u) # 0
  PROVE  Digits[room][u] = Append(Digits[less][Tenth(u)], Char(u))
<1>1. u \div 10 > 0 /\ room - 1 > 0 /\ room - 1 = less
  BY DEF Tenth
<1> QED
  BY <1>1, DigitsDef DEF Char, Tenth

LEMMA DigitsOfOneMore ==
  ASSUME NEW r \in Nat, r # 0, NEW u \in Nat, Tenth(u) # 0
  PROVE  Digits[r + 1][u] = Append(Digits[r][Tenth(u)], Char(u))
<1>1. PICK room \in Nat : room = r + 1
  OBVIOUS
<1>2. Digits[room][u] = Append(Digits[r][Tenth(u)], Char(u))
  BY <1>1, MoreDigits
<1> QED
  BY <1>1, <1>2

DigitChars == Zero .. Zero + 9

\* What the whole of a text says.
Says(text) == Reading(text)[Len(text)]

LEMMA ReadingAppend ==
  ASSUME NEW s \in Seq(Int), NEW c \in Int
  PROVE  Says(Append(s, c)) = 10 * Says(s) + (c - Zero)
<1> DEFINE t == Append(s, c)
           S == {k \in Nat : k <= Len(s) /\ Reading(t)[k] # Reading(s)[k]}
<1>1. t \in Seq(Int) /\ Len(t) = Len(s) + 1 /\ t[Len(s) + 1] = c
      /\ \A k \in 1 .. Len(s) : t[k] = s[k]
  OBVIOUS
<1> HIDE DEF t
<1>2. /\ Reading(s)[0] = 0 /\ Reading(s) \in [0 .. Len(s) -> Int]
      /\ \A k \in 1 .. Len(s) : Reading(s)[k] = 10 * Reading(s)[k - 1] + (s[k] - Zero)
  BY ReadingDef
<1>3. /\ Reading(t)[0] = 0
      /\ \A k \in 1 .. Len(s) + 1 : Reading(t)[k] = 10 * Reading(t)[k - 1] + (t[k] - Zero)
  BY <1>1, ReadingDef
<1>4. ASSUME S # {} PROVE FALSE
  <2>1. PICK k \in S : \A o \in S : k <= o
    <3> S \in SUBSET Nat
      OBVIOUS
    <3> HIDE DEF S
    <3> QED BY <1>4, LeastNat
  <2>2. k # 0 /\ k \in 1 .. Len(s) /\ k \in 1 .. Len(s) + 1
    BY <1>2, <1>3
  <2>3. k - 1 \in Nat /\ k - 1 \notin S
    BY <2>1, <2>2
  <2>4. Reading(t)[k - 1] = Reading(s)[k - 1]
    BY <2>2, <2>3
  <2>5. Reading(t)[k] = 10 * Reading(s)[k - 1] + (s[k] - Zero)
    BY <1>1, <1>3, <2>2, <2>4
  <2> QED
    BY <1>2, <2>2, <2>5
<1>5. Len(s) \in Nat /\ Reading(t)[Len(s)] = Reading(s)[Len(s)]
  BY <1>4
<1>6. Reading(t)[Len(s) + 1] = 10 * Reading(t)[Len(s)] + (c - Zero)
  <2>1. Len(s) + 1 \in 1 .. Len(s) + 1 /\ (Len(s) + 1) - 1 = Len(s)
    BY <1>5
  <2> QED
    BY <1>1, <1>3, <2>1
<1> QED
  BY <1>1, <1>5, <1>6 DEF Says, t

LEMMA ReadingOne ==
  ASSUME NEW c \in Int
  PROVE  Says(<<c>>) = c - Zero
<1> DEFINE t == <<c>>
<1>1. t \in Seq(Int) /\ Len(t) = 1 /\ t[1] = c
  OBVIOUS
<1> HIDE DEF t
<1>2. 1 \in 1 .. Len(t) /\ 1 - 1 = 0
  BY <1>1
<1>3. Reading(t)[0] = 0 /\ Reading(t)[1] = 10 * Reading(t)[0] + (t[1] - Zero)
  BY <1>1, <1>2, ReadingDef
<1>4. Says(t) = c - Zero
  BY <1>1, <1>3 DEF Says, Zero
<1> QED
  BY <1>4 DEF t

LEMMA SaysInt ==
  ASSUME NEW s \in Seq(Int)
  PROVE  Says(s) \in Int
BY ReadingDef DEF Says

LEMMA AtoiOfDigits ==
  ASSUME NEW s \in Seq(DigitChars)
  PROVE  atoi(s) = Says(s)
<1> DEFINE All(k) == /\ \A o \in 1 .. k : s[o] \in DigitChars
                     /\ k = Len(s) \/ ~(s[k + 1] \in DigitChars)
<1>1. Len(s) \in 0 .. Len(s) /\ All(Len(s))
  OBVIOUS
<1>2. ASSUME NEW k \in 0 .. Len(s), All(k) PROVE k = Len(s)
  <2>1. k = Len(s) \/ k + 1 \in 1 .. Len(s)
    OBVIOUS
  <2> QED
    BY <1>2, <2>1
<1>3. atoi(s) = Reading(s)[CHOOSE k \in 0 .. Len(s) : All(k)]
  BY DEF atoi, DigitChars
<1>4. (CHOOSE k \in 0 .. Len(s) : All(k)) = Len(s)
  <2> HIDE DEF All
  <2> QED BY <1>1, <1>2
<1> QED
  BY <1>3, <1>4 DEF Says

\* The text of u where there is room for r digits.
IsText(d, r, u) == d \in Seq(DigitChars) /\ Len(d) \in 1 .. r /\ Says(d) = u

LEMMA TextOf ==
  ASSUME NEW r \in Nat, NEW d, NEW u, IsText(d, r, u)
  PROVE  d \in Seq(DigitChars) /\ d # <<>> /\ Len(d) <= r /\ Says(d) = u
BY DEF IsText

ReadsBack(r, M) == \A room, u \in Nat : r <= room /\ u < M => IsText(Digits[room][u], r, u)

LEMMA OneDigit ==
  ASSUME NEW u \in Nat, NEW r \in Nat \ {0}
  PROVE  IsText(<<Char(u)>>, r, Units(u))
<1> DEFINE d == <<Char(u)>>
<1>1. Char(u) \in DigitChars /\ Char(u) \in Int /\ Char(u) - Zero = Units(u)
  BY DEF Zero, DigitChars, Char, Units
<1>2. Says(d) = Units(u)
  BY <1>1, ReadingOne
<1>3. d \in Seq(DigitChars) /\ Len(d) \in 1 .. r
  BY <1>1
<1> HIDE DEF d
<1>4. IsText(d, r, Units(u))
  BY <1>2, <1>3 DEF IsText
<1> QED
  BY <1>4 DEF d

LEMMA OneMoreDigit ==
  ASSUME NEW u \in Nat, NEW v \in Nat, NEW r \in Nat, NEW d, IsText(d, r, v)
  PROVE  IsText(Append(d, Char(u)), r + 1, 10 * v + Units(u))
<1>1. Char(u) \in DigitChars /\ Char(u) \in Int /\ Char(u) - Zero = Units(u)
  BY DEF Zero, DigitChars, Char, Units
<1>2. d \in Seq(DigitChars) /\ d \in Seq(Int) /\ Len(d) \in 1 .. r /\ Says(d) = v
  BY DEF IsText, DigitChars, Zero
<1>3. Says(Append(d, Char(u))) = 10 * v + Units(u)
  BY <1>1, <1>2, ReadingAppend
<1>4. Append(d, Char(u)) \in Seq(DigitChars) /\ Len(Append(d, Char(u))) \in 1 .. r + 1
  BY <1>1, <1>2
<1> QED
  BY <1>3, <1>4 DEF IsText

LEMMA ReadsBackMore ==
  ASSUME NEW r \in Nat \ {0}, NEW M \in Nat, ReadsBack(r, M)
  PROVE  ReadsBack(r + 1, 10 * M)
<1> SUFFICES ASSUME NEW room \in Nat, NEW u \in Nat, r + 1 <= room, u < 10 * M
             PROVE  IsText(Digits[room][u], r + 1, u)
  BY DEF ReadsBack
<1>1. Tenth(u) \in Nat /\ Tenth(u) < M /\ u = 10 * Tenth(u) + Units(u)
  BY DEF Units, Tenth
<1>2. PICK k \in Nat : k # 0 /\ room = k + 1 /\ r <= k
  <2>1. room - 1 \in Nat /\ room - 1 # 0 /\ room = (room - 1) + 1 /\ r <= room - 1
    OBVIOUS
  <2> QED
    BY <2>1
<1>3. CASE Tenth(u) # 0
  <2>1. IsText(Digits[k][Tenth(u)], r, Tenth(u))
    BY <1>1, <1>2 DEF ReadsBack
  <2>2. Digits[k + 1][u] = Append(Digits[k][Tenth(u)], Char(u))
    BY <1>2, <1>3, DigitsOfOneMore
  <2> QED
    BY <1>1, <1>2, <2>1, <2>2, OneMoreDigit
<1>4. CASE Tenth(u) = 0
  <2>1. u = Units(u) /\ r + 1 \in Nat \ {0}
    BY <1>1, <1>4 DEF Units
  <2> QED
    BY <1>4, <2>1, LastDigit, OneDigit
<1> QED
  BY <1>3, <1>4

\* The numbers of 31 bits lie below it.
Limit == 65536 * 32768

\* Ten digits hold each of them, wherever there is room.
LEMMA TenDigits == ReadsBack(10, Limit)
<1>1. ReadsBack(1, 10)
  <2> SUFFICES ASSUME NEW room \in Nat, NEW u \in Nat, 1 <= room, u < 10
               PROVE  IsText(Digits[room][u], 1, u)
    BY DEF ReadsBack
  <2>1. u = Units(u) /\ Tenth(u) = 0 /\ 1 \in Nat \ {0}
    BY DEF Units, Tenth
  <2> QED
    BY <2>1, LastDigit, OneDigit
<1>2. ReadsBack(2, 100)
  BY <1>1, ReadsBackMore
<1>3. ReadsBack(3, 1000)
  BY <1>2, ReadsBackMore
<1>4. ReadsBack(4, 10000)
  BY <1>3, ReadsBackMore
<1>5. ReadsBack(5, 100000)
  BY <1>4, ReadsBackMore
<1>6. ReadsBack(6, 1000000)
  BY <1>5, ReadsBackMore
<1>7. ReadsBack(7, 10000000)
  BY <1>6, ReadsBackMore
<1>8. ReadsBack(8, 100000000)
  BY <1>7, ReadsBackMore
<1>9. ReadsBack(9, 1000000000)
  BY <1>8, ReadsBackMore
<1>10. ReadsBack(10, 10000000000)
  BY <1>9, ReadsBackMore
<1> QED
  BY <1>10 DEF ReadsBack, Limit

\* Where there is room for r digits they are the last.
LastOf(M, n) == n % M
EndsWith(r, M) == \A n \in Nat : IsText(Digits[r][n], r, LastOf(M, n))

OneMore(M, N) ==
  \A n \in Nat : /\ LastOf(M, Tenth(n)) \in Nat /\ LastOf(M, 0) = 0
                 /\ LastOf(N, n) = 10 * LastOf(M, Tenth(n)) + Units(n)

LEMMA EndsWithMore ==
  ASSUME NEW r \in Nat, r # 0, NEW M \in Nat, NEW N \in Nat, EndsWith(r, M), OneMore(M, N)
  PROVE  EndsWith(r + 1, N)
<1> SUFFICES ASSUME NEW n \in Nat PROVE IsText(Digits[r + 1][n], r + 1, LastOf(N, n))
  BY DEF EndsWith
<1>0. r + 1 \in Nat \ {0}
  OBVIOUS
<1>1. Tenth(n) \in Nat /\ Units(n) \in Nat
  BY DEF Tenth, Units
<1>2. /\ LastOf(M, Tenth(n)) \in Nat /\ LastOf(N, n) = 10 * LastOf(M, Tenth(n)) + Units(n)
  BY DEF OneMore
<1>3. CASE Tenth(n) # 0
  <2>1. Digits[r + 1][n] = Append(Digits[r][Tenth(n)], Char(n))
    BY <1>3, DigitsOfOneMore
  <2>2. IsText(Digits[r][Tenth(n)], r, LastOf(M, Tenth(n)))
    BY <1>1 DEF EndsWith
  <2> QED
    BY <1>1, <1>2, <2>1, <2>2, OneMoreDigit
<1>4. CASE Tenth(n) = 0
  <2>1. Digits[r + 1][n] = <<Char(n)>>
    BY <1>0, <1>4, LastDigit
  <2>2. IsText(<<Char(n)>>, r + 1, Units(n))
    BY <1>0, OneDigit
  <2>3. LastOf(N, n) = Units(n)
    <3>1. LastOf(M, 0) = 0
      BY DEF OneMore
    <3> QED
      BY <1>1, <1>2, <1>4, <3>1
  <2> QED
    BY <1>2, <2>1, <2>2, <2>3
<1> QED
  BY <1>3, <1>4

LEMMA ThreeDigits == EndsWith(3, 1000)
<1>1. EndsWith(1, 10)
  <2>1. \A n \in Nat : LastOf(10, n) = Units(n)
    BY DEF Units, LastOf
  <2>2. 1 \in Nat \ {0} /\ 1 <= 1
    OBVIOUS
  <2> QED
    BY <2>1, <2>2, OneDigit, LastDigit DEF EndsWith
<1>2. OneMore(10, 100)
  BY DEF Units, LastOf, Tenth, OneMore
<1>3. OneMore(100, 1000)
  BY DEF Units, LastOf, Tenth, OneMore
<1>4. EndsWith(1 + 1, 100)
  BY <1>1, <1>2, EndsWithMore
<1>5. EndsWith(2 + 1, 1000)
  BY <1>3, <1>4, EndsWithMore
<1> QED
  BY <1>5

\* The characters of a hexadecimal text, and the digit each stands for.
HexChars == {_hexMap(q) : q \in 0 .. 15}
HexOf(c) == CHOOSE q \in 0 .. 15 : _hexMap(q) = c

LEMMA HexMapInverse ==
  /\ \A q \in 0 .. 15 : _hexMap(q) \in HexChars /\ HexOf(_hexMap(q)) = q
  /\ \A c \in HexChars : HexOf(c) \in 0 .. 15
<1>1. ASSUME NEW q \in 0 .. 15, NEW p \in 0 .. 15, _hexMap(p) = _hexMap(q) PROVE p = q
  BY <1>1 DEF _hexMap, Zero
<1>2. ASSUME NEW q \in 0 .. 15 PROVE HexOf(_hexMap(q)) = q
  BY <1>1 DEF HexOf
<1> QED
  BY <1>2 DEF HexChars

LEMMA HexReadingDef ==
  ASSUME NEW text \in Seq(HexChars)
  PROVE  /\ HexReading(text) \in [0 .. Len(text) -> Int] /\ HexReading(text)[0] = 0
         /\ \A k \in 1 .. Len(text) :
              HexReading(text)[k] = 16 * HexReading(text)[k - 1] + HexOf(text[k])
<1> DEFINE then(n, c) == 16 * n + HexOf(c)
           Rec(v) == v = [k \in 0 .. Len(text) |-> IF k = 0 THEN 0 ELSE then(v[k - 1], text[k])]
           step == [k \in Nat |-> [n \in Int |->
                      IF k < Len(text) THEN then(n, text[k + 1]) ELSE 0]]
<1>1. IsStep(Int, 0, step)
  <2>1. ASSUME NEW k \in Nat, k < Len(text) PROVE HexOf(text[k + 1]) \in Int
    <3>1. k + 1 \in 1 .. Len(text)
      BY <2>1
    <3>2. text[k + 1] \in HexChars
      BY <3>1
    <3> QED
      BY <3>2, HexMapInverse
  <2> QED
    BY <2>1 DEF IsStep
<1>2. \E f : IsIteration(f, Int, 0, step)
  <2> HIDE DEF step
  <2> QED BY <1>1, IterationExists
<1> HIDE DEF step
<1>3. PICK f \in [Nat -> Int] : f[0] = 0 /\ \A k \in Nat : f[k + 1] = step[k][f[k]]
  BY <1>2 DEF IsIteration
<1> DEFINE g == [k \in 0 .. Len(text) |-> f[k]]
<1>4. \A k \in 1 .. Len(text) : f[k] = then(f[k - 1], text[k])
  <2> SUFFICES ASSUME NEW k \in 1 .. Len(text) PROVE f[k] = then(f[k - 1], text[k])
    OBVIOUS
  <2>1. k - 1 \in Nat /\ (k - 1) + 1 = k /\ k - 1 < Len(text)
    OBVIOUS
  <2>2. f[k] = step[k - 1][f[k - 1]] /\ f[k - 1] \in Int
    BY <1>3, <2>1
  <2> HIDE DEF then
  <2>3. step[k - 1][f[k - 1]] = then(f[k - 1], text[k])
    BY <2>1, <2>2 DEF step
  <2> QED
    BY <2>2, <2>3
<1> DEFINE D == 0 .. Len(text)
<1>5. g \in [D -> Int] /\ g[0] = 0 /\ \A k \in 1 .. Len(text) : g[k] = then(g[k - 1], text[k])
  <2>1. /\ g \in [D -> Int] /\ g[0] = f[0]
        /\ \A k \in 1 .. Len(text) : g[k] = f[k] /\ g[k - 1] = f[k - 1]
    OBVIOUS
  <2> HIDE DEF g, then
  <2> QED BY <1>3, <1>4, <2>1
<1> HIDE DEF then
<1>6. Rec(g)
  <2>1. g = [k \in D |-> g[k]] /\ \A k \in D : k = 0 \/ k \in 1 .. Len(text)
    OBVIOUS
  <2>2. \A k \in D : g[k] = IF k = 0 THEN 0 ELSE then(g[k - 1], text[k])
    <3> HIDE DEF g, D
    <3> QED BY <1>5, <2>1
  <2> HIDE DEF g
  <2> QED BY <2>1, <2>2
<1>7. HexReading(text) = CHOOSE v : Rec(v)
  BY DEF HexReading, then, HexOf
<1>8. Rec(HexReading(text))
  <2> HIDE DEF Rec
  <2> QED BY <1>6, <1>7
<1>9. \A v : Rec(v) => v = g
  <2> SUFFICES ASSUME NEW v, Rec(v) PROVE v = g
    OBVIOUS
  <2> DEFINE S == {k \in Nat : k <= Len(text) /\ v[k] # g[k]}
  <2>1. v[0] = 0 /\ \A k \in 1 .. Len(text) : v[k] = then(v[k - 1], text[k])
    <3> DEFINE b == [k \in D |-> IF k = 0 THEN 0 ELSE then(v[k - 1], text[k])]
    <3>1. v = b
      OBVIOUS
    <3>2. 0 \in D /\ \A k \in 1 .. Len(text) : k \in D /\ k # 0
      OBVIOUS
    <3> HIDE DEF D
    <3>3. b[0] = 0 /\ \A k \in 1 .. Len(text) : b[k] = then(v[k - 1], text[k])
      BY <3>2
    <3> HIDE DEF b
    <3> QED BY <3>1, <3>3
  <2>2. v = [k \in D |-> v[k]]
    OBVIOUS
  <2> HIDE DEF Rec, g
  <2>3. ASSUME S # {} PROVE FALSE
    <3>1. PICK k \in S : \A o \in S : k <= o
      <4> S \in SUBSET Nat
        OBVIOUS
      <4> HIDE DEF S
      <4> QED BY <2>3, LeastNat
    <3>2. k # 0
      BY <1>5, <2>1
    <3>3. k - 1 \in Nat /\ k - 1 \notin S
      BY <3>1, <3>2
    <3> QED
      BY <1>5, <2>1, <3>2, <3>3
  <2>4. \A k \in D : v[k] = g[k]
    BY <2>3
  <2>5. g = [k \in D |-> g[k]]
    BY <1>5
  <2> QED
    BY <2>2, <2>4, <2>5
<1>10. HexReading(text) = g
  BY <1>8, <1>9
<1> HIDE DEF g
<1> QED
  BY <1>5, <1>10 DEF then

LEMMA HexDigitsDef ==
  ASSUME NEW room \in Nat, NEW u \in Nat
  PROVE  HexDigits[room][u] = IF room = 0 THEN <<>>
                              ELSE Append(HexDigits[room - 1][u \div 16], _hexMap(u % 16))
<1> DEFINE V == [Nat -> Seq(HexChars)]
           body(h, r, n) == IF r = 0 THEN <<>> ELSE Append(h[n \div 16], _hexMap(n % 16))
           first == [n \in Nat |-> <<>>]
           step  == [k \in Nat |-> [h \in V |-> [n \in Nat |-> body(h, k + 1, n)]]]
           Rec(d) == d = [r \in Nat |-> [n \in Nat |-> body(d[r - 1], r, n)]]
<1>1. IsStep(V, first, step)
  <2>1. ASSUME NEW h \in V, NEW k \in Nat, NEW n \in Nat PROVE body(h, k + 1, n) \in Seq(HexChars)
    <3>0. n \div 16 \in Nat /\ n % 16 \in 0 .. 15
      OBVIOUS
    <3>1. n \div 16 \in Nat /\ _hexMap(n % 16) \in HexChars
      BY <3>0, HexMapInverse
    <3>2. h[n \div 16] \in Seq(HexChars)
      BY <3>1
    <3> QED
      BY <3>1, <3>2
  <2>2. first \in V
    OBVIOUS
  <2> HIDE DEF body, first
  <2>3. step \in [Nat -> [V -> V]]
    BY <2>1
  <2> QED
    BY <2>2, <2>3 DEF IsStep
<1>2. \E f : IsIteration(f, V, first, step)
  <2> HIDE DEF step, V, first
  <2> QED BY <1>1, IterationExists
<1>3. PICK f \in [Nat -> V] : f[0] = first /\ \A k \in Nat : f[k + 1] = step[k][f[k]]
  <2> HIDE DEF step, V, first
  <2> QED BY <1>2 DEF IsIteration
<1>4. \A r \in Nat : f[r] = [n \in Nat |-> body(f[r - 1], r, n)]
  <2> SUFFICES ASSUME NEW r \in Nat PROVE f[r] = [n \in Nat |-> body(f[r - 1], r, n)]
    OBVIOUS
  <2>1. CASE r = 0
    <3>1. \A n \in Nat : body(f[r - 1], r, n) = <<>>
      BY <2>1
    <3>2. f[r] = first
      <4> HIDE DEF first
      <4> QED BY <1>3, <2>1
    <3> HIDE DEF body
    <3> QED BY <3>1, <3>2
  <2>2. CASE r # 0
    <3>1. r - 1 \in Nat /\ (r - 1) + 1 = r
      BY <2>2
    <3>2. f[r - 1] \in V /\ f[r] = step[r - 1][f[r - 1]]
      <4> HIDE DEF step, V
      <4> QED BY <1>3, <3>1
    <3> HIDE DEF body, V
    <3>3. step[r - 1][f[r - 1]] = [n \in Nat |-> body(f[r - 1], r, n)]
      BY <3>1, <3>2
    <3> HIDE DEF step
    <3> QED BY <3>2, <3>3
  <2> QED
    BY <2>1, <2>2
<1>5. Rec(f)
  <2> HIDE DEF body, V
  <2>1. f = [r \in Nat |-> f[r]]
    OBVIOUS
  <2> QED BY <1>4, <2>1
<1>6. HexDigits = CHOOSE d : Rec(d)
  BY DEF HexDigits
<1>7. Rec(HexDigits)
  <2> HIDE DEF Rec
  <2> QED BY <1>5, <1>6
<1>8. HexDigits[room][u] = body(HexDigits[room - 1], room, u)
  <2> HIDE DEF body
  <2>1. HexDigits[room] = [n \in Nat |-> body(HexDigits[room - 1], room, n)]
    <3> DEFINE b == [r \in Nat |-> [n \in Nat |-> body(HexDigits[r - 1], r, n)]]
    <3>1. HexDigits = b
      BY <1>7
    <3>2. b[room] = [n \in Nat |-> body(HexDigits[room - 1], room, n)]
      OBVIOUS
    <3> HIDE DEF b
    <3> QED BY <3>1, <3>2
  <2> QED
    BY <2>1
<1> QED
  BY <1>8

LEMMA HexReadingAppend ==
  ASSUME NEW s \in Seq(HexChars), NEW c \in HexChars
  PROVE  HexValue(Append(s, c)) = 16 * HexValue(s) + HexOf(c)
<1> DEFINE t == Append(s, c)
           S == {k \in Nat : k <= Len(s) /\ HexReading(t)[k] # HexReading(s)[k]}
<1>1. t \in Seq(HexChars) /\ Len(t) = Len(s) + 1 /\ t[Len(s) + 1] = c
      /\ \A k \in 1 .. Len(s) : t[k] = s[k]
  OBVIOUS
<1> HIDE DEF t
<1>2. /\ HexReading(s)[0] = 0 /\ HexReading(s) \in [0 .. Len(s) -> Int]
      /\ \A k \in 1 .. Len(s) : HexReading(s)[k] = 16 * HexReading(s)[k - 1] + HexOf(s[k])
  BY HexReadingDef
<1>3. /\ HexReading(t)[0] = 0
      /\ \A k \in 1 .. Len(s) + 1 : HexReading(t)[k] = 16 * HexReading(t)[k - 1] + HexOf(t[k])
  BY <1>1, HexReadingDef
<1>4. ASSUME S # {} PROVE FALSE
  <2>1. PICK k \in S : \A o \in S : k <= o
    <3> S \in SUBSET Nat
      OBVIOUS
    <3> HIDE DEF S
    <3> QED BY <1>4, LeastNat
  <2>2. k # 0 /\ k \in 1 .. Len(s) /\ k \in 1 .. Len(s) + 1
    BY <1>2, <1>3
  <2>3. k - 1 \in Nat /\ k - 1 \notin S
    BY <2>1, <2>2
  <2>4. HexReading(t)[k - 1] = HexReading(s)[k - 1]
    BY <2>2, <2>3
  <2>5. HexReading(t)[k] = 16 * HexReading(s)[k - 1] + HexOf(s[k])
    BY <1>1, <1>3, <2>2, <2>4
  <2> QED
    BY <1>2, <2>2, <2>5
<1>5. Len(s) \in Nat /\ HexReading(t)[Len(s)] = HexReading(s)[Len(s)]
  BY <1>4
<1>6. HexReading(t)[Len(s) + 1] = 16 * HexReading(t)[Len(s)] + HexOf(c)
  <2>1. Len(s) + 1 \in 1 .. Len(s) + 1 /\ (Len(s) + 1) - 1 = Len(s)
    BY <1>5
  <2> QED
    BY <1>1, <1>3, <2>1
<1> QED
  BY <1>1, <1>5, <1>6 DEF HexValue, t

\* The last k hexadecimal digits of n.
IsHex(d, k, n) == d \in Seq(HexChars) /\ Len(d) = k /\ HexValue(d) = n

HexReadsBack(k, M) == \A n \in Nat : n < M => IsHex(HexDigits[k][n], k, n)

Sixteenth(n) == n \div 16
LastHex(n)   == _hexMap(n % 16)

LEMMA MoreHexDigits ==
  ASSUME NEW k \in Nat, NEW less \in Nat, k = less + 1, NEW n \in Nat
  PROVE  HexDigits[k][n] = Append(HexDigits[less][Sixteenth(n)], LastHex(n))
<1>1. k # 0 /\ k - 1 = less
  OBVIOUS
<1> QED
  BY <1>1, HexDigitsDef DEF Sixteenth, LastHex

LEMMA LastHexDigit ==
  ASSUME NEW n \in Nat
  PROVE  /\ Sixteenth(n) \in Nat /\ LastHex(n) \in HexChars
         /\ n = 16 * Sixteenth(n) + HexOf(LastHex(n))
<1>1. n \div 16 \in Nat /\ n % 16 \in 0 .. 15 /\ n = 16 * (n \div 16) + (n % 16)
  OBVIOUS
<1>2. LastHex(n) \in HexChars /\ HexOf(LastHex(n)) = n % 16
  BY <1>1, HexMapInverse DEF LastHex
<1> QED
  BY <1>1, <1>2 DEF Sixteenth

LEMMA HexReadsBackMore ==
  ASSUME NEW k \in Nat, NEW M \in Nat, HexReadsBack(k, M)
  PROVE  HexReadsBack(k + 1, 16 * M)
<1> SUFFICES ASSUME NEW n \in Nat, n < 16 * M
             PROVE  IsHex(HexDigits[k + 1][n], k + 1, n)
  BY DEF HexReadsBack
<1> DEFINE d == HexDigits[k][Sixteenth(n)]
<1>1. Sixteenth(n) \in Nat /\ Sixteenth(n) < M
  BY DEF Sixteenth
<1>2. d \in Seq(HexChars) /\ Len(d) = k /\ HexValue(d) = Sixteenth(n)
  BY <1>1 DEF HexReadsBack, IsHex
<1>3. PICK r \in Nat : r = k + 1
  OBVIOUS
<1>4. HexDigits[r][n] = Append(d, LastHex(n))
  BY <1>1, <1>3, MoreHexDigits
<1> HIDE DEF d
<1>5. PICK c \in HexChars : c = LastHex(n) /\ n = 16 * Sixteenth(n) + HexOf(c)
  BY LastHexDigit
<1>6. HexValue(Append(d, c)) = n
  BY <1>2, <1>5, HexReadingAppend
<1>7. Append(d, c) \in Seq(HexChars) /\ Len(Append(d, c)) = k + 1
  BY <1>2, <1>5
<1> QED
  BY <1>3, <1>4, <1>5, <1>6, <1>7 DEF IsHex

LEMMA FourMoreHexDigits ==
  ASSUME NEW k \in Nat, NEW M \in Nat, HexReadsBack(k, M)
  PROVE  HexReadsBack(k + 4, 65536 * M)
<1>1. HexReadsBack((k + 1) + 1, 16 * (16 * M))
  BY HexReadsBackMore
<1>2. PICK l \in Nat, N \in Nat : l = k + 2 /\ N = 256 * M /\ HexReadsBack(l, N)
  BY <1>1
<1>3. HexReadsBack((l + 1) + 1, 16 * (16 * N))
  BY <1>2, HexReadsBackMore
<1>4. (l + 1) + 1 = k + 4 /\ 16 * (16 * N) = 65536 * M
  BY <1>2
<1> QED
  BY <1>3, <1>4

LEMMA NoHexDigits == HexReadsBack(0, 1)
<1> SUFFICES ASSUME NEW n \in Nat, n < 1 PROVE IsHex(HexDigits[0][n], 0, n)
  BY DEF HexReadsBack
<1> DEFINE e == <<>>
<1>1. n = 0 /\ HexDigits[0][n] = e
  BY HexDigitsDef
<1>2. e \in Seq(HexChars) /\ Len(e) = 0
  OBVIOUS
<1> HIDE DEF e
<1>3. HexReading(e)[0] = 0
  BY <1>2, HexReadingDef
<1> QED
  BY <1>1, <1>2, <1>3 DEF IsHex, HexValue

\* Eight digits hold a number of 32 bits, and sixteen one of 64.
LEMMA EightAndSixteenDigits ==
  /\ HexReadsBack(8, 65536 * 65536)
  /\ HexReadsBack(16, 65536 * (65536 * (65536 * 65536)))
<1>1. HexReadsBack(0 + 4, 65536 * 1)
  BY NoHexDigits, FourMoreHexDigits
<1>2. HexReadsBack(4 + 4, 65536 * 65536)
  BY <1>1, FourMoreHexDigits
<1>3. PICK M \in Nat : M = 65536 * 65536
  OBVIOUS
<1>4. HexReadsBack(8 + 4, 65536 * M)
  BY <1>2, <1>3, FourMoreHexDigits
<1>5. PICK N \in Nat : N = 65536 * M /\ HexReadsBack(12, N)
  BY <1>3, <1>4
<1>6. HexReadsBack(12 + 4, 65536 * N)
  BY <1>5, FourMoreHexDigits
<1> QED
  BY <1>2, <1>3, <1>5, <1>6

\* The text of a number that fits its buffer reads back.
LEMMA TextReadsBack ==
  ASSUME NEW L \in Nat, L >= 12, NEW u \in Nat, u < Limit
  PROVE  /\ Digits[L - 1][u] \in Seq(DigitChars) /\ Digits[L - 1][u] # <<>>
         /\ Len(Digits[L - 1][u]) <= 10
         /\ atoi(Digits[L - 1][u]) = u
<1>1. PICK room \in Nat : room = L - 1 /\ 10 <= room
  OBVIOUS
<1>2. IsText(Digits[room][u], 10, u)
  BY <1>1, TenDigits DEF ReadsBack
<1> DEFINE d == Digits[room][u]
<1> HIDE DEF d
<1>3. d \in Seq(DigitChars) /\ d # <<>> /\ Len(d) <= 10 /\ Says(d) = u
  BY <1>2, TextOf DEF d
<1>4. atoi(d) = u
  BY <1>3, AtoiOfDigits
<1> QED
  BY <1>1, <1>3, <1>4 DEF d

LEMMA DecimalOfDigits ==
  ASSUME NEW d \in Seq(DigitChars), d # <<>>
  PROVE  Decimal(d) = atoi(d)
<1>1. d[1] \in DigitChars
  OBVIOUS
<1> QED
  BY <1>1 DEF Decimal, DigitChars, Zero, Minus

LEMMA DecimalOfSigned ==
  ASSUME NEW d \in Seq(DigitChars), d # <<>>
  PROVE  Decimal(<<Minus>> \o d) = -atoi(d) /\ Len(<<Minus>> \o d) = 1 + Len(d)
<1>1. <<Minus>> \in Seq(Int) /\ Len(<<Minus>>) = 1 /\ d \in Seq(Int) /\ <<Minus>>[1] = Minus
  BY DEF Minus, DigitChars, Zero
<1> DEFINE m == <<Minus>>
           t == m \o d
<1> HIDE DEF m
<1>2. /\ t \in Seq(Int) /\ Len(t) = 1 + Len(d) /\ t[1] = Minus
      /\ \A k \in 1 .. Len(d) : t[k + 1] = d[k]
  BY <1>1 DEF m
<1> HIDE DEF t
<1>3. Tail(t) \in Seq(Int) /\ Len(Tail(t)) = Len(d) /\ \A k \in 1 .. Len(d) : Tail(t)[k] = t[k + 1]
  BY <1>2
<1>4. Tail(t) = d
  <2> DEFINE b == Tail(t)
  <2>1. \A k \in 1 .. Len(d) : b[k] = d[k]
    BY <1>2, <1>3
  <2>2. b \in Seq(Int) /\ Len(b) = Len(d) /\ d \in Seq(Int)
    BY <1>1, <1>3
  <2> HIDE DEF b
  <2>3. b = d
    BY <2>1, <2>2
  <2> QED
    BY <2>3 DEF b
<1>5. Decimal(t) = -atoi(d)
  BY <1>2, <1>4 DEF Decimal
<1> QED
  BY <1>2, <1>5 DEF t, m

\* itoa of a number of 32 bits, into the buffers the kernel has for it.
LEMMA ItoaReads ==
  ASSUME NEW n \in Int, -Limit < n, n < Limit, NEW L \in Nat, L >= 12
  PROVE  Decimal(itoa(n, L).text) = n /\ itoa(n, L).from = 0
<1> DEFINE u == IF n < 0 THEN -n ELSE n
           d == Digits[L - 1][u]
           t == IF n < 0 THEN <<Minus>> \o d ELSE d
<1>1. u \in Nat /\ u < Limit
  BY DEF Limit
<1>2. d \in Seq(DigitChars) /\ d # <<>> /\ Len(d) <= 10 /\ atoi(d) = u
  <2> HIDE DEF u
  <2> QED BY <1>1, TextReadsBack
<1>3. itoa(n, L).text = t /\ itoa(n, L).from = IF L - 1 - Len(t) < 0 THEN L - 1 - Len(t) ELSE 0
  BY DEF itoa
<1> HIDE DEF d
<1>4. CASE n < 0
  <2>1. t = <<Minus>> \o d
    BY <1>4
  <2> HIDE DEF t
  <2>2. Decimal(t) = -atoi(d) /\ Len(t) = 1 + Len(d)
    BY <1>2, <2>1, DecimalOfSigned
  <2> QED
    BY <1>2, <1>3, <1>4, <2>2
<1>5. CASE n >= 0
  <2>1. t = d
    BY <1>5
  <2> HIDE DEF t
  <2>2. Decimal(t) = atoi(d) /\ Len(t) = Len(d)
    BY <1>2, <2>1, DecimalOfDigits
  <2> QED
    BY <1>2, <1>3, <1>5, <2>2
<1> QED
  BY <1>4, <1>5

LEMMA UtoaReads ==
  ASSUME NEW n \in Nat, n < Limit
  PROVE  Decimal(utoa(n, 12).text) = n
<1>1. PICK L \in Nat : L = 12
  OBVIOUS
<1>2. utoa(n, L).text = Digits[L - 1][n]
  BY DEF utoa
<1>3. Decimal(utoa(n, L).text) = n
  BY <1>1, <1>2, TextReadsBack, DecimalOfDigits
<1> QED
  BY <1>1, <1>3

\* With room for three digits only, they are the last three.
LEMMA ItoaShortReads ==
  ASSUME NEW n \in Nat
  PROVE  Decimal(itoa(n, 4).text) = n % 1000
<1> DEFINE d == Digits[3][n]
<1>1. itoa(n, 4).text = d
  BY DEF itoa
<1>2. IsText(d, 3, LastOf(1000, n))
  BY ThreeDigits DEF EndsWith
<1> HIDE DEF d
<1>3. d \in Seq(DigitChars) /\ d # <<>> /\ Says(d) = LastOf(1000, n)
  BY <1>2, TextOf
<1>4. Decimal(d) = LastOf(1000, n)
  BY <1>3, AtoiOfDigits, DecimalOfDigits
<1> QED
  BY <1>1, <1>4 DEF LastOf

\* A hexadecimal text that fits its buffer.
LEMMA HexReads ==
  ASSUME NEW k \in Nat, NEW L \in Nat, k < L, NEW n \in Nat, IsHex(HexDigits[k][n], k, n)
  PROVE  HexValue(Hex(n, k, L).text) = n
<1> DEFINE d == HexDigits[k][n]
<1>1. d \in Seq(HexChars) /\ Len(d) = k
  BY DEF IsHex
<1>2. Hex(n, k, L).text = SubSeq(d, 1, k)
  BY DEF Hex
<1> HIDE DEF d
<1>3. SubSeq(d, 1, k) = d
  BY <1>1
<1> QED
  BY <1>2, <1>3 DEF IsHex, d

\* Of the digits that do not fit, the first remain.
LEMMA TwoMore ==
  ASSUME NEW k \in Nat, NEW d \in Seq(HexChars), Len(d) = k, NEW a \in HexChars, NEW b \in HexChars
  PROVE  SubSeq(Append(Append(d, a), b), 1, k) = d
<1> DEFINE e == Append(d, a)
           f == Append(e, b)
<1>1. e \in Seq(HexChars) /\ Len(e) = k + 1 /\ \A o \in 1 .. k : e[o] = d[o]
  OBVIOUS
<1> HIDE DEF e
<1>2. f \in Seq(HexChars) /\ Len(f) = k + 2 /\ \A o \in 1 .. k : f[o] = d[o]
  BY <1>1
<1> HIDE DEF f
<1>3. SubSeq(f, 1, k) = d
  BY <1>2
<1> QED
  BY <1>3 DEF e, f

LEMMA HexShortReads ==
  ASSUME NEW n \in Nat, n < Limit
  PROVE  HexValue(utox(n, 6).text) = n \div 256
<1> DEFINE M == 16 * (16 * 65536)
<1>1. HexReadsBack(6, M)
  <2>1. HexReadsBack(0 + 4, 65536 * 1)
    BY FourMoreHexDigits, NoHexDigits
  <2>2. HexReadsBack(4 + 1, 16 * 65536)
    BY <2>1, HexReadsBackMore
  <2>3. HexReadsBack(5 + 1, 16 * (16 * 65536))
    BY <2>2, HexReadsBackMore
  <2> QED
    BY <2>3
<1>2. PICK k \in Nat : k = 6
  OBVIOUS
<1>3. PICK m \in Nat, q \in Nat : m = Sixteenth(n) /\ q = Sixteenth(m) /\ q < M /\ q = n \div 256
  BY DEF Sixteenth, Limit
<1> HIDE DEF M
<1>4. PICK d \in Seq(HexChars) : d = HexDigits[k][q] /\ Len(d) = k /\ HexValue(d) = q
  BY <1>1, <1>2, <1>3 DEF HexReadsBack, IsHex
<1>5. PICK k1 \in Nat, k2 \in Nat : k1 = k + 1 /\ k2 = k1 + 1
  OBVIOUS
<1>6. PICK a \in HexChars, b \in HexChars : a = LastHex(m) /\ b = LastHex(n)
  BY LastHexDigit
<1>7. HexDigits[k1][m] = Append(HexDigits[k][Sixteenth(m)], LastHex(m))
  BY <1>5, MoreHexDigits
<1>8. HexDigits[k2][n] = Append(HexDigits[k1][Sixteenth(n)], LastHex(n))
  BY <1>5, MoreHexDigits, ZenonT(40)
<1>9. HexDigits[k2][n] = Append(Append(d, a), b)
  BY <1>3, <1>4, <1>6, <1>7, <1>8
<1>10. utox(n, 6).text = SubSeq(HexDigits[k2][n], 1, k)
  <2>1. k2 = 8
    BY <1>2, <1>5
  <2> QED
    BY <1>2, <2>1 DEF utox, Hex
<1>11. SubSeq(Append(Append(d, a), b), 1, k) = d
  BY <1>4, TwoMore
<1> QED
  BY <1>3, <1>4, <1>9, <1>10, <1>11

(***************************************************************************)
(* What the kernel prints.                                                 *)
(***************************************************************************)

\* A number that its text gives back, from inside its buffer or as utoa's.
ReadsAs(p) ==
  /\ p.n = IF p.base = 10 THEN Decimal(p.text.text) ELSE HexValue(p.text.text)
  /\ p.text.from = 0 \/ p.text = utoa(p.n, 12)

LEMMA DecimalPrinted ==
  ASSUME NEW n \in Int, -Limit < n, n < Limit, NEW L \in Nat, L >= 12
  PROVE  ReadsAs(Number(n, 10, itoa(n, L)))
BY ItoaReads DEF ReadsAs, Number

LEMMA UnsignedPrinted ==
  ASSUME NEW n \in Nat, n < Limit
  PROVE  ReadsAs(Number(n, 10, utoa(n, 12)))
BY UtoaReads DEF ReadsAs, Number

\* The lower words of a number below M.
WithWords(M) == 65536 * (65536 * M)

LEMMA HighBelow ==
  ASSUME NEW n \in Nat, NEW M \in Nat, High(n) < M
  PROVE  n < WithWords(M) /\ WithWords(M) \in Nat
<1>1. PICK h \in Nat : h = n \div 65536 /\ n < 65536 * (h + 1)
  OBVIOUS
<1>2. h < 65536 * M
  BY <1>1 DEF High
<1>3. n < 65536 * (65536 * M)
  BY <1>1, <1>2
<1> QED
  BY <1>3 DEF WithWords

LEMMA WordsReadBack ==
  /\ \A n \in Nat, L \in Nat : High(n) = 0 /\ 8 < L => HexValue(utox(n, L).text) = n
  /\ \A n \in Nat, L \in Nat : High(High(n)) = 0 /\ 16 < L => HexValue(ultox(n, L).text) = n
<1>1. ASSUME NEW n \in Nat, NEW L \in Nat, High(n) = 0, 8 < L
      PROVE  HexValue(utox(n, L).text) = n
  <2>1. n < 65536 * 65536
    BY <1>1, HighBelow DEF WithWords
  <2>2. IsHex(HexDigits[8][n], 8, n)
    BY <2>1, EightAndSixteenDigits DEF HexReadsBack
  <2> QED
    BY <1>1, <2>2, HexReads DEF utox
<1>2. ASSUME NEW n \in Nat, NEW L \in Nat, High(High(n)) = 0, 16 < L
      PROVE  HexValue(ultox(n, L).text) = n
  <2>1. High(n) \in Nat
    BY DEF High
  <2>2. High(n) < WithWords(1) /\ WithWords(1) \in Nat
    BY <1>2, <2>1, HighBelow
  <2>3. n < WithWords(WithWords(1))
    BY <2>2, HighBelow
  <2>4. IsHex(HexDigits[16][n], 16, n)
    <3>1. WithWords(WithWords(1)) = 65536 * (65536 * (65536 * 65536))
      BY DEF WithWords
    <3> QED
      BY <2>3, <3>1, EightAndSixteenDigits DEF HexReadsBack
  <2> QED
    BY <1>2, <2>4, HexReads DEF ultox
<1> QED
  BY <1>1, <1>2

LEMMA HexPrinted ==
  /\ \A n \in Nat : High(n) = 0 => ReadsAs(Number(n, 16, utox(n, 20)))
  /\ \A n \in Nat : High(High(n)) = 0 => ReadsAs(Number(n, 16, ultox(n, 20)))
<1>1. \A n \in Nat : utox(n, 20).from = 0 /\ ultox(n, 20).from = 0
  BY DEF utox, ultox, Hex
<1> QED
  BY <1>1, WordsReadBack DEF ReadsAs, Number

\* The samples need no step.
LEMMA EverySample == SamplesReadBack
<1>1. Limit \in Nat /\ Limit > 2147483647
  BY SMT DEF Limit
<1> SUFFICES ASSUME NEW n \in Samples
             PROVE  /\ Decimal(itoa(n, 12).text) = n /\ itoa(n, 12).from = 0
                    /\ n >= 0 =>
                         /\ Decimal(utoa(n, 12).text) = n
                         /\ Decimal(itoa(n, 4).text) = n % 1000
                         /\ HexValue(utox(n, 9).text) = n
                         /\ HexValue(utox(n, 6).text) = n \div 256
                         /\ HexValue(ultox(n, 17).text) = n
  BY DEF SamplesReadBack
<1>2. n \in Int /\ -Limit < n /\ n < Limit
  <2>1. n \in Int /\ n <= 2147483647 /\ -n <= 2147483647
    BY SamplesAssumption, SMT
  <2> QED
    BY <1>1, <2>1, SMT
<1>3. Decimal(itoa(n, 12).text) = n /\ itoa(n, 12).from = 0
  BY <1>2, ItoaReads
<1>4. ASSUME n >= 0
      PROVE  /\ Decimal(utoa(n, 12).text) = n
             /\ Decimal(itoa(n, 4).text) = n % 1000
             /\ HexValue(utox(n, 6).text) = n \div 256
  BY <1>2, <1>4, UtoaReads, ItoaShortReads, HexShortReads
<1>5. ASSUME n >= 0
      PROVE  HexValue(utox(n, 9).text) = n /\ HexValue(ultox(n, 17).text) = n
  <2>1. n \in Nat /\ High(n) = 0 /\ High(High(n)) = 0
    BY <1>2, <1>5 DEF High, Limit
  <2> QED
    BY <2>1, WordsReadBack
<1> QED
  BY <1>3, <1>4, <1>5

PrintInv == \A p \in printed : ReadsAs(p)

LEMMA PrintStep ==
  ASSUME BootInv, CountInv, ProcessorInv, PrintInv, [Next]_vars
  PROVE  PrintInv'
<1>1. ASSUME printed' = {} PROVE PrintInv'
  BY <1>1 DEF PrintInv
<1>2. CASE init_gdt \/ init_idt \/ init_directory
  <2>1. printed' = {}
    BY <1>2 DEF init_gdt, gdt_entry, gdt_select, lgdt, load_ds, load_cs, init_idt, idt_entry,
                pic_remap, lidt, sti, init_directory, catalog_entry, table_entry,
                enable_paging, Go
  <2> QED
    BY <1>1, <2>1
<1>3. CASE print_map
  <2>1. CASE i < Len(mmap)
    <3> DEFINE e == mmap[i + 1]
    <3>1. /\ e \in [addr : Nat, len : Nat, type : Nat]
          /\ High(High(e.addr)) = 0 /\ High(High(e.len)) = 0 /\ High(e.type) = 0
      <4>1. mmap \in MemoryMaps /\ i \in Nat
        BY DEF BootInv, LoopInv, TestInv, CountInv
      <4>2. mmap \in Seq([addr : Nat, len : Nat, type : Nat]) /\ i + 1 \in 1 .. Len(mmap)
        BY <2>1, <4>1, MapsAssumption
      <4>3. e \in [addr : Nat, len : Nat, type : Nat]
        <5> DEFINE Entry == [addr : Nat, len : Nat, type : Nat]
        <5>1. mmap \in Seq(Entry) /\ i + 1 \in 1 .. Len(mmap)
          BY <4>2
        <5> HIDE DEF Entry
        <5>2. mmap[i + 1] \in Entry
          BY <5>1
        <5> QED
          BY <5>2 DEF Entry
      <4>4. High(High(e.addr)) = 0 /\ High(High(e.len)) = 0 /\ High(e.type) = 0
        BY <4>1, <4>2, MapsAssumption, Zenon
      <4> QED
        BY <4>3, <4>4
    <3>2. printed' = {Number(e.addr, 16, ultox(e.addr, 20)), Number(e.len, 16, ultox(e.len, 20)),
                      Number(e.type, 16, utox(e.type, 20))}
      BY <1>3, <2>1 DEF print_map
    <3> HIDE DEF e
    <3> QED
      BY <3>1, <3>2, HexPrinted DEF PrintInv
  <2>2. CASE ~(i < Len(mmap))
    BY <1>1, <1>3, <2>2 DEF print_map
  <2> QED
    BY <2>1, <2>2
<1>4. CASE test_paging
  <2>1. CASE t_page \/ t_copy \/ t_write \/ t_remap
    <3>1. CASE t_page
      BY <1>1, <3>1 DEF t_page, Go
    <3>2. CASE t_copy
      BY <1>1, <3>2 DEF t_copy, Go
    <3>3. CASE t_write
      BY <1>1, <3>3 DEF t_write, Go
    <3>4. CASE t_remap
      BY <1>1, <3>4, Zenon DEF t_remap, Go
    <3> QED
      BY <2>1, <3>1, <3>2, <3>3, <3>4
  <2>2. CASE t_first \/ t_second
    <3>1. PICK result \in {0, 1} : printed' = {Number(result, 10, itoa(result, 20))}
      BY <2>2 DEF t_first, t_second, Test
    <3>2. result \in Int /\ -Limit < result /\ result < Limit
      BY DEF Limit
    <3> QED
      BY <3>1, <3>2, DecimalPrinted DEF PrintInv
  <2> QED
    BY <1>4, <2>1, <2>2 DEF test_paging
<1>5. ASSUME NEW n \in Vectors, NEW x \in ScanCodes, irq_handler(n, x) PROVE PrintInv'
  <2>1. Resumed(FrameOf(n)).int_no = n
    BY <1>5, TablesServeInterrupts DEF InterruptsReturn, irq_handler
  <2>2. printed' = Printed(n, x)
    BY <1>5, <2>1 DEF irq_handler
  <2>3. n \in Int /\ -Limit < n /\ n < Limit
    BY DEF Vectors, handlersCount, Limit
  <2>4. x \in Nat /\ x < Limit
    BY ScanCodesAssumption DEF Limit
  <2>5. printed' \subseteq {Number(n, 10, itoa(n, 12)), Number(x, 10, utoa(x, 12))}
    BY <2>2 DEF Printed
  <2> QED
    BY <2>3, <2>4, <2>5, DecimalPrinted, UnsignedPrinted DEF PrintInv
<1>6. CASE UNCHANGED vars
  BY <1>6 DEF PrintInv, vars
<1> QED
  BY <1>2, <1>3, <1>4, <1>5, <1>6 DEF Next

\* Whatever the memory map, the scan codes and the samples, as long as they keep to
\* the widths of the code's types: every number that printMultibootInfo, test_paging
\* and irq_handler print reads back from its text, so do the samples, and only utoa
\* writes in front of its buffer.
THEOREM NumbersReadBack == Spec => []PrintedAsMeant
<1>1. Init => PrintInv
  BY DEF Init, PrintInv
<1>2. BootInv /\ CountInv /\ ProcessorInv /\ PrintInv /\ [Next]_vars => PrintInv'
  BY PrintStep
<1>3. PrintInv => PrintedAsMeant
  BY EverySample DEF PrintInv, PrintedAsMeant, ReadsAs
<1> QED
  BY <1>1, <1>2, <1>3, ProcessorInvariant, PTL DEF Spec
=============================================================================
