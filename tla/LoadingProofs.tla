--------------------------- MODULE LoadingProofs ---------------------------
(***************************************************************************)
(* Theorems about ProgramLoading: locations, addresses and branch targets, *)
(* for programs of every size, in address spaces of every size, wherever   *)
(* an import puts the modules.                                             *)
(***************************************************************************)
EXTENDS ProgramLoading, SequenceLemmas

-----------------------------------------------------------------------------
(* Addresses modulo Word.                                                  *)

LEMMA WordIs == Word \in Nat \ {0}
BY LoaderAssumption

LEMMA AddressRange == \A x \in Int : x % Word \in 0..(Word - 1)
BY WordIs, SMT

LEMMA AddressSmall == \A x \in 0..(Word - 1) : x % Word = x
BY WordIs, SMT

LEMMA AddressWraps ==
    \A x \in Nat : x >= Word /\ x < Word + Word => x % Word = x - Word
BY WordIs, SMT

LEMMA AddressSum ==
    ASSUME NEW x \in Int, NEW y \in Int
    PROVE  ((x % Word) + y) % Word = (x + y) % Word
<1> DEFINE q == ((x % Word) + y) \div Word
           r == ((x % Word) + y) % Word
           d == x \div Word
<1>1. Word \in Nat \ {0} /\ x % Word \in 0..(Word - 1) /\ r \in 0..(Word - 1)
  <2>1. Word \in Nat \ {0} /\ x % Word \in 0..(Word - 1)
    BY WordIs, AddressRange
  <2>2. (x % Word) + y \in Int
    BY <2>1
  <2>. QED  BY <2>1, <2>2, AddressRange
<1>2. q \in Int /\ d \in Int /\ (x % Word) + y = Word * q + r /\ x = Word * d + (x % Word)
  BY <1>1, SMT
<1>3. PICK w : w = x % Word
  OBVIOUS
<1> HIDE DEF q, r, d
<1>4. x + y = Word * (q + d) + r
  BY <1>1, <1>2, <1>3, SMT
<1>5. \A z \in Int, k \in Int, t \in 0..(Word - 1) : z = Word * k + t => z % Word = t
  BY WordIs, SMT
<1>6. (x + y) % Word = r
  BY <1>1, <1>2, <1>4, <1>5
<1>. QED  BY <1>6 DEF r

-----------------------------------------------------------------------------
(* The files are one of the programs, and a module is at an address.       *)

LInv ==
    /\ files \in Programs
    /\ DOMAIN load = DOMAIN files
    /\ \A b \in DOMAIN load : load[b].text \in 0..(Word - 1) /\ load[b].bss \in 0..(Word - 1)

LEMMA InitLInv == LoadInit => LInv
BY LoaderAssumption DEF LoadInit, LInv

LEMMA StepLInv == LInv /\ [LoadNext]_loaderVars => LInv'
<1>. SUFFICES ASSUME LInv, [LoadNext]_loaderVars PROVE LInv'
  OBVIOUS
<1>1. CASE SetLoadInfo
  BY <1>1, LoadInfosAssumption DEF SetLoadInfo, LInv
<1>2. CASE UNCHANGED <<files, load>>
  BY <1>2 DEF LInv
<1>. QED
  BY <1>1, <1>2 DEF LoadNext, RegisterSymbols, IndexSymbols, RegisterRelocations,
                    IndexRelocations, RegisterRel24Relocs, FinishRvl, Dies, Loaded, loaderVars

(* What is known of a section.                                             *)
LEMMA SectionFacts ==
    ASSUME LInv, NEW b \in DOMAIN files, NEW s \in DOMAIN files[b].sections
    PROVE  /\ Len(files) \in Nat /\ DOMAIN files = 1..Len(files) /\ s \in Nat
           /\ files[b].sections[s].length \in 0..(Word - 1)
           /\ getAddress(b, s) = {} \/ \E a \in 0..(Word - 1) : getAddress(b, s) = {a}
<1>1. /\ IsFile(files[b]) /\ Len(files) \in Nat /\ DOMAIN files = 1..Len(files)
  BY LoaderAssumption DEF LInv
<1>2. /\ s \in Nat /\ files[b].sections[s].offset \in Nat
      /\ files[b].sections[s].addr \in 0..(Word - 1)
      /\ files[b].sections[s].length \in 0..(Word - 1)
  BY <1>1 DEF IsFile
<1>3. load[b].text \in 0..(Word - 1) /\ load[b].bss \in 0..(Word - 1)
  BY DEF LInv
<1>4. (load[b].text + files[b].sections[s].offset) % Word \in 0..(Word - 1)
  <2>1. load[b].text + files[b].sections[s].offset \in Int
    BY <1>2, <1>3, LoaderAssumption
  <2>. QED  BY <2>1, AddressRange
<1>5. getAddress(b, s) = {} \/ \E a \in 0..(Word - 1) : getAddress(b, s) = {a}
  BY <1>2, <1>3, <1>4 DEF getAddress
<1>. QED  BY <1>1, <1>2, <1>5

(* The first of a set of rows.                                             *)
LEMMA FirstIsRow ==
    ASSUME NEW S \in SUBSET Nat, S # {}
    PROVE  FirstRow(S) \in S
BY LeastExists DEF FirstRow

-----------------------------------------------------------------------------
(* Places.                                                                 *)

LEMMA SpotsAre ==
    \A l : l \in Spots <=>
        \E b \in DOMAIN files : \E s \in DOMAIN files[b].sections :
            \E o \in 0..(files[b].sections[s].length - 1) : l = Loc(b, s, o)
BY DEF Spots

LEMMA Fields ==
    \A b, s, o : Loc(b, s, o).binary = b /\ Loc(b, s, o).section = s /\ Loc(b, s, o).offset = o
BY DEF Loc

(* The location found for an address has that address, also among the      *)
(* first m files only.                                                     *)
LEMMA FoundAmong ==
    ASSUME LInv, NEW m \in Nat, m <= Len(files), NEW v \in 0..(Word - 1)
    PROVE  resolveVMA(m, v) \subseteq SpotsAt(v)
<1>. SUFFICES ASSUME NEW l \in resolveVMA(m, v) PROVE l \in SpotsAt(v)
  OBVIOUS
<1>1. PICK b \in 1..m :
         /\ SectionsAt(b, v) # {}
         /\ l = Loc(b, FirstRow(SectionsAt(b, v)),
                    v - (CHOOSE a \in getAddress(b, FirstRow(SectionsAt(b, v))) : TRUE))
  BY DEF resolveVMA
<1>2. PICK s : s = FirstRow(SectionsAt(b, v))
  OBVIOUS
<1>3. b \in DOMAIN files
  BY LoaderAssumption DEF LInv
<1>4. SectionsAt(b, v) \in SUBSET Nat
  BY <1>3, SectionFacts DEF SectionsAt
<1>5. s \in SectionsAt(b, v)
  BY <1>1, <1>2, <1>4, FirstIsRow
<1>6. PICK a \in getAddress(b, s) : a <= v /\ v < (a + files[b].sections[s].length) % Word
  BY <1>5 DEF SectionsAt
<1>7. s \in DOMAIN files[b].sections
  BY <1>5 DEF SectionsAt
<1>8. a \in 0..(Word - 1) /\ getAddress(b, s) = {a}
      /\ files[b].sections[s].length \in 0..(Word - 1)
  BY <1>3, <1>6, <1>7, SectionFacts
<1>9. l = Loc(b, s, v - a)
  BY <1>1, <1>2, <1>8
<1>10. PICK n : n = files[b].sections[s].length
  OBVIOUS
<1>11. v - a \in 0..(n - 1)
  <2>1. a \in Nat /\ n \in Nat /\ v \in Nat /\ a < Word /\ n < Word /\ a + n \in Nat
    BY <1>8, <1>10, WordIs
  <2>2. a <= v /\ v < (a + n) % Word
    BY <1>6, <1>10
  <2>3. CASE a + n < Word
    <3>1. a + n \in 0..(Word - 1)
      BY <2>1, <2>3, WordIs
    <3>2. (a + n) % Word = a + n
      BY <3>1, AddressSmall
    <3>. QED  BY <2>1, <2>2, <3>2
  <2>4. CASE a + n >= Word
    <3>1. a + n < Word + Word
      BY <2>1, WordIs
    <3>2. PICK x \in Nat : x = a + n
      BY <2>1
    <3>3. x % Word = x - Word
      BY <2>4, <3>1, <3>2, AddressWraps
    <3>. QED  BY <2>1, <2>2, <3>2, <3>3, WordIs
  <2>. QED  BY <2>1, <2>3, <2>4, WordIs
<1>12. l \in Spots
  BY <1>3, <1>7, <1>9, <1>10, <1>11, SpotsAre
<1>13. getLocationVMA(l) = {v}
  <2>1. a + (v - a) = v /\ v % Word = v
    BY <1>8, AddressSmall, LoaderAssumption
  <2>. QED  BY <1>8, <1>9, <2>1, Fields DEF getLocationVMA
<1>. QED  BY <1>12, <1>13 DEF SpotsAt

LEMMA FoundIsThere ==
    ASSUME LInv, NEW v \in 0..(Word - 1)
    PROVE  resolveVMA(Len(files), v) \subseteq SpotsAt(v)
<1>1. Len(files) \in Nat
  BY LoaderAssumption DEF LInv
<1>. QED  BY <1>1, FoundAmong

(* Where addresses are told apart and do not wrap, every address is found. *)
LEMMA ThereIsFound ==
    ASSUME LInv, Disjoint, NEW v \in 0..(Word - 1), NEW l \in SpotsAt(v)
    PROVE  l \in resolveVMA(Len(files), v)
<1>1. l \in Spots /\ getLocationVMA(l) = {v}
  BY DEF SpotsAt
<1>2. PICK b, s, o : /\ b \in DOMAIN files /\ s \in DOMAIN files[b].sections
                     /\ o \in 0..(files[b].sections[s].length - 1) /\ l = Loc(b, s, o)
  BY <1>1, SpotsAre
<1>3. PICK n : n = files[b].sections[s].length
  OBVIOUS
<1>4. n \in 0..(Word - 1) /\ o \in 0..(n - 1)
  BY <1>2, <1>3, SectionFacts
<1>5. getLocationVMA(l) = {(a + o) % Word : a \in getAddress(b, s)}
  BY <1>2, Fields DEF getLocationVMA
<1>6. PICK a \in 0..(Word - 1) : getAddress(b, s) = {a}
  BY <1>1, <1>2, <1>5, SectionFacts
<1>7. v = (a + o) % Word
  BY <1>1, <1>5, <1>6
<1>8. a + n < Word
  <2>. SUFFICES ASSUME a + n >= Word PROVE FALSE
    BY <1>4, LoaderAssumption
  <2>1. PICK p : p = Word - 1 - a
    OBVIOUS
  <2>2. p \in 0..(n - 1) /\ a + p = Word - 1
    BY <1>4, <2>1, LoaderAssumption
  <2>3. Loc(b, s, p) \in Spots
    BY <1>2, <1>3, <2>2, SpotsAre
  <2>4. (Word - 1) % Word = Word - 1
    BY AddressSmall, LoaderAssumption
  <2>5. getLocationVMA(Loc(b, s, p)) = {(x + p) % Word : x \in getAddress(b, s)}
    BY Fields DEF getLocationVMA
  <2>6. Word - 1 \in getLocationVMA(Loc(b, s, p))
    BY <1>6, <2>2, <2>4, <2>5
  <2>. QED  BY <2>3, <2>6 DEF Disjoint
<1>9. v = a + o /\ (a + n) % Word = a + n
  <2>1. a + o \in 0..(Word - 1) /\ a + n \in 0..(Word - 1)
    BY <1>4, <1>8, WordIs
  <2>. QED  BY <1>7, <2>1, AddressSmall
<1>10. s \in SectionsAt(b, v)
  <2>1. a <= v /\ v < (a + n) % Word
    BY <1>4, <1>6, <1>9, WordIs
  <2>. QED  BY <1>2, <1>3, <1>6, <2>1 DEF SectionsAt
<1> DEFINE has == {c \in 1..Len(files) : SectionsAt(c, v) # {}}
<1>11. has \in SUBSET Nat /\ b \in has
  BY <1>2, <1>10, LoaderAssumption DEF LInv
<1>12. FirstRow(has) \in has
  <2> HIDE DEF has
  <2>. QED  BY <1>11, FirstIsRow
<1>13. resolveVMA(Len(files), v) # {}
  BY <1>12 DEF resolveVMA
<1>14. PICK m \in resolveVMA(Len(files), v) : TRUE
  BY <1>13
<1>15. m \in SpotsAt(v)
  BY <1>14, FoundIsThere
<1>. QED  BY <1>14, <1>15 DEF Disjoint

(* For all programs, address spaces and load addresses, a location found   *)
(* for an address has it, and where no two places share an address and none *)
(* is the last, every one is found.                                        *)
THEOREM RoundTripAlways == LoadSpec => []RoundTrip
<1>1. LInv => RoundTrip
  BY FoundIsThere, ThereIsFound DEF RoundTrip
<1>. QED  BY <1>1, InitLInv, StepLInv, PTL DEF LoadSpec

(* For all programs and address spaces, a target that is found is where    *)
(* the processor would go, and a relative branch finds none only if it     *)
(* leaves its section.                                                     *)
THEOREM TargetsAlwaysExact == LoadSpec => []TargetsExact
<1>1. ASSUME LInv PROVE TargetsExact
  <2>. SUFFICES ASSUME NEW pc \in Spots, NEW v \in Values, NEW isAbsolute \in BOOLEAN,
                       getReferenceAtLocation(pc) = {}
                PROVE  LET t == resolveTarget(pc, v, isAbsolute)
                       IN  /\ \A l \in t :
                                 /\ l \in Spots
                                 /\ isAbsolute => getLocationVMA(l) = {v % Word}
                                 /\ ~isAbsolute => l.section = pc.section /\ getLocationVMA(l)
                                       = {(a + v) % Word : a \in getLocationVMA(pc)}
                           /\ ~isAbsolute /\ t = {} =>
                                 ~\E l \in Spots : /\ l.binary = pc.binary
                                                  /\ l.section = pc.section
                                                  /\ l.offset = pc.offset + v
    BY DEF TargetsExact
  <2>1. v \in Int /\ v % Word \in 0..(Word - 1)
    BY ValuesAssumption, AddressRange
  <2>2. CASE isAbsolute
    <3>1. resolveTarget(pc, v, isAbsolute) \subseteq SpotsAt(v % Word)
      BY <1>1, <2>1, <2>2, FoundIsThere DEF resolveTarget
    <3>. QED  BY <2>2, <3>1 DEF SpotsAt
  <2>3. CASE ~isAbsolute
    <3>1. PICK b, s, o : /\ b \in DOMAIN files /\ s \in DOMAIN files[b].sections
                         /\ o \in 0..(files[b].sections[s].length - 1) /\ pc = Loc(b, s, o)
      BY SpotsAre
    <3>2. PICK n, w : n = files[b].sections[s].length /\ w = o + v
      OBVIOUS
    <3>3. resolveTarget(pc, v, isAbsolute) = IF w \in 0..(n - 1) THEN {Loc(b, s, w)} ELSE {}
      BY <2>3, <3>1, <3>2, Fields DEF resolveTarget, SectionOf, Loc
    <3>4. n \in Nat /\ o \in Nat /\ w \in Int
      BY <1>1, <2>1, <3>1, <3>2, SectionFacts, WordIs
    <3>5. CASE w \in 0..(n - 1)
      <4>1. Loc(b, s, w) \in Spots
        BY <3>1, <3>2, <3>5, SpotsAre
      <4>2. /\ getLocationVMA(Loc(b, s, w)) = {(a + w) % Word : a \in getAddress(b, s)}
            /\ getLocationVMA(pc) = {(a + o) % Word : a \in getAddress(b, s)}
        BY <3>1, Fields DEF getLocationVMA
      <4>3. \A a \in getAddress(b, s) : a \in Int
        BY <1>1, <3>1, SectionFacts, WordIs
      <4>4. ASSUME NEW a \in getAddress(b, s)
            PROVE  (a + w) % Word = (((a + o) % Word) + v) % Word
        <5>1. a + o \in Int /\ (a + o) + v = a + w
          BY <2>1, <3>2, <3>4, <4>3
        <5>. QED  BY <2>1, <5>1, AddressSum
      <4>5. getLocationVMA(Loc(b, s, w)) = {(a + v) % Word : a \in getLocationVMA(pc)}
        BY <4>2, <4>4
      <4>. QED  BY <2>3, <3>1, <3>3, <3>5, <4>1, <4>5, Fields
    <3>6. CASE w \notin 0..(n - 1)
      <4>1. ASSUME NEW l \in Spots, l.binary = b, l.section = s, l.offset = w PROVE FALSE
        <5>1. PICK c, t, p : /\ c \in DOMAIN files /\ t \in DOMAIN files[c].sections
                             /\ p \in 0..(files[c].sections[t].length - 1) /\ l = Loc(c, t, p)
          BY SpotsAre
        <5>2. c = b /\ t = s /\ p = w
          BY <4>1, <5>1, Fields
        <5>. QED  BY <3>2, <3>6, <5>1, <5>2
      <4>. QED  BY <2>3, <3>1, <3>2, <3>3, <3>6, <4>1, Fields
    <3>. QED  BY <3>5, <3>6
  <2>. QED  BY <2>2, <2>3
<1>. QED  BY <1>1, InitLInv, StepLInv, PTL DEF LoadSpec

-----------------------------------------------------------------------------
(* What a place of an RVL program refers to.                               *)

(* The place of the DOL at an address, and the reference of a place, by    *)
(* the files alone.                                                        *)
DolSpot(l, v) ==
    /\ l \in Spots /\ files[l.binary].kind = "dol"
    /\ files[l.binary].sections[l.section].addr + l.offset = v
DolSpots(v) == {l \in Spots : DolSpot(l, v)}
Referred(pc) ==
    IF files[pc.binary].kind = "dol" \/ RelocsAt(pc) = {} THEN {}
    ELSE LET row == files[pc.binary].relocs[FirstRow(RelocsAt(pc))]
         IN  IF row.module = 0 THEN DolSpots(row.addend) ELSE RelReference(row)
RefersByFiles ==
    LInv /\ Disjoint /\ ~IsElf => \A pc \in Spots : getReferenceAtLocation(pc) = Referred(pc)

LEMMA DolSpotHas ==
    ASSUME LInv, NEW v \in 0..(Word - 1), NEW l, DolSpot(l, v)
    PROVE  l \in SpotsAt(v)
<1>1. PICK b, s, o : /\ b \in DOMAIN files /\ s \in DOMAIN files[b].sections
                     /\ o \in 0..(files[b].sections[s].length - 1) /\ l = Loc(b, s, o)
  BY SpotsAre DEF DolSpot
<1>2. getAddress(b, s) = {files[b].sections[s].addr} /\ files[b].sections[s].addr + o = v
  BY <1>1, Fields DEF DolSpot, getAddress
<1>3. getLocationVMA(l) = {(a + o) % Word : a \in getAddress(b, s)}
  BY <1>1, Fields DEF getLocationVMA
<1>4. v % Word = v
  BY AddressSmall
<1>5. getLocationVMA(l) = {v}
  BY <1>2, <1>3, <1>4
<1>. QED  BY <1>5 DEF SpotsAt, DolSpot

LEMMA FirstReloc ==
    ASSUME LInv, NEW pc \in Spots, RelocsAt(pc) # {}
    PROVE  FirstRow(RelocsAt(pc)) \in RelocsAt(pc)
<1>1. pc.binary \in DOMAIN files
  BY SpotsAre, Fields
<1>2. IsFile(files[pc.binary])
  BY <1>1, LoaderAssumption DEF LInv
<1>3. RelocsAt(pc) \in SUBSET Nat
  BY <1>2 DEF IsFile, RelocsAt
<1>. QED  BY <1>3, FirstIsRow

(* A REL's relocation that names module 0 has one place in the DOL.        *)
LEMMA DolRow ==
    ASSUME LInv, NEW b \in DOMAIN files, NEW r \in DOMAIN files[b].relocs,
           files[b].kind = "rel", files[b].relocs[r].module = 0
    PROVE  /\ files[b].relocs[r].addend \in 0..(Word - 1)
           /\ DolSpots(files[b].relocs[r].addend) # {}
<1>1. PICK v : v = files[b].relocs[r].addend
  OBVIOUS
<1>2. files \in Programs
  BY DEF LInv
<1>3. PICK d \in DOMAIN files : /\ v \in 0..(Word - 1) /\ files[d].kind = "dol"
                               /\ \E s \in DOMAIN files[d].sections :
                                     /\ files[d].sections[s].addr <= v
                                     /\ v < files[d].sections[s].addr + files[d].sections[s].length
  BY <1>1, <1>2, DolAssumption
<1>4. PICK s \in DOMAIN files[d].sections :
         /\ files[d].sections[s].addr <= v
         /\ v < files[d].sections[s].addr + files[d].sections[s].length
  BY <1>3
<1>5. IsFile(files[d])
  BY <1>2, LoaderAssumption
<1>6. PICK a, n : a = files[d].sections[s].addr /\ n = files[d].sections[s].length
  OBVIOUS
<1>7. a \in Nat /\ n \in Nat
  BY <1>4, <1>5, <1>6, WordIs DEF IsFile
<1>8. v - a \in 0..(n - 1) /\ a + (v - a) = v
  BY <1>3, <1>4, <1>6, <1>7
<1>9. Loc(d, s, v - a) \in Spots
  BY <1>3, <1>4, <1>6, <1>8, SpotsAre
<1>10. DolSpot(Loc(d, s, v - a), v)
  BY <1>3, <1>6, <1>8, <1>9, Fields DEF DolSpot
<1>. QED  BY <1>1, <1>3, <1>9, <1>10 DEF DolSpots

LEMMA Refers == RefersByFiles
<1>. SUFFICES ASSUME LInv, Disjoint, ~IsElf, NEW pc \in Spots
              PROVE  getReferenceAtLocation(pc) = Referred(pc)
  BY DEF RefersByFiles
<1>1. CASE files[pc.binary].kind = "dol" \/ RelocsAt(pc) = {}
  BY <1>1 DEF getReferenceAtLocation, Referred
<1>2. CASE ~(files[pc.binary].kind = "dol" \/ RelocsAt(pc) = {})
  <2>1. PICK b, r : b = pc.binary /\ r = FirstRow(RelocsAt(pc))
    OBVIOUS
  <2>2. b \in DOMAIN files /\ r \in DOMAIN files[b].relocs
    <3>1. r \in RelocsAt(pc)
      BY <1>2, <2>1, FirstReloc
    <3>2. b \in DOMAIN files
      BY <2>1, SpotsAre, Fields
    <3>. QED  BY <2>1, <3>1, <3>2 DEF RelocsAt
  <2>3. files[b].kind = "rel"
    BY <1>2, <2>1, <2>2, LoaderAssumption DEF LInv, IsElf, IsFile
  <2>4. getReferenceAtLocation(pc) = RelReference(files[b].relocs[r])
    BY <1>2, <2>1 DEF getReferenceAtLocation
  <2>5. CASE files[b].relocs[r].module = 0
    <3>1. PICK v : v = files[b].relocs[r].addend
      OBVIOUS
    <3>2. v \in 0..(Word - 1) /\ DolSpots(v) # {}
      BY <2>2, <2>3, <2>5, <3>1, DolRow
    <3>3. \A l \in DolSpots(v) : l \in SpotsAt(v) /\ l \in resolveVMA(Len(files), v)
      BY <3>2, DolSpotHas, ThereIsFound DEF DolSpots
    <3>4. \A l \in resolveVMA(Len(files), v) : l \in SpotsAt(v)
      BY <3>2, FoundIsThere
    <3>5. \A l, m \in SpotsAt(v) : l = m
      BY <3>2 DEF Disjoint
    <3>6. resolveVMA(Len(files), v) = DolSpots(v)
      BY <3>2, <3>3, <3>4, <3>5
    <3>. QED  BY <1>2, <2>1, <2>4, <2>5, <3>1, <3>6 DEF Referred, RelReference
  <2>6. CASE files[b].relocs[r].module # 0
    BY <1>2, <2>1, <2>4, <2>6 DEF Referred
  <2>. QED  BY <2>5, <2>6
<1>. QED  BY <1>1, <1>2

(* It is in the module the relocation names.                               *)
LEMMA RefersToModule ==
    ASSUME LInv, Disjoint, ~IsElf, NEW pc \in Spots,
           NEW l \in getReferenceAtLocation(pc), l # Thrown
    PROVE  \E r \in RelocsAt(pc) : files[pc.binary].relocs[r].module = ModuleOf(l.binary)
<1>1. l \in Referred(pc)
  BY Refers DEF RefersByFiles
<1>2. PICK r : r = FirstRow(RelocsAt(pc))
  OBVIOUS
<1>3. RelocsAt(pc) # {} /\ r \in RelocsAt(pc)
  BY <1>1, <1>2, FirstReloc DEF Referred
<1>4. PICK row : row = files[pc.binary].relocs[r]
  OBVIOUS
<1>5. l \in IF row.module = 0 THEN DolSpots(row.addend) ELSE RelReference(row)
  BY <1>1, <1>2, <1>4 DEF Referred
<1>6. CASE row.module = 0
  BY <1>3, <1>4, <1>5, <1>6 DEF DolSpots, DolSpot, ModuleOf
<1>7. CASE row.module # 0
  <2>1. PICK b \in moduleId2binaryIdx(row.module) : l = Loc(b, row.target, row.addend)
    BY <1>5, <1>7 DEF RelReference
  <2>2. l.binary = b
    BY <2>1, Fields
  <2>3. IF files[b].kind = "rel" THEN files[b].id = row.module ELSE row.module = 0
    BY <2>1 DEF moduleId2binaryIdx
  <2>. QED  BY <1>3, <1>4, <1>7, <2>2, <2>3 DEF ModuleOf
<1>. QED  BY <1>6, <1>7

(* For all programs whose references to the DOL are to places in it, a     *)
(* reference is in the module the file names and stays what it is whatever *)
(* module gets its addresses when, as long as places are told apart.       *)
THEOREM ReferencesAlwaysStand == LoadSpec => ReferencesStand
<1> DEFINE A == phase = "done" /\ ~IsElf =>
                   \A pc \in Spots :
                       /\ Disjoint /\ Disjoint' =>
                             getReferenceAtLocation(pc)' = getReferenceAtLocation(pc)
                       /\ \A l \in getReferenceAtLocation(pc) \ {Thrown} :
                             Disjoint => \E r \in RelocsAt(pc) :
                                 files[pc.binary].relocs[r].module = ModuleOf(l.binary)
<1>1. RefersByFiles /\ RefersByFiles'
  BY Refers, PTL
<1>2. LInv /\ [LoadNext]_loaderVars => [A]_loaderVars
  <2>. SUFFICES ASSUME LInv, [LoadNext]_loaderVars, ~IsElf, NEW pc \in Spots
                PROVE  /\ Disjoint /\ Disjoint' =>
                             getReferenceAtLocation(pc)' = getReferenceAtLocation(pc)
                       /\ \A l \in getReferenceAtLocation(pc) \ {Thrown} :
                             Disjoint => \E r \in RelocsAt(pc) :
                                 files[pc.binary].relocs[r].module = ModuleOf(l.binary)
    OBVIOUS
  <2>1. files' = files /\ LInv'
    BY StepLInv DEF LoadNext, RegisterSymbols, IndexSymbols, RegisterRelocations,
                    IndexRelocations, RegisterRel24Relocs, FinishRvl, SetLoadInfo, Dies, Loaded,
                    loaderVars
  <2>2. ASSUME Disjoint, Disjoint'
        PROVE  getReferenceAtLocation(pc)' = getReferenceAtLocation(pc)
    <3>1. Spots' = Spots /\ IsElf' = IsElf
      BY <2>1 DEF Spots, IsElf
    <3>2. getReferenceAtLocation(pc) = Referred(pc)
      BY <1>1, <2>2 DEF RefersByFiles
    <3>3. getReferenceAtLocation(pc)' = Referred(pc)'
      BY <1>1, <2>1, <2>2, <3>1 DEF RefersByFiles
    <3>4. /\ RelocsAt(pc)' = RelocsAt(pc)
          /\ \A v : DolSpots(v)' = DolSpots(v)
          /\ \A id : moduleId2binaryIdx(id)' = moduleId2binaryIdx(id)
      BY <2>1, <3>1 DEF RelocsAt, DolSpots, DolSpot, moduleId2binaryIdx
    <3>5. Referred(pc)' = Referred(pc)
      BY <2>1, <3>4 DEF Referred, RelReference
    <3>. QED  BY <3>2, <3>3, <3>5
  <2>. QED  BY <2>2, RefersToModule
<1>. QED  BY <1>2, InitLInv, StepLInv, PTL DEF LoadSpec, ReferencesStand

-----------------------------------------------------------------------------
(* The names of an ELF program.                                            *)

(* The symbols that enter the table, and the rows that are entered.        *)
Enters(sym) == sym.section # Undefined /\ sym.type # "section"
RowOf(row, b, sym) ==
    /\ row.name = sym.name /\ row.binding = sym.binding /\ row.location \in Meant(b, sym)
SymbolsRead(n) ==
    /\ \A row \in Elements(symbols) : \E b \in 1..n : \E k \in DOMAIN files[b].symbols :
          Enters(files[b].symbols[k]) /\ RowOf(row, b, files[b].symbols[k])
    /\ \A b \in 1..n : \A k \in DOMAIN files[b].symbols :
          Enters(files[b].symbols[k]) =>
              \E row \in Elements(symbols) : RowOf(row, b, files[b].symbols[k])
RelocsRead(n) ==
    \A b \in 1..n : \A k \in DOMAIN files[b].relocs : RelocResolved(b, files[b].relocs[k])

(* The first files have been read; the rest is untouched.  From the end of *)
(* the symbols on a name leads to its first row that is not local.         *)
ElfInv ==
    /\ IsSequence(symbols) /\ IsSequence(relocs)
    /\ at \in Nat
    /\ phase = "symbols" => at - 1 \in 0..Len(files) /\ SymbolsRead(at - 1)
    /\ phase \in {"relocs", "done"} =>
          SymbolsRead(Len(files)) /\ index.name = NameIndex(symbols)
    /\ phase = "relocs" => at - 1 \in 0..Len(files) /\ RelocsRead(at - 1)
    /\ phase = "done" => RelocsRead(Len(files))

LEMMA ElfFiles ==
    ASSUME LInv, IsElf, NEW b \in DOMAIN files
    PROVE  /\ Len(files) \in Nat /\ DOMAIN files = 1..Len(files)
           /\ files[b].kind = "elf"
           /\ IsSequence(files[b].symbols) /\ IsSequence(files[b].relocs)
           /\ \A k \in DOMAIN files[b].symbols : files[b].symbols[k].value \in 0..(Word - 1)
           /\ \A r \in DOMAIN files[b].relocs : files[b].relocs[r].symbol \in DOMAIN files[b].symbols
<1>1. files \in Programs
  BY DEF LInv
<1>2. Len(files) \in Nat /\ DOMAIN files = 1..Len(files) /\ files[b].kind = "elf"
  BY <1>1, LoaderAssumption DEF IsElf
<1>. QED  BY <1>1, <1>2, ElfAssumption DEF IsSequence, Elements, ToSet

(* A symbol that is located is where its file means it to be.              *)
LEMMA LocatedAsMeant ==
    ASSUME LInv, IsElf, NEW n \in Nat, n <= Len(files), NEW b \in DOMAIN files,
           NEW k \in DOMAIN files[b].symbols
    PROVE  getElfSymbolLocation(n, b, files[b].symbols[k]) \subseteq Meant(b, files[b].symbols[k])
<1>1. PICK sym : sym = files[b].symbols[k]
  OBVIOUS
<1>2. sym.value \in 0..(Word - 1)
  BY <1>1, ElfFiles
<1>3. resolveVMA(n, sym.value) \subseteq SpotsAt(sym.value)
  BY <1>2, FoundAmong
<1>. QED  BY <1>1, <1>3 DEF getElfSymbolLocation, Meant

(* What is meant depends on the files and their addresses only.            *)
LEMMA MeantKept ==
    ASSUME files' = files, load' = load
    PROVE  /\ \A b, sym : Meant(b, sym)' = Meant(b, sym)
           /\ \A name : Definitions(name)' = Definitions(name)
<1>1. Spots' = Spots
  BY DEF Spots
<1>2. \A l : getLocationVMA(l)' = getLocationVMA(l)
  BY DEF getLocationVMA, getAddress
<1>3. \A v : SpotsAt(v)' = SpotsAt(v)
  BY <1>1, <1>2 DEF SpotsAt
<1>4. \A b, sym : Meant(b, sym)' = Meant(b, sym)
  BY <1>3 DEF Meant
<1>. QED  BY <1>4 DEF Definitions

LEMMA ReadKept ==
    ASSUME files' = files, load' = load, symbols' = symbols, NEW n, SymbolsRead(n)
    PROVE  SymbolsRead(n)'
<1>1. \A b, sym : Meant(b, sym)' = Meant(b, sym)
  BY MeantKept
<1>2. \A row, b, sym : RowOf(row, b, sym)' <=> RowOf(row, b, sym)
  BY <1>1 DEF RowOf
<1>3. \A row : row \in Elements(symbols)' <=> row \in Elements(symbols)
  BY DEF Elements
<1>4. ASSUME NEW row \in Elements(symbols)'
      PROVE  (\E b \in 1..n : \E k \in DOMAIN files[b].symbols :
                 Enters(files[b].symbols[k]) /\ RowOf(row, b, files[b].symbols[k]))'
  <2>1. PICK b \in 1..n : \E k \in DOMAIN files[b].symbols :
                 Enters(files[b].symbols[k]) /\ RowOf(row, b, files[b].symbols[k])
    BY <1>3, <1>4 DEF SymbolsRead
  <2>2. PICK k \in DOMAIN files[b].symbols :
                 Enters(files[b].symbols[k]) /\ RowOf(row, b, files[b].symbols[k])
    BY <2>1
  <2>. QED  BY <1>2, <2>2
<1>5. ASSUME NEW b \in 1..n, NEW k \in DOMAIN files[b].symbols, Enters(files[b].symbols[k])
      PROVE  (\E row \in Elements(symbols) : RowOf(row, b, files[b].symbols[k]))'
  <2>1. PICK row \in Elements(symbols) : RowOf(row, b, files[b].symbols[k])
    BY <1>5 DEF SymbolsRead
  <2>. QED  BY <1>2, <1>3, <2>1
<1>. QED  BY <1>4, <1>5 DEF SymbolsRead

(* What a lookup by name answers is a definition of the name, and there is *)
(* an answer when there is one.                                            *)
LEMMA NameFound ==
    ASSUME LInv, IsElf, IsSequence(symbols), SymbolsRead(Len(files)), NEW name
    PROVE  LET found == lookupByName(symbols, NameIndex(symbols), name)
           IN  /\ found = {} => Definitions(name) = {}
               /\ \A row \in found : row.location \in Definitions(name)
<1> DEFINE Named == {i \in DOMAIN symbols : symbols[i].binding # "local" /\ symbols[i].name = name}
           found == lookupByName(symbols, NameIndex(symbols), name)
           NamedBy(b) == {k \in DOMAIN files[b].symbols :
                            /\ files[b].symbols[k].name = name
                            /\ files[b].symbols[k].type # "section"
                            /\ files[b].symbols[k].binding # "local"
                            /\ files[b].symbols[k].section # Undefined}
<1>1. found = IF Named = {} THEN {} ELSE {symbols[FirstRow(Named)]}
  BY DEF lookupByName, Lookup, NameIndex
<1>2. Named \in SUBSET Nat
  <2>1. PICK S : symbols \in Seq(S)
    BY DEF IsSequence
  <2>. QED  BY <2>1, LenProperties
<1>3. \A l : l \in Definitions(name) <=>
         \E b \in DOMAIN files : \E k \in NamedBy(b) : l \in Meant(b, files[b].symbols[k])
  BY DEF Definitions
<1>4. DOMAIN files = 1..Len(files)
  BY LoaderAssumption DEF LInv
<1>5. ASSUME NEW l \in Definitions(name) PROVE found # {}
  <2>1. PICK b \in DOMAIN files : \E k \in NamedBy(b) : l \in Meant(b, files[b].symbols[k])
    BY <1>3, <1>5
  <2>2. PICK k \in NamedBy(b) : TRUE
    BY <2>1
  <2>3. PICK row \in Elements(symbols) : RowOf(row, b, files[b].symbols[k])
    BY <1>4, <2>2 DEF SymbolsRead, Enters
  <2>4. row.name = name /\ row.binding # "local"
    BY <2>2, <2>3 DEF RowOf
  <2>5. Named # {}
    BY <2>3, <2>4 DEF Elements
  <2> HIDE DEF Named
  <2>. QED  BY <1>1, <2>5
<1>6. ASSUME NEW row \in found PROVE row.location \in Definitions(name)
  <2>1. PICK i \in Named : row = symbols[i]
    <3>1. Named # {} /\ row = symbols[FirstRow(Named)]
      <4> HIDE DEF Named
      <4>. QED  BY <1>1, <1>6
    <3>2. FirstRow(Named) \in Named
      <4> HIDE DEF Named
      <4>. QED  BY <1>2, <3>1, FirstIsRow
    <3>. QED  BY <3>1, <3>2
  <2>2. row \in Elements(symbols) /\ row.name = name /\ row.binding # "local"
    BY <2>1 DEF Elements
  <2>3. PICK b \in 1..Len(files) : \E k \in DOMAIN files[b].symbols :
            Enters(files[b].symbols[k]) /\ RowOf(row, b, files[b].symbols[k])
    BY <2>2 DEF SymbolsRead
  <2>4. PICK k \in DOMAIN files[b].symbols :
            Enters(files[b].symbols[k]) /\ RowOf(row, b, files[b].symbols[k])
    BY <2>3
  <2>5. k \in NamedBy(b) /\ row.location \in Meant(b, files[b].symbols[k])
    BY <2>2, <2>4 DEF Enters, RowOf
  <2>. QED  BY <1>3, <1>4, <2>5
<1>. QED  BY <1>5, <1>6

(* The destination of a relocation is one of those NamesResolved allows.   *)
LEMMA DestinationAsMeant ==
    ASSUME LInv, IsElf, IsSequence(symbols), SymbolsRead(Len(files)),
           index.name = NameIndex(symbols), NEW b \in DOMAIN files, NEW k \in DOMAIN files[b].symbols,
           NEW l \in getElfRelocDest(b, files[b].symbols[k])
    PROVE  LET sym == files[b].symbols[k]
               D   == IF sym.section # Undefined THEN Meant(b, sym) ELSE Definitions(sym.name)
           IN  IF D = {} THEN l = Loc(1, 1, 0) ELSE l \in D
<1>1. PICK sym : sym = files[b].symbols[k]
  OBVIOUS
<1>2. CASE sym.section # Undefined
  <2>1. l \in Meant(b, sym)
    <3>1. Len(files) \in Nat /\ Len(files) <= Len(files)
      BY ElfFiles
    <3>2. getElfSymbolLocation(Len(files), b, sym) \subseteq Meant(b, sym)
      BY <1>1, <3>1, LocatedAsMeant
    <3>. QED  BY <1>1, <1>2, <3>2 DEF getElfRelocDest
  <2>. QED  BY <1>1, <1>2, <2>1
<1>3. CASE sym.section = Undefined
  <2>1. PICK found : found = lookupByName(symbols, NameIndex(symbols), sym.name)
    OBVIOUS
  <2>2. /\ found = {} => Definitions(sym.name) = {}
        /\ \A row \in found : row.location \in Definitions(sym.name)
    BY <2>1, NameFound
  <2>3. l \in IF found = {} THEN {Loc(1, 1, 0)} ELSE {s.location : s \in found}
    BY <1>1, <1>3, <2>1 DEF getElfRelocDest
  <2>. QED  BY <1>1, <1>3, <2>2, <2>3
<1>. QED  BY <1>2, <1>3

LEMMA InitElfInv == LoadInit /\ IsElf => ElfInv
<1>. SUFFICES ASSUME LoadInit, IsElf PROVE ElfInv
  OBVIOUS
<1>1. symbols = <<>> /\ relocs = <<>> /\ at = 1 /\ phase = "symbols" /\ Len(files) \in Nat
  BY LoaderAssumption DEF LoadInit
<1>2. IsSequence(<<>>) /\ Elements(<<>>) = {}
  BY DEF IsSequence, Elements
<1>3. SymbolsRead(0)
  BY <1>1, <1>2 DEF SymbolsRead
<1>. QED  BY <1>1, <1>2, <1>3 DEF ElfInv

LEMMA RegisterSymbolsKeeps ==
    ASSUME LInv, IsElf, ElfInv, RegisterSymbols PROVE ElfInv'
<1>1. /\ phase = "symbols" /\ at \in Nat /\ at - 1 \in 0..Len(files) /\ at <= Len(files)
      /\ files' = files /\ load' = load /\ relocs' = relocs /\ index' = index
  BY DEF RegisterSymbols, ElfInv, Dies
<1>2. CASE phase' = "aborted" /\ UNCHANGED <<symbols, at>>
  BY <1>1, <1>2 DEF ElfInv
<1>3. CASE ~(phase' = "aborted" /\ UNCHANGED <<symbols, at>>)
  <2>1. PICK syms, f : syms = files[at].symbols /\ f = files[at]
    OBVIOUS
  <2>2. at \in DOMAIN files /\ at \in 1..Len(files) /\ Len(files) \in Nat
    BY <1>1, LoaderAssumption DEF LInv
  <2>3. IsSequence(syms)
    BY <2>1, <2>2, ElfFiles
  <2>4. PICK S : S = {s \in ToSet(syms) : s.section # Undefined /\ s.type # "section"}
    OBVIOUS
  <2>5. PICK defined : defined = Sublist(syms, S)
    OBVIOUS
  <2>6. IsSequence(defined) /\ Elements(defined) = {sym \in Elements(syms) : Enters(sym)}
    <3>1. PICK V : syms \in Seq(V)
      BY <2>3 DEF IsSequence
    <3>2. defined \in Seq(V \cap S) /\ Elements(defined) = Elements(syms) \cap S
      BY <2>5, <3>1, SublistHolds DEF Elements
    <3>3. S = {sym \in Elements(syms) : Enters(sym)}
      BY <2>4 DEF ToSet, Elements, Enters
    <3>. QED  BY <3>2, <3>3, SequenceIs
  <2>7. PICK place : place = [k \in DOMAIN defined |-> getElfSymbolLocation(at, at, defined[k])]
    OBVIOUS
  <2>8. PICK new : new = [k \in DOMAIN place |->
                             [location |-> TheOnly(place[k]), name |-> defined[k].name,
                              binding |-> defined[k].binding]]
    OBVIOUS
  <2>9. /\ \A k \in DOMAIN place : place[k] # {}
        /\ symbols' = symbols \o new /\ at' = at + 1 /\ phase' = phase
    BY <1>1, <1>3, <2>1, <2>4, <2>5, <2>7, <2>8 DEF RegisterSymbols, Dies
  <2>10. /\ IsSequence(new)
         /\ \A k \in DOMAIN defined : k \in DOMAIN new /\ RowOf(new[k], at, defined[k])
         /\ DOMAIN new = DOMAIN defined
    <3>1. DOMAIN new = DOMAIN defined /\ DOMAIN place = DOMAIN defined
      BY <2>7, <2>8
    <3>2. Len(defined) \in Nat /\ DOMAIN defined = 1..Len(defined)
      BY <2>6, LenProperties DEF IsSequence
    <3>3. ASSUME NEW k \in DOMAIN defined PROVE RowOf(new[k], at, defined[k])
      <4>1. PICK j \in DOMAIN syms : defined[k] = syms[j]
        BY <2>6 DEF Elements
      <4>2. getElfSymbolLocation(at, at, syms[j]) \subseteq Meant(at, syms[j])
        BY <1>1, <2>1, <2>2, <4>1, LocatedAsMeant
      <4>3. TheOnly(place[k]) \in place[k]
        BY <2>9, <3>1 DEF TheOnly
      <4>4. TheOnly(place[k]) \in Meant(at, defined[k])
        BY <2>7, <4>1, <4>2, <4>3
      <4>. QED  BY <2>8, <3>1, <4>4 DEF RowOf
    <3>. QED  BY <2>8, <3>1, <3>2, <3>3, FunctionIsSequence
  <2>11. IsSequence(symbols') /\ Elements(symbols') = Elements(symbols) \cup Elements(new)
    BY <2>9, <2>10, JoinedSequences DEF ElfInv
  <2>12. at' - 1 = at /\ at' \in Nat /\ at \in 1..at /\ \A b \in 1..at : b = at \/ b \in 1..(at - 1)
    BY <1>1, <2>9
  <2>14. SymbolsRead(at - 1)
    BY <1>1 DEF ElfInv
  <2>15. ASSUME NEW row \in Elements(symbols')
         PROVE  \E b \in 1..at : \E k \in DOMAIN files[b].symbols :
                   Enters(files[b].symbols[k]) /\ RowOf(row, b, files[b].symbols[k])
    <3>1. CASE row \in Elements(symbols)
      <4>1. PICK b \in 1..(at - 1) : \E k \in DOMAIN files[b].symbols :
                   Enters(files[b].symbols[k]) /\ RowOf(row, b, files[b].symbols[k])
        BY <2>14, <3>1 DEF SymbolsRead
      <4>2. b \in 1..at
        BY <1>1
      <4>. QED  BY <4>1, <4>2
    <3>2. CASE row \in Elements(new)
      <4>1. PICK k \in DOMAIN defined : row = new[k]
        BY <2>10, <3>2 DEF Elements
      <4>2. PICK j \in DOMAIN syms : defined[k] = syms[j] /\ Enters(syms[j])
        BY <2>6 DEF Elements
      <4>. QED  BY <2>1, <2>10, <2>12, <4>1, <4>2
    <3>. QED  BY <2>11, <2>15, <3>1, <3>2
  <2>16. ASSUME NEW b \in 1..at, NEW k \in DOMAIN files[b].symbols, Enters(files[b].symbols[k])
         PROVE  \E row \in Elements(symbols') : RowOf(row, b, files[b].symbols[k])
    <3>1. CASE b \in 1..(at - 1)
      BY <2>11, <2>14, <2>16, <3>1 DEF SymbolsRead
    <3>2. CASE b = at
      <4>1. syms[k] \in Elements(defined)
        BY <2>1, <2>6, <2>16, <3>2 DEF Elements
      <4>2. PICK j \in DOMAIN defined : syms[k] = defined[j]
        BY <4>1 DEF Elements
      <4>3. new[j] \in Elements(new) /\ RowOf(new[j], at, syms[k])
        BY <2>10, <4>2 DEF Elements
      <4>. QED  BY <2>1, <2>11, <3>2, <4>3
    <3>. QED  BY <2>12, <2>16, <3>1, <3>2
  <2>17. SymbolsRead(at - 1)'
    <3>1. \A b, sym : Meant(b, sym)' = Meant(b, sym)
      BY <1>1, MeantKept
    <3>. QED  BY <1>1, <2>12, <2>15, <2>16, <3>1 DEF SymbolsRead, RowOf, Enters, Elements
  <2>18. IsSequence(symbols)' /\ IsSequence(relocs)'
    BY <1>1, <2>11 DEF ElfInv, IsSequence, Elements
  <2>19. at' - 1 \in 0..Len(files') /\ phase' = "symbols"
    BY <1>1, <2>2, <2>9, <2>12
  <2>. QED  BY <2>12, <2>17, <2>18, <2>19 DEF ElfInv
<1>. QED  BY <1>2, <1>3

LEMMA RegisterRelocationsKeeps ==
    ASSUME LInv, IsElf, ElfInv, RegisterRelocations PROVE ElfInv'
<1>1. /\ phase = "relocs" /\ at \in Nat /\ at - 1 \in 0..Len(files) /\ at <= Len(files)
      /\ files' = files /\ load' = load /\ symbols' = symbols /\ index' = index
      /\ SymbolsRead(Len(files)) /\ index.name = NameIndex(symbols) /\ RelocsRead(at - 1)
  BY DEF RegisterRelocations, ElfInv, Dies
<1>2. CASE phase' = "aborted" /\ UNCHANGED <<relocs, at>>
  BY <1>1, <1>2 DEF ElfInv, IsSequence, Elements
<1>3. CASE ~(phase' = "aborted" /\ UNCHANGED <<relocs, at>>)
  <2>1. PICK rows : rows = files[at].relocs
    OBVIOUS
  <2>2. at \in DOMAIN files /\ at \in 1..Len(files) /\ Len(files) \in Nat
    BY <1>1, LoaderAssumption DEF LInv
  <2>3. IsSequence(rows) /\ \A k \in DOMAIN rows : rows[k].symbol \in DOMAIN files[at].symbols
    BY <2>1, <2>2, ElfFiles
  <2>4. PICK dest : dest = [k \in DOMAIN rows |->
                               getElfRelocDest(at, files[at].symbols[rows[k].symbol])]
    OBVIOUS
  <2>5. PICK new : new = [k \in DOMAIN rows |->
                             [source |-> Loc(at, rows[k].section, rows[k].offset),
                              destination |-> TheOnly(dest[k])]]
    OBVIOUS
  <2>6. /\ \A k \in DOMAIN dest : dest[k] # {}
        /\ relocs' = relocs \o new /\ at' = at + 1 /\ phase' = phase
    BY <1>1, <1>3, <2>1, <2>4, <2>5 DEF RegisterRelocations, Dies
  <2>7. IsSequence(new) /\ DOMAIN new = DOMAIN rows
    <3>1. Len(rows) \in Nat /\ DOMAIN rows = 1..Len(rows)
      BY <2>3, LenProperties DEF IsSequence
    <3>. QED  BY <2>5, <3>1, FunctionIsSequence
  <2>8. IsSequence(relocs') /\ Elements(relocs') = Elements(relocs) \cup Elements(new)
    BY <2>6, <2>7, JoinedSequences DEF ElfInv
  <2>9. at' - 1 = at /\ at' \in Nat /\ \A b \in 1..at : b = at \/ b \in 1..(at - 1)
    BY <1>1, <2>6
  <2>10. ASSUME NEW b \in DOMAIN files, NEW r
         PROVE  LET sym == files[b].symbols[r.symbol]
                    D   == IF sym.section # Undefined THEN Meant(b, sym)
                           ELSE Definitions(sym.name)
                IN  (\E row \in Elements(relocs') :
                        /\ row.source = Loc(b, r.section, r.offset)
                        /\ IF D = {} THEN row.destination = Loc(1, 1, 0)
                           ELSE row.destination \in D) => RelocResolved(b, r)'
    <3>1. /\ \A c, sym : Meant(c, sym)' = Meant(c, sym)
          /\ \A name : Definitions(name)' = Definitions(name)
      BY <1>1, MeantKept
    <3>. QED  BY <1>1, <3>1 DEF RelocResolved, Elements
  <2>11. ASSUME NEW b \in 1..at, NEW k \in DOMAIN files[b].relocs
         PROVE  RelocResolved(b, files[b].relocs[k])'
    <3>1. b \in DOMAIN files
      BY <2>2, LoaderAssumption DEF LInv
    <3>2. CASE b \in 1..(at - 1)
      <4>1. RelocResolved(b, files[b].relocs[k])
        BY <1>1, <3>2 DEF RelocsRead
      <4>2. \A i \in DOMAIN relocs : relocs[i] \in Elements(relocs')
        BY <2>8 DEF Elements
      <4>. QED  BY <1>1, <2>10, <3>1, <4>1, <4>2 DEF RelocResolved
    <3>3. CASE b = at
      <4>1. PICK r, s : r = rows[k] /\ s = r.symbol
        OBVIOUS
      <4>2. k \in DOMAIN rows /\ r = files[b].relocs[k] /\ s \in DOMAIN files[b].symbols
        BY <2>1, <2>3, <3>3, <4>1
      <4>3. PICK l : l = TheOnly(dest[k])
        OBVIOUS
      <4>4. l \in getElfRelocDest(b, files[b].symbols[s])
        BY <2>4, <2>6, <3>3, <4>1, <4>2, <4>3 DEF TheOnly
      <4>5. new[k] \in Elements(relocs') /\ new[k].destination = l
            /\ new[k].source = Loc(b, r.section, r.offset)
        BY <2>5, <2>7, <2>8, <3>3, <4>1, <4>2, <4>3 DEF Elements
      <4>6. LET sym == files[b].symbols[s]
                D   == IF sym.section # Undefined THEN Meant(b, sym) ELSE Definitions(sym.name)
            IN  IF D = {} THEN l = Loc(1, 1, 0) ELSE l \in D
        BY <1>1, <3>1, <4>2, <4>4, DestinationAsMeant DEF ElfInv
      <4>7. RelocResolved(b, r)'
        BY <2>10, <3>1, <4>1, <4>5, <4>6
      <4>. QED  BY <1>1, <4>2, <4>7
    <3>. QED  BY <2>9, <3>2, <3>3
  <2>12. RelocsRead(at - 1)'
    BY <1>1, <2>9, <2>11 DEF RelocsRead
  <2>13. SymbolsRead(Len(files))'
    BY <1>1, ReadKept
  <2>14. IsSequence(symbols)' /\ IsSequence(relocs)' /\ index'.name = NameIndex(symbols)'
    BY <1>1, <2>8 DEF ElfInv, IsSequence, Elements, NameIndex
  <2>15. at' - 1 \in 0..Len(files') /\ phase' = "relocs"
    BY <1>1, <2>2, <2>6, <2>9
  <2>. QED  BY <2>9, <2>12, <2>13, <2>14, <2>15 DEF ElfInv
<1>. QED  BY <1>2, <1>3

LEMMA StepElfInv ==
    LInv /\ (IsElf => ElfInv) /\ [LoadNext]_loaderVars => (IsElf => ElfInv)'
<1>. SUFFICES ASSUME LInv, IsElf => ElfInv, [LoadNext]_loaderVars, IsElf'
              PROVE  ElfInv'
  OBVIOUS
<1>1. files' = files /\ IsElf /\ ElfInv
  BY DEF IsElf, LoadNext, RegisterSymbols, IndexSymbols, RegisterRelocations, IndexRelocations,
         RegisterRel24Relocs, FinishRvl, SetLoadInfo, Dies, Loaded, loaderVars
<1>2. CASE RegisterSymbols
  BY <1>1, <1>2, RegisterSymbolsKeeps
<1>3. CASE RegisterRelocations
  BY <1>1, <1>3, RegisterRelocationsKeeps
<1>4. CASE IndexSymbols \/ IndexRelocations \/ UNCHANGED loaderVars
  <2>1. load' = load /\ symbols' = symbols /\ relocs' = relocs
    BY <1>4 DEF IndexSymbols, IndexRelocations, loaderVars
  <2>2. /\ \A b, sym : Meant(b, sym)' = Meant(b, sym)
        /\ \A name : Definitions(name)' = Definitions(name)
    BY <1>1, <2>1, MeantKept
  <2>3. /\ \A n : SymbolsRead(n) => SymbolsRead(n)'
        /\ IsSequence(symbols)' /\ IsSequence(relocs)'
        /\ NameIndex(symbols)' = NameIndex(symbols)
    <3>1. \A n : SymbolsRead(n) => SymbolsRead(n)'
      BY <1>1, <2>1, ReadKept
    <3>2. IsSequence(symbols)' /\ IsSequence(relocs)'
      BY <1>1, <2>1 DEF ElfInv, IsSequence, Elements
    <3>. QED  BY <2>1, <3>1, <3>2 DEF NameIndex
  <2>4. \A n : RelocsRead(n) => RelocsRead(n)'
    BY <1>1, <2>1, <2>2 DEF RelocsRead, RelocResolved
  <2>5. Len(files) \in Nat
    BY LoaderAssumption DEF LInv
  <2>6. CASE IndexSymbols
    <3>1. /\ phase = "symbols" /\ phase' = "relocs" /\ at' = 1 /\ at > Len(files)
          /\ index'.name = NameIndex(symbols)
      BY <2>6 DEF IndexSymbols
    <3>2. at - 1 = Len(files)
      BY <1>1, <2>5, <3>1 DEF ElfInv
    <3>3. SymbolsRead(Len(files))'
      BY <1>1, <2>3, <3>1, <3>2 DEF ElfInv
    <3>4. RelocsRead(at - 1)'
      BY <3>1 DEF RelocsRead
    <3>. QED  BY <1>1, <2>3, <2>5, <3>1, <3>3, <3>4 DEF ElfInv
  <2>7. CASE IndexRelocations
    <3>1. /\ phase = "relocs" /\ phase' = "done" /\ at' = at /\ at > Len(files)
          /\ index'.name = index.name
      BY <2>7 DEF IndexRelocations
    <3>2. at - 1 = Len(files)
      BY <1>1, <2>5, <3>1 DEF ElfInv
    <3>3. SymbolsRead(Len(files))' /\ RelocsRead(Len(files))'
      BY <1>1, <2>3, <2>4, <3>1, <3>2 DEF ElfInv
    <3>. QED  BY <1>1, <2>3, <3>1, <3>3 DEF ElfInv
  <2>8. CASE UNCHANGED loaderVars
    <3>1. at' = at /\ phase' = phase /\ index' = index
      BY <2>8 DEF loaderVars
    <3>. QED  BY <1>1, <2>3, <2>4, <3>1 DEF ElfInv
  <2>. QED  BY <1>4, <2>6, <2>7, <2>8
<1>5. CASE SetLoadInfo
  <2>1. PICK b \in DOMAIN files : files[b].kind = "rel"
    BY <1>5 DEF SetLoadInfo
  <2>. QED  BY <1>1, <2>1, ElfFiles
<1>. QED
  BY <1>1, <1>2, <1>3, <1>4, <1>5 DEF LoadNext, RegisterRel24Relocs, FinishRvl, Loaded

(* For ELF programs of every size, with names defined in any file, as often *)
(* as you like and in any order: every relocation of every file is in the  *)
(* table and leads to a definition that is not local if there is one, or   *)
(* to the first place of the program.                                      *)
THEOREM NamesAlwaysResolved == LoadSpec => []NamesResolved
<1>1. LInv /\ (IsElf => ElfInv) => NamesResolved
  BY LoaderAssumption DEF NamesResolved, ElfInv, RelocsRead, LInv
<1>2. LoadInit => (IsElf => ElfInv)
  BY InitElfInv
<1>. QED  BY <1>1, <1>2, InitLInv, StepLInv, StepElfInv, PTL DEF LoadSpec

=============================================================================
