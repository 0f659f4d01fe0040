-------------------------- MODULE EvdiMemoryProofs ----------------------------
(***************************************************************************)
(* What EvdiMemory promises for every number of objects, framebuffers and  *)
(* kinds: counts are numbers of holders, and no memory is used after it    *)
(* was given back.                                                         *)
(*                                                                         *)
(* A memory is accounted for by what its own records say (handles, maps,   *)
(* exports, ids, objects of framebuffers) and by two functions, hf and ho, *)
(* of what the rest of the driver holds.  Every get and put moves a unit   *)
(* of one of them.                                                         *)
(***************************************************************************)
EXTENDS EvdiMemory, Integers, FiniteSetTheorems, TLAPS

Memory == [obj : [Objs -> ObjRecord], fb : [Fbs -> FbRecord]]

\* The holders that a record names, as numbers.
Named(r)    == Count(r.id)
HandleOf(r) == Count(r.handle)
VmaOf(r)    == Count(r.vma)
ExportOf(r) == Count(r.exported)
OffsetOf(r) == Count(r.offset)

\* What the desktop holds of an object, and the framebuffers it is the memory of.
Held(r) == HandleOf(r) + VmaOf(r) + ExportOf(r)
FbsOf(m, o) == {f \in Fbs : m.fb[f].obj = o}

\* Mappings, and those whose pages are pinned by this driver.
Mappings(r) == Count(r.mapped)
Pinning(r)  == Count(r.mapped /\ r.kind # "import")

\* Mappings, exports and mmap offsets each have a pin; pages are there while
\* there are pins, and a free object has none.
ObjGood(r) ==
    /\ r.ref = 0 => ~r.pages /\ ~r.mapped /\ r.maps = 0
    /\ r.ref > 0 =>
        /\ r.maps = Mappings(r)
        /\ r.pins >= Pinning(r) + ExportOf(r) + OffsetOf(r)
        /\ r.pins > 0 => r.pages
        /\ r.vma => r.offset
FbGood(r) == IF r.ref = 0 THEN r = NoFb ELSE r.obj \in Objs

Good(m) ==
    /\ m \in Memory
    /\ \A o \in Objs : ObjGood(m.obj[o])
    /\ \A f \in Fbs : FbGood(m.fb[f])

Counted(m, hf, ho) ==
    /\ hf \in [Fbs -> Int] /\ ho \in [Objs -> Int]
    /\ \A f \in Fbs : m.fb[f].ref = Named(m.fb[f]) + hf[f]
    /\ \A o \in Objs : m.obj[o].ref = Held(m.obj[o]) + ho[o] + Cardinality(FbsOf(m, o))

Accounted(m, hf, ho) == Good(m) /\ Counted(m, hf, ho)

\* From m to n nothing becomes alive, and what stays alive stays mapped.
Keeps(m, n) ==
    /\ \A o \in Objs : n.obj[o].ref > 0 =>
          m.obj[o].ref > 0 /\ (m.obj[o].mapped => n.obj[o].mapped)
    /\ \A f \in Fbs : n.fb[f].ref > 0 =>
          /\ m.fb[f].ref > 0 /\ n.fb[f].obj = m.fb[f].obj
          /\ n.fb[f].id => m.fb[f].id

-----------------------------------------------------------------------------
(* One record *)

LEMMA Counts == \A r : /\ HandleOf(r) \in {0, 1} /\ VmaOf(r) \in {0, 1}
                       /\ ExportOf(r) \in {0, 1} /\ OffsetOf(r) \in {0, 1}
  BY DEF Count, HandleOf, VmaOf, ExportOf, OffsetOf

\* The counts of the mapping of r.
MappingCounted(r) ==
    /\ Mappings(r) \in {0, 1} /\ Pinning(r) \in {0, 1}
    /\ r.mapped => Mappings(r) = 1
    /\ ~r.mapped => Mappings(r) = 0 /\ Pinning(r) = 0
    /\ r.mapped /\ r.kind # "import" => Pinning(r) = 1
    /\ r.kind = "import" => Pinning(r) = 0

LEMMA MappingCounts == \A r \in ObjRecord : MappingCounted(r)
  BY DEF MappingCounted, Mappings, Pinning, Count, ObjRecord

LEMMA NamedType == \A r : Named(r) \in {0, 1}
  BY DEF Named, Count

LEMMA HeldType == ASSUME NEW r \in ObjRecord
                  PROVE  Held(r) \in Nat /\ (Held(r) = 0 => ~r.handle /\ ~r.vma /\ ~r.exported)
<1>1. r.handle \in BOOLEAN /\ r.vma \in BOOLEAN /\ r.exported \in BOOLEAN
  BY DEF ObjRecord
<1>2. HandleOf(r) \in {0, 1} /\ VmaOf(r) \in {0, 1} /\ ExportOf(r) \in {0, 1}
  BY Counts
<1>3. /\ r.handle => HandleOf(r) = 1
      /\ r.vma => VmaOf(r) = 1
      /\ r.exported => ExportOf(r) = 1
  BY DEF Count, HandleOf, VmaOf, ExportOf
<1>4. QED
  BY <1>2, <1>3 DEF Held

\* Pins, pages and mappings change under an object whose holders do not.
SameHolders(v, r) ==
    /\ v \in ObjRecord
    /\ v.ref = r.ref /\ v.kind = r.kind
    /\ v.handle = r.handle /\ v.offset = r.offset /\ v.vma = r.vma /\ v.exported = r.exported

LEMMA SetPins ==
    ASSUME NEW r \in ObjRecord, NEW n \in Nat
    PROVE  LET v == [r EXCEPT !.pins = n]
           IN  SameHolders(v, r) /\ v.pins = n
               /\ v.pages = r.pages /\ v.mapped = r.mapped /\ v.maps = r.maps
  BY DEF ObjRecord, SameHolders

LEMMA SetPages ==
    ASSUME NEW r \in ObjRecord, NEW p \in BOOLEAN
    PROVE  LET v == [r EXCEPT !.pages = p]
           IN  SameHolders(v, r) /\ v.pages = p
               /\ v.pins = r.pins /\ v.mapped = r.mapped /\ v.maps = r.maps
  BY DEF ObjRecord, SameHolders

LEMMA SetMapped ==
    ASSUME NEW r \in ObjRecord, NEW b \in BOOLEAN, NEW k \in Nat
    PROVE  LET v == [r EXCEPT !.mapped = b, !.maps = k]
           IN  SameHolders(v, r) /\ v.mapped = b /\ v.maps = k
               /\ v.pins = r.pins /\ v.pages = r.pages
  BY DEF ObjRecord, SameHolders

LEMMA SetMapping ==
    ASSUME NEW r \in ObjRecord, NEW k \in Nat
    PROVE  LET v == [r EXCEPT !.mapped = TRUE, !.maps = k]
           IN  SameHolders(v, r) /\ v.mapped /\ v.maps = k
               /\ v.pins = r.pins /\ v.pages = r.pages
  BY DEF ObjRecord, SameHolders

LEMMA PinOK ==
    ASSUME NEW r \in ObjRecord
    PROVE  SameHolders(Pin(r), r) /\ Pin(r).pins = r.pins + 1 /\ Pin(r).pages
           /\ Pin(r).mapped = r.mapped /\ Pin(r).maps = r.maps
<1>1. r.pins + 1 \in Nat
  BY DEF ObjRecord
<1> DEFINE u == [r EXCEPT !.pins = r.pins + 1]
           v == [u EXCEPT !.pages = TRUE]
<1>2. SameHolders(u, r) /\ u.pins = r.pins + 1 /\ u.mapped = r.mapped /\ u.maps = r.maps
  BY <1>1, SetPins
<1>3. SameHolders(v, u) /\ v.pages = TRUE
      /\ v.pins = u.pins /\ v.mapped = u.mapped /\ v.maps = u.maps
  <2>1. u \in ObjRecord
    BY <1>2 DEF SameHolders
  <2> HIDE DEF u
  <2>2. QED
    BY <2>1, SetPages
<1>4. Pin(r) = v
  BY DEF Pin
<1> HIDE DEF u, v
<1>5. QED
  BY <1>2, <1>3, <1>4 DEF SameHolders

LEMMA UnpinOK ==
    ASSUME NEW r \in ObjRecord, r.pins > 0
    PROVE  SameHolders(Unpin(r), r) /\ Unpin(r).pins = r.pins - 1
           /\ Unpin(r).mapped = r.mapped /\ Unpin(r).maps = r.maps
           /\ (Unpin(r).pages <=> r.pages /\ r.pins # 1)
<1>1. r.pins - 1 \in Nat /\ (r.pages /\ r.pins # 1) \in BOOLEAN
  BY DEF ObjRecord
<1> DEFINE u == [r EXCEPT !.pins = r.pins - 1]
           p == r.pages /\ r.pins # 1
           v == [u EXCEPT !.pages = p]
<1>2. SameHolders(u, r) /\ u.pins = r.pins - 1 /\ u.mapped = r.mapped /\ u.maps = r.maps
      /\ u.pages = r.pages
  BY <1>1, SetPins
<1>3. SameHolders(v, u) /\ v.pages = p
      /\ v.pins = u.pins /\ v.mapped = u.mapped /\ v.maps = u.maps
  <2>1. u \in ObjRecord /\ p \in BOOLEAN
    BY <1>1, <1>2 DEF SameHolders
  <2> HIDE DEF u, p
  <2>2. QED
    BY <2>1, SetPages
<1>4. Unpin(r) = v
  <2>1. u.pages = r.pages
    BY <1>2
  <2>2. QED
    BY DEF Unpin
<1> HIDE DEF u, v
<1>5. QED
  BY <1>2, <1>3, <1>4 DEF SameHolders

\* Who changes the mapping of a live object r to that of v changes its pins alike.
PinsFollow(v, r) ==
    /\ v.maps = Mappings(v) /\ (v.pins > 0 => v.pages)
    /\ v.pins + Pinning(r)
         >= r.pins + Pinning(v)

LEMMA PinsGood ==
    ASSUME NEW r \in ObjRecord, NEW v, SameHolders(v, r), ObjGood(r), r.ref > 0,
           PinsFollow(v, r)
    PROVE  ObjGood(v) /\ v.ref > 0 /\ Held(v) = Held(r)
<1> DEFINE km == Pinning(r)
           kv == Pinning(v)
           e == ExportOf(r)
           f == OffsetOf(r)
<1>1. km \in Nat /\ kv \in Nat /\ e \in Nat /\ f \in Nat
  <2>1. MappingCounted(r) /\ MappingCounted(v)
    BY MappingCounts DEF SameHolders
  <2>2. QED
    BY <2>1, Counts DEF MappingCounted
<1>2. r.pins >= km + e + f /\ (r.vma => r.offset)
  BY DEF ObjGood
<1>3. Pinning(v) = kv /\ ExportOf(v) = e
      /\ OffsetOf(v) = f /\ v.ref > 0 /\ (v.vma => v.offset)
  BY <1>2 DEF SameHolders, Pinning, ExportOf, OffsetOf
<1>4. v.pins + km >= r.pins + kv /\ v.maps = Mappings(v) /\ (v.pins > 0 => v.pages)
  BY DEF PinsFollow
<1>5. r.pins \in Nat /\ v.pins \in Nat /\ v.ref \in Nat
  BY DEF SameHolders, ObjRecord
<1> HIDE DEF km, kv, e, f
<1>6. v.pins >= kv + e + f
  BY <1>1, <1>2, <1>4, <1>5
<1>7. Held(v) = Held(r)
  BY DEF SameHolders, Held, HandleOf, VmaOf, ExportOf
<1>8. QED
  BY <1>3, <1>4, <1>5, <1>6, <1>7 DEF ObjGood

\* Whatever its result, evdi_gem_vmap leaves a pin for what it maps.
LEMMA VmapOK ==
    ASSUME NEW r \in ObjRecord, ObjGood(r), r.ref > 0, ~r.mapped,
           NEW result \in {"ok", "noPages", "noMap"}
    PROVE  LET v == Vmap(r, result)
           IN  /\ SameHolders(v, r) /\ ObjGood(v) /\ v.ref > 0 /\ Held(v) = Held(r)
               /\ result = "ok" => v.mapped
<1> DEFINE v == Vmap(r, result)
           p == Pin(r)
<1>1. /\ r.maps = 0 /\ Pinning(r) = 0
      /\ r.maps = Mappings(r) /\ (r.pins > 0 => r.pages)
      /\ r.maps + 1 \in Nat /\ r.pins \in Nat
  <2>1. MappingCounted(r) /\ r.pins \in Nat
    BY MappingCounts DEF ObjRecord
  <2>2. QED
    BY <2>1 DEF MappingCounted, ObjGood
<1>2. SameHolders(p, r) /\ p.pins = r.pins + 1 /\ p.pages
      /\ p.mapped = r.mapped /\ p.maps = r.maps
  BY PinOK
<1>3. CASE result = "ok" /\ r.kind = "import"
  <2> DEFINE u == [r EXCEPT !.mapped = TRUE, !.maps = r.maps + 1]
  <2>1. v = u
    BY <1>3, Zenon DEF Vmap
  <2>2. SameHolders(u, r) /\ u.mapped /\ u.maps = r.maps + 1
        /\ u.pins = r.pins /\ u.pages = r.pages
    BY <1>1, SetMapping, Zenon
  <2> HIDE DEF u, v
  <2>3. Mappings(u) = 1 /\ Pinning(u) = 0 /\ u.maps = 1
    <3>1. MappingCounted(u)
      BY <2>2, MappingCounts DEF SameHolders
    <3>2. QED
      BY <1>1, <1>3, <2>2, <3>1 DEF SameHolders, MappingCounted
  <2>4. PinsFollow(u, r)
    BY <1>1, <2>2, <2>3 DEF PinsFollow
  <2>5. ObjGood(u) /\ u.ref > 0 /\ Held(u) = Held(r)
    BY <2>2, <2>4, PinsGood
  <2>6. QED
    BY <2>1, <2>2, <2>5 DEF v
<1>4. CASE result = "ok" /\ r.kind # "import"
  <2>1. p \in ObjRecord /\ p.maps + 1 \in Nat
    BY <1>1, <1>2 DEF SameHolders
  <2> DEFINE u == [p EXCEPT !.mapped = TRUE, !.maps = p.maps + 1]
  <2>2. v = u
    BY <1>4, Zenon DEF Vmap
  <2> HIDE DEF v, p
  <2>3. SameHolders(u, p) /\ u.mapped /\ u.maps = p.maps + 1
        /\ u.pins = p.pins /\ u.pages = p.pages
    BY <2>1, SetMapping, Zenon
  <2> HIDE DEF u
  <2>4. SameHolders(u, r)
    BY <1>2, <2>3 DEF SameHolders
  <2>5. Mappings(u) = 1 /\ Pinning(u) = 1 /\ u.maps = 1
    <3>1. MappingCounted(u)
      BY <2>4, MappingCounts DEF SameHolders
    <3>2. QED
      BY <1>1, <1>2, <1>4, <2>3, <2>4, <3>1 DEF SameHolders, MappingCounted
  <2>6. PinsFollow(u, r)
    BY <1>1, <1>2, <2>3, <2>5 DEF PinsFollow
  <2>8. ObjGood(u) /\ u.ref > 0 /\ Held(u) = Held(r)
    BY <2>4, <2>6, PinsGood
  <2>7. QED
    BY <2>2, <2>3, <2>4, <2>8 DEF v
<1>5. CASE result = "noMap" /\ r.kind # "import"
  <2>1. v = p
    BY <1>5 DEF Vmap
  <2> HIDE DEF v, p
  <2>2. PinsFollow(v, r)
    <3>1. Mappings(v) = 0 /\ Pinning(v) = 0
      <4>1. MappingCounted(v)
        BY <1>2, <2>1, MappingCounts DEF SameHolders
      <4>2. QED
        BY <1>2, <2>1, <4>1 DEF MappingCounted
    <3>2. QED
      BY <1>1, <1>2, <2>1, <3>1 DEF PinsFollow
  <2>3. ObjGood(v) /\ v.ref > 0 /\ Held(v) = Held(r)
    BY <1>1, <1>2, <2>1, <2>2, PinsGood
  <2>4. QED
    BY <1>2, <1>5, <2>1, <2>3 DEF v
<1>6. CASE result = "noPages" \/ (result = "noMap" /\ r.kind = "import")
  <2>1. v = r
    BY <1>6 DEF Vmap
  <2>2. QED
    BY <1>6, <2>1 DEF SameHolders
<1>7. QED
  BY <1>3, <1>4, <1>5, <1>6

\* Freeing undoes the mapping and gives the pages back.
LEMMA FreeOK ==
    ASSUME NEW r \in ObjRecord, r.ref = 0, r.maps = Mappings(r),
           r.mapped /\ r.kind # "import" => r.pins > 0
    PROVE  SameHolders(FreeObject(r), r) /\ ObjGood(FreeObject(r))
<1> DEFINE w == IF r.mapped THEN Vunmap(r) ELSE r
<1> MappingCounted(r)
  BY MappingCounts
<1>1. SameHolders(w, r) /\ ~w.mapped /\ w.maps = 0
  <2>1. CASE ~r.mapped
    BY <2>1 DEF SameHolders, MappingCounted
  <2>2. CASE r.mapped
    <3> DEFINE u == [r EXCEPT !.mapped = FALSE, !.maps = r.maps - 1]
    <3>1. r.maps - 1 = 0 /\ r.maps - 1 \in Nat
      BY <2>2 DEF MappingCounted
    <3>2. SameHolders(u, r) /\ u.mapped = FALSE /\ u.maps = 0 /\ u.pins = r.pins
      BY <3>1, SetMapped
    <3>3. w = IF r.kind = "import" THEN u ELSE Unpin(u)
      BY <2>2 DEF Vunmap
    <3> HIDE DEF u, w
    <3>4. CASE r.kind = "import"
      BY <3>2, <3>3, <3>4
    <3>5. CASE r.kind # "import"
      <4>1. u \in ObjRecord /\ u.pins > 0
        BY <2>2, <3>2, <3>5 DEF SameHolders
      <4>2. SameHolders(Unpin(u), u) /\ Unpin(u).mapped = u.mapped /\ Unpin(u).maps = u.maps
        BY <4>1, UnpinOK
      <4>3. QED
        BY <3>2, <3>3, <3>5, <4>2 DEF SameHolders
    <3>6. QED
      BY <3>4, <3>5
  <2>3. QED
    BY <2>1, <2>2
<1> DEFINE v == [w EXCEPT !.pages = FALSE]
<1>2. FreeObject(r) = v
  BY DEF FreeObject, PutPages
<1> HIDE DEF w
<1>3. SameHolders(v, w) /\ v.pages = FALSE /\ v.mapped = w.mapped /\ v.maps = w.maps
  BY <1>1, SetPages DEF SameHolders
<1> HIDE DEF v
<1>4. SameHolders(v, r)
  BY <1>1, <1>3 DEF SameHolders
<1>5. ObjGood(v)
  BY <1>1, <1>3, <1>4 DEF SameHolders, ObjGood
<1>6. QED
  BY <1>2, <1>4, <1>5

\* The put of the last reference frees the object.
PutRec(r) == LET d == [r EXCEPT !.ref = @ - 1] IN IF d.ref = 0 THEN FreeObject(d) ELSE d

LEMMA PutRecOK ==
    ASSUME NEW r \in ObjRecord, ObjGood(r), r.ref > 0
    PROVE  /\ PutRec(r) \in ObjRecord /\ ObjGood(PutRec(r))
           /\ PutRec(r).ref = r.ref - 1 /\ Held(PutRec(r)) = Held(r)
           /\ r.ref > 1 => PutRec(r).mapped = r.mapped
<1> DEFINE d == [r EXCEPT !.ref = @ - 1]
<1>1. /\ d \in ObjRecord /\ d.ref = r.ref - 1 /\ r.ref \in Nat
      /\ d.kind = r.kind /\ d.handle = r.handle /\ d.offset = r.offset /\ d.vma = r.vma
      /\ d.exported = r.exported /\ d.pages = r.pages /\ d.pins = r.pins
      /\ d.mapped = r.mapped /\ d.maps = r.maps
  BY DEF ObjRecord
<1>2. PutRec(r) = IF d.ref = 0 THEN FreeObject(d) ELSE d
  BY DEF PutRec
<1> HIDE DEF d
<1>3. Held(d) = Held(r) /\ ExportOf(d) = ExportOf(r) /\ OffsetOf(d) = OffsetOf(r)
  BY <1>1 DEF Held, HandleOf, VmaOf, ExportOf, OffsetOf
<1>6. Mappings(d) = Mappings(r) /\ Pinning(d) = Pinning(r)
  BY <1>1 DEF Mappings, Pinning
<1>4. CASE r.ref > 1
  <2>1. ObjGood(d)
    BY <1>1, <1>3, <1>4, <1>6 DEF ObjGood
  <2>2. QED
    BY <1>1, <1>2, <1>3, <1>4, <2>1
<1>5. CASE r.ref = 1
  <2>1. d.maps = Mappings(d) /\ (d.mapped /\ d.kind # "import" => d.pins > 0)
    <3>1. r.maps = Mappings(r) /\ r.pins \in Nat
          /\ r.pins >= Pinning(r) + ExportOf(r)
                       + OffsetOf(r)
      BY DEF ObjGood, ObjRecord
    <3>2. MappingCounted(r)
      BY MappingCounts
    <3>3. r.mapped /\ r.kind # "import" => r.pins > 0
      BY <3>1, <3>2, Counts DEF MappingCounted
    <3>4. QED
      BY <1>1, <1>6, <3>1, <3>3
  <2>2. SameHolders(FreeObject(d), d) /\ ObjGood(FreeObject(d))
    BY <1>1, <1>5, <2>1, FreeOK
  <2>3. PutRec(r) = FreeObject(d) /\ Held(FreeObject(d)) = Held(d)
    BY <1>1, <1>2, <1>5, <2>2 DEF SameHolders, Held, HandleOf, VmaOf, ExportOf
  <2>4. QED
    BY <1>1, <1>3, <1>5, <2>2, <2>3 DEF SameHolders
<1>7. QED
  BY <1>1, <1>4, <1>5

-----------------------------------------------------------------------------
(* All of memory: gets, puts and changes of one object *)

LEMMA SetObj ==
    ASSUME NEW m \in Memory, NEW o \in Objs, NEW r \in ObjRecord
    PROVE  LET n == [m EXCEPT !.obj[o] = r]
           IN  /\ n \in Memory /\ n.fb = m.fb /\ n.obj[o] = r
               /\ \A x \in Objs \ {o} : n.obj[x] = m.obj[x]
  BY DEF Memory

LEMMA SetTwice ==
    ASSUME NEW m \in Memory, NEW o \in Objs, NEW v, NEW r
    PROVE  [[m EXCEPT !.obj[o] = v] EXCEPT !.obj[o] = r] = [m EXCEPT !.obj[o] = r]
<1> DEFINE n == [m EXCEPT !.obj[o] = v]
<1>1. DOMAIN n = {"obj", "fb"} /\ n.fb = m.fb /\ n.obj = [m.obj EXCEPT ![o] = v]
      /\ DOMAIN m = {"obj", "fb"}
  BY DEF Memory
<1>2. [n.obj EXCEPT ![o] = r] = [m.obj EXCEPT ![o] = r]
  BY <1>1 DEF Memory
<1> HIDE DEF n
<1>3. [n EXCEPT !.obj[o] = r] = [m EXCEPT !.obj[o] = r]
  BY <1>1, <1>2
<1>4. QED
  BY <1>3 DEF n

LEMMA SetFb ==
    ASSUME NEW m \in Memory, NEW f \in Fbs, NEW r \in FbRecord
    PROVE  LET n == [m EXCEPT !.fb[f] = r]
           IN  /\ n \in Memory /\ n.obj = m.obj /\ n.fb[f] = r
               /\ \A x \in Fbs \ {f} : n.fb[x] = m.fb[x]
  BY DEF Memory

\* A change of one object is accounted for if the count of the object and what
\* is held of it, here or outside, change alike.
LEMMA ObjChange ==
    ASSUME NEW m, NEW hf, NEW ho, Accounted(m, hf, ho),
           NEW o \in Objs, NEW r \in ObjRecord, ObjGood(r),
           NEW k \in Int, r.ref + Held(m.obj[o]) = m.obj[o].ref + Held(r) + k
    PROVE  Accounted([m EXCEPT !.obj[o] = r], hf, [ho EXCEPT ![o] = @ + k])
<1> DEFINE n == [m EXCEPT !.obj[o] = r]
           h == [ho EXCEPT ![o] = @ + k]
<1>1. m \in Memory /\ ho \in [Objs -> Int] /\ hf \in [Fbs -> Int]
  BY DEF Accounted, Good, Counted
<1>2. /\ n \in Memory /\ n.fb = m.fb /\ n.obj[o] = r
      /\ \A x \in Objs \ {o} : n.obj[x] = m.obj[x]
  BY <1>1, SetObj
<1>3. h \in [Objs -> Int] /\ h[o] = ho[o] + k /\ \A x \in Objs \ {o} : h[x] = ho[x]
  BY <1>1
<1> HIDE DEF n, h
<1>4. Good(n)
  BY <1>2 DEF Accounted, Good
<1>5. \A f \in Fbs : n.fb[f].ref = Named(n.fb[f]) + hf[f]
  BY <1>2 DEF Accounted, Counted
<1>6. ASSUME NEW x \in Objs
      PROVE  n.obj[x].ref = Held(n.obj[x]) + h[x] + Cardinality(FbsOf(n, x))
  <2>1. m.obj[x].ref = Held(m.obj[x]) + ho[x] + Cardinality(FbsOf(m, x))
    BY DEF Accounted, Counted
  <2>2. FbsOf(n, x) = FbsOf(m, x)
    BY <1>2 DEF FbsOf
  <2>3. CASE x # o
    BY <1>2, <1>3, <2>1, <2>2, <2>3
  <2>4. CASE x = o
    <3>1. Cardinality(FbsOf(m, x)) \in Nat
      BY MemoryAssumption, FS_Subset, FS_CardinalityType DEF FbsOf
    <3>2. Held(m.obj[o]) \in Nat /\ Held(r) \in Nat /\ m.obj[o].ref \in Nat /\ r.ref \in Nat
          /\ ho[o] \in Int
      BY <1>1, HeldType DEF Memory, ObjRecord
    <3>3. QED
      BY <1>2, <1>3, <2>1, <2>2, <2>4, <3>1, <3>2
  <2>5. QED
    BY <2>3, <2>4
<1>7. QED
  BY <1>1, <1>3, <1>4, <1>5, <1>6 DEF Accounted, Counted, n, h

\* What is held outside keeps an object or a framebuffer alive.
LEMMA HeldAlive ==
    ASSUME NEW m, NEW hf, NEW ho, Accounted(m, hf, ho)
    PROVE  /\ \A o \in Objs : m.obj[o].ref >= Held(m.obj[o]) + ho[o]
           /\ \A o \in Objs : ho[o] >= 0 /\ m.obj[o].ref = 0 => Held(m.obj[o]) = 0 /\ ho[o] = 0
           /\ \A f \in Fbs : hf[f] >= 0 /\ (m.fb[f].id \/ hf[f] > 0) => m.fb[f].ref > 0
           /\ \A f \in Fbs : m.fb[f].ref > 0 => m.fb[f].obj \in Objs
           /\ \A f \in Fbs : m.fb[f].ref > 0 /\ ho[m.fb[f].obj] >= 0
                            => m.obj[m.fb[f].obj].ref > ho[m.fb[f].obj]
<1>1. m \in Memory /\ ho \in [Objs -> Int] /\ hf \in [Fbs -> Int]
      /\ \A f \in Fbs : FbGood(m.fb[f])
  BY DEF Accounted, Good, Counted
<1>2. ASSUME NEW o \in Objs
      PROVE  /\ Cardinality(FbsOf(m, o)) \in Nat /\ Held(m.obj[o]) \in Nat
             /\ m.obj[o].ref \in Nat /\ ho[o] \in Int
             /\ m.obj[o].ref = Held(m.obj[o]) + ho[o] + Cardinality(FbsOf(m, o))
  <2>1. Cardinality(FbsOf(m, o)) \in Nat
    BY MemoryAssumption, FS_Subset, FS_CardinalityType DEF FbsOf
  <2>2. Held(m.obj[o]) \in Nat /\ m.obj[o].ref \in Nat
    BY <1>1, HeldType DEF Memory, ObjRecord
  <2>3. m.obj[o].ref = Held(m.obj[o]) + ho[o] + Cardinality(FbsOf(m, o))
    BY DEF Accounted, Counted
  <2>4. QED
    BY <1>1, <2>1, <2>2, <2>3
<1>3. \A o \in Objs :
        /\ m.obj[o].ref >= Held(m.obj[o]) + ho[o]
        /\ ho[o] >= 0 /\ m.obj[o].ref = 0 => Held(m.obj[o]) = 0 /\ ho[o] = 0
  BY <1>2
<1>4. ASSUME NEW f \in Fbs, hf[f] >= 0, m.fb[f].id \/ hf[f] > 0 PROVE m.fb[f].ref > 0
  <2>1. m.fb[f].ref = Named(m.fb[f]) + hf[f] /\ hf[f] \in Int
    BY <1>1 DEF Accounted, Counted
  <2>2. Named(m.fb[f]) \in {0, 1} /\ (m.fb[f].id => Named(m.fb[f]) = 1)
    BY DEF Count, Named
  <2>3. QED
    BY <1>4, <2>1, <2>2
<1>5. \A f \in Fbs : m.fb[f].ref > 0 => m.fb[f].obj \in Objs
  BY <1>1 DEF FbGood
<1>6. ASSUME NEW f \in Fbs, m.fb[f].ref > 0, ho[m.fb[f].obj] >= 0
      PROVE  m.obj[m.fb[f].obj].ref > ho[m.fb[f].obj]
  <2> DEFINE o == m.fb[f].obj
  <2>1. o \in Objs /\ f \in FbsOf(m, o)
    BY <1>5, <1>6 DEF FbsOf
  <2>2. Cardinality(FbsOf(m, o)) # 0
    BY <2>1, MemoryAssumption, FS_Subset, FS_EmptySet DEF FbsOf
  <2>3. QED
    BY <1>2, <2>1, <2>2
<1>7. \A f \in Fbs : hf[f] >= 0 /\ (m.fb[f].id \/ hf[f] > 0) => m.fb[f].ref > 0
  BY <1>4
<1>8. \A f \in Fbs : m.fb[f].ref > 0 /\ ho[m.fb[f].obj] >= 0
                   => m.obj[m.fb[f].obj].ref > ho[m.fb[f].obj]
  BY <1>6
<1>9. QED
  <2>1. \A o \in Objs : m.obj[o].ref >= Held(m.obj[o]) + ho[o]
    BY <1>3
  <2>2. \A o \in Objs : ho[o] >= 0 /\ m.obj[o].ref = 0 => Held(m.obj[o]) = 0 /\ ho[o] = 0
    BY <1>3
  <2>3. QED
    BY <1>5, <1>7, <1>8, <2>1, <2>2, Zenon

LEMMA KeepsTrans ==
    ASSUME NEW m, NEW n, NEW p, Keeps(m, n), Keeps(n, p)
    PROVE  Keeps(m, p)
  BY DEF Keeps

LEMMA ObjKeeps ==
    ASSUME NEW m \in Memory, NEW o \in Objs, NEW r \in ObjRecord,
           r.ref > 0 => m.obj[o].ref > 0 /\ (m.obj[o].mapped => r.mapped)
    PROVE  Keeps(m, [m EXCEPT !.obj[o] = r])
<1> DEFINE n == [m EXCEPT !.obj[o] = r]
<1>1. n.fb = m.fb /\ n.obj[o] = r /\ \A x \in Objs \ {o} : n.obj[x] = m.obj[x]
  BY SetObj
<1> HIDE DEF n
<1>2. QED
  BY <1>1 DEF Keeps, n

LEMMA FbKeeps ==
    ASSUME NEW m \in Memory, NEW f \in Fbs, NEW r \in FbRecord,
           r.ref > 0 => /\ m.fb[f].ref > 0 /\ r.obj = m.fb[f].obj
                        /\ r.id => m.fb[f].id
    PROVE  Keeps(m, [m EXCEPT !.fb[f] = r])
<1> DEFINE n == [m EXCEPT !.fb[f] = r]
<1>1. n.obj = m.obj /\ n.fb[f] = r /\ \A x \in Fbs \ {f} : n.fb[x] = m.fb[x]
  BY SetFb
<1> HIDE DEF n
<1>2. QED
  BY <1>1 DEF Keeps, n

LEMMA GetObjOK ==
    ASSUME NEW m, NEW hf, NEW ho, Accounted(m, hf, ho), NEW o \in Objs, m.obj[o].ref > 0
    PROVE  Accounted(GetObj(m, o), hf, [ho EXCEPT ![o] = @ + 1]) /\ Keeps(m, GetObj(m, o))
<1> DEFINE r == [m.obj[o] EXCEPT !.ref = @ + 1]
<1>1. m \in Memory /\ m.obj[o] \in ObjRecord /\ ObjGood(m.obj[o])
  BY DEF Accounted, Good, Memory
<1>2. /\ r \in ObjRecord /\ r.ref = m.obj[o].ref + 1 /\ r.ref > 0
      /\ r.kind = m.obj[o].kind /\ r.handle = m.obj[o].handle /\ r.offset = m.obj[o].offset
      /\ r.vma = m.obj[o].vma /\ r.exported = m.obj[o].exported
      /\ r.pages = m.obj[o].pages /\ r.pins = m.obj[o].pins
      /\ r.mapped = m.obj[o].mapped /\ r.maps = m.obj[o].maps
  BY <1>1 DEF ObjRecord
<1>3. GetObj(m, o) = [m EXCEPT !.obj[o] = r]
  BY DEF GetObj
<1> HIDE DEF r
<1>4. Held(r) = Held(m.obj[o]) /\ Mappings(r) = Mappings(m.obj[o])
      /\ Pinning(r) = Pinning(m.obj[o])
      /\ ExportOf(r) = ExportOf(m.obj[o]) /\ OffsetOf(r) = OffsetOf(m.obj[o])
  BY <1>2 DEF Held, Mappings, Pinning, HandleOf, VmaOf, ExportOf, OffsetOf
<1>5. ObjGood(r)
  BY <1>1, <1>2, <1>4 DEF ObjGood
<1>6. Held(r) \in Nat /\ m.obj[o].ref \in Nat
  BY <1>1, <1>2, HeldType DEF ObjRecord
<1>7. r.ref + Held(m.obj[o]) = m.obj[o].ref + Held(r) + 1
  BY <1>2, <1>4, <1>6
<1>8. Accounted(GetObj(m, o), hf, [ho EXCEPT ![o] = @ + 1])
  BY <1>2, <1>3, <1>5, <1>7, ObjChange
<1>9. QED
  BY <1>1, <1>2, <1>3, <1>8, ObjKeeps

LEMMA PutObjOK ==
    ASSUME NEW m, NEW hf, NEW ho, Accounted(m, hf, ho), NEW o \in Objs, ho[o] > 0
    PROVE  Accounted(PutObj(m, o), hf, [ho EXCEPT ![o] = @ - 1]) /\ Keeps(m, PutObj(m, o))
<1> DEFINE r == PutRec(m.obj[o])
<1>1. m \in Memory /\ m.obj[o] \in ObjRecord /\ ObjGood(m.obj[o]) /\ ho \in [Objs -> Int]
  BY DEF Accounted, Good, Memory, Counted
<1>2. m.obj[o].ref > 0 /\ m.obj[o].ref \in Nat /\ Held(m.obj[o]) \in Nat
  <2>1. m.obj[o].ref >= Held(m.obj[o]) + ho[o]
    BY HeldAlive
  <2>2. m.obj[o].ref \in Nat /\ Held(m.obj[o]) \in Nat /\ ho[o] \in Int
    BY <1>1, HeldType DEF ObjRecord
  <2>3. QED
    BY <2>1, <2>2
<1>3. PutObj(m, o) = [m EXCEPT !.obj[o] = r]
  BY DEF PutObj, PutRec
<1>4. /\ r \in ObjRecord /\ ObjGood(r) /\ r.ref = m.obj[o].ref - 1
      /\ Held(r) = Held(m.obj[o]) /\ (m.obj[o].ref > 1 => r.mapped = m.obj[o].mapped)
  BY <1>1, <1>2, PutRecOK
<1> HIDE DEF r
<1>5. r.ref + Held(m.obj[o]) = m.obj[o].ref + Held(r) + (-1)
  BY <1>2, <1>4
<1>6. Accounted(PutObj(m, o), hf, [ho EXCEPT ![o] = @ + (-1)])
  BY <1>3, <1>4, <1>5, ObjChange
<1>7. [ho EXCEPT ![o] = @ + (-1)] = [ho EXCEPT ![o] = @ - 1]
  BY <1>1
<1>8. r.ref > 0 => m.obj[o].ref > 0 /\ (m.obj[o].mapped => r.mapped)
  BY <1>2, <1>4
<1>9. QED
  BY <1>1, <1>3, <1>4, <1>6, <1>7, <1>8, ObjKeeps

-----------------------------------------------------------------------------
(* Framebuffers *)

\* As long as a framebuffer is there it has its object.
LEMMA FbChange ==
    ASSUME NEW m, NEW hf, NEW ho, Accounted(m, hf, ho),
           NEW f \in Fbs, NEW r \in FbRecord, m.fb[f].ref > 0, r.ref > 0, r.obj = m.fb[f].obj,
           NEW k \in Int, r.ref + Named(m.fb[f]) = m.fb[f].ref + Named(r) + k
    PROVE  Accounted([m EXCEPT !.fb[f] = r], [hf EXCEPT ![f] = @ + k], ho)
<1> DEFINE n == [m EXCEPT !.fb[f] = r]
           h == [hf EXCEPT ![f] = @ + k]
<1>1. m \in Memory /\ ho \in [Objs -> Int] /\ hf \in [Fbs -> Int]
  BY DEF Accounted, Good, Counted
<1>2. /\ n \in Memory /\ n.obj = m.obj /\ n.fb[f] = r
      /\ \A x \in Fbs \ {f} : n.fb[x] = m.fb[x]
  BY <1>1, SetFb
<1>3. h \in [Fbs -> Int] /\ h[f] = hf[f] + k /\ \A x \in Fbs \ {f} : h[x] = hf[x]
  BY <1>1
<1> HIDE DEF n, h
<1>4. Good(n)
  <2>1. FbGood(r)
    BY DEF Accounted, Good, FbGood
  <2>2. QED
    BY <1>2, <2>1 DEF Accounted, Good
<1>5. ASSUME NEW x \in Fbs PROVE n.fb[x].ref = Named(n.fb[x]) + h[x]
  <2>1. m.fb[x].ref = Named(m.fb[x]) + hf[x]
    BY DEF Accounted, Counted
  <2>2. CASE x # f
    BY <1>2, <1>3, <2>1, <2>2
  <2>3. CASE x = f
    <3>1. Named(m.fb[f]) \in Nat /\ Named(r) \in Nat
      BY NamedType
    <3>2. m.fb[f].ref \in Nat /\ r.ref \in Nat /\ hf[f] \in Int
      BY <1>1 DEF Memory, FbRecord
    <3>3. QED
      BY <1>2, <1>3, <2>1, <2>3, <3>1, <3>2
  <2>4. QED
    BY <2>2, <2>3
<1>6. \A x \in Objs : FbsOf(n, x) = FbsOf(m, x)
  <2>1. \A x \in Fbs : n.fb[x].obj = m.fb[x].obj
    BY <1>2
  <2>2. QED
    BY <2>1 DEF FbsOf
<1>7. QED
  BY <1>1, <1>2, <1>3, <1>4, <1>5, <1>6 DEF Accounted, Counted, n, h

LEMMA NoFbType == NoFb \in FbRecord /\ FbGood(NoFb) /\ NoFb.ref = 0 /\ ~NoFb.id /\ NoFb.obj = None
  BY DEF NoFb, FbRecord, FbGood

\* A framebuffer that only one outside holder holds goes; what it held of its
\* object is then held outside.
LEMMA FbDrop ==
    ASSUME NEW m, NEW hf, NEW ho, Accounted(m, hf, ho),
           NEW f \in Fbs, m.fb[f].ref = 1, hf[f] > 0
    PROVE  /\ m.fb[f].obj \in Objs
           /\ Accounted([m EXCEPT !.fb[f] = NoFb], [hf EXCEPT ![f] = @ - 1],
                        [ho EXCEPT ![m.fb[f].obj] = @ + 1])
           /\ Keeps(m, [m EXCEPT !.fb[f] = NoFb])
<1> DEFINE n == [m EXCEPT !.fb[f] = NoFb]
           o == m.fb[f].obj
           gf == [hf EXCEPT ![f] = @ - 1]
           go == [ho EXCEPT ![o] = @ + 1]
<1>1. m \in Memory /\ ho \in [Objs -> Int] /\ hf \in [Fbs -> Int] /\ FbGood(m.fb[f])
  BY DEF Accounted, Good, Counted
<1>2. /\ n \in Memory /\ n.obj = m.obj /\ n.fb[f] = NoFb
      /\ \A x \in Fbs \ {f} : n.fb[x] = m.fb[x]
  BY <1>1, SetFb, NoFbType
<1>3. o \in Objs
  BY <1>1 DEF FbGood
<1>4. /\ gf \in [Fbs -> Int] /\ gf[f] = hf[f] - 1 /\ \A x \in Fbs \ {f} : gf[x] = hf[x]
      /\ go \in [Objs -> Int] /\ go[o] = ho[o] + 1 /\ \A x \in Objs \ {o} : go[x] = ho[x]
  BY <1>1, <1>3
<1>5. Keeps(m, n)
  BY <1>1, FbKeeps, NoFbType
<1>6. n.fb[f].ref = 0 /\ ~n.fb[f].id /\ n.fb[f].obj = None
  BY <1>2, NoFbType
<1> HIDE DEF n, gf, go, o
<1>7. Good(n)
  BY <1>2, NoFbType DEF Accounted, Good
<1>8. ASSUME NEW x \in Fbs PROVE n.fb[x].ref = Named(n.fb[x]) + gf[x]
  <2>1. m.fb[x].ref = Named(m.fb[x]) + hf[x]
    BY DEF Accounted, Counted
  <2>2. CASE x # f
    BY <1>2, <1>4, <2>1, <2>2
  <2>3. CASE x = f
    <3>1. Named(m.fb[f]) \in Nat /\ Named(n.fb[f]) = 0
      BY <1>6, NamedType DEF Count, Named
    <3>2. hf[f] \in Int
      BY <1>1
    <3>3. hf[f] = 1
      BY <2>1, <2>3, <3>1, <3>2
    <3>4. QED
      BY <1>4, <1>6, <2>3, <3>1, <3>3
  <2>4. QED
    BY <2>2, <2>3
<1>9. ASSUME NEW x \in Objs
      PROVE  n.obj[x].ref = Held(n.obj[x]) + go[x] + Cardinality(FbsOf(n, x))
  <2>1. m.obj[x].ref = Held(m.obj[x]) + ho[x] + Cardinality(FbsOf(m, x))
    BY DEF Accounted, Counted
  <2>2. IsFiniteSet(FbsOf(m, x)) /\ Cardinality(FbsOf(m, x)) \in Nat
    BY MemoryAssumption, FS_Subset, FS_CardinalityType DEF FbsOf
  <2>3. x # None
    BY MemoryAssumption
  <2>4. CASE x # o
    <3>1. FbsOf(n, x) = FbsOf(m, x)
      BY <1>2, <1>6, <2>3, <2>4 DEF FbsOf, o
    <3>2. QED
      BY <1>2, <1>4, <2>1, <2>4, <3>1
  <2>5. CASE x = o
    <3>1. FbsOf(n, o) = FbsOf(m, o) \ {f} /\ f \in FbsOf(m, o)
      BY <1>2, <1>6, <2>3, <2>5 DEF FbsOf, o
    <3>2. Cardinality(FbsOf(n, o)) = Cardinality(FbsOf(m, o)) - 1
      BY <2>2, <2>5, <3>1, FS_RemoveElement
    <3>3. Held(m.obj[o]) \in Nat /\ m.obj[o].ref \in Nat /\ ho[o] \in Int
      BY <1>1, <1>3, HeldType DEF Memory, ObjRecord
    <3>4. QED
      BY <1>2, <1>4, <2>1, <2>2, <2>5, <3>2, <3>3
  <2>6. QED
    BY <2>4, <2>5
<1>10. Accounted(n, gf, go)
  BY <1>4, <1>7, <1>8, <1>9 DEF Accounted, Counted
<1>11. QED
  BY <1>3, <1>5, <1>10 DEF n, gf, go, o

LEMMA GetFbOK ==
    ASSUME NEW m, NEW hf, NEW ho, Accounted(m, hf, ho), NEW f \in Fbs, m.fb[f].ref > 0
    PROVE  Accounted(GetFb(m, f), [hf EXCEPT ![f] = @ + 1], ho) /\ Keeps(m, GetFb(m, f))
<1> DEFINE r == [m.fb[f] EXCEPT !.ref = @ + 1]
<1>1. m \in Memory /\ m.fb[f] \in FbRecord
  BY DEF Accounted, Good, Memory
<1>2. r \in FbRecord /\ r.ref = m.fb[f].ref + 1 /\ r.obj = m.fb[f].obj /\ r.id = m.fb[f].id
      /\ m.fb[f].ref \in Nat
  BY <1>1 DEF FbRecord
<1>3. GetFb(m, f) = [m EXCEPT !.fb[f] = r]
  BY MemoryAssumption DEF GetFb
<1> HIDE DEF r
<1>4. r.ref > 0 /\ r.ref + Named(m.fb[f]) = m.fb[f].ref + Named(r) + 1
  <2>1. Named(r) = Named(m.fb[f]) /\ Named(r) \in Nat
    BY <1>2, NamedType DEF Named
  <2>2. QED
    BY <1>2, <2>1
<1>5. Accounted(GetFb(m, f), [hf EXCEPT ![f] = @ + 1], ho)
  BY <1>2, <1>3, <1>4, FbChange
<1>6. QED
  BY <1>1, <1>2, <1>3, <1>5, FbKeeps

LEMMA Undone ==
    ASSUME NEW S, NEW h \in [S -> Int], NEW x \in S
    PROVE  LET g == [h EXCEPT ![x] = @ + 1]
           IN  g[x] = h[x] + 1 /\ [g EXCEPT ![x] = @ - 1] = h
<1> DEFINE g == [h EXCEPT ![x] = @ + 1]
           k == [g EXCEPT ![x] = @ - 1]
<1>1. g \in [S -> Int] /\ g[x] = h[x] + 1 /\ \A y \in S \ {x} : g[y] = h[y]
  OBVIOUS
<1> HIDE DEF g
<1>2. k \in [S -> Int] /\ k[x] = g[x] - 1 /\ \A y \in S \ {x} : k[y] = g[y]
  BY <1>1
<1> HIDE DEF k
<1>3. \A y \in S : k[y] = h[y]
  BY <1>1, <1>2
<1>4. k = h
  BY <1>2, <1>3
<1>5. QED
  BY <1>1, <1>4 DEF g, k

\* Then it puts its object.
LEMMA FbGone ==
    ASSUME NEW m, NEW hf, NEW ho, Accounted(m, hf, ho), NEW f \in Fbs,
           m.fb[f].ref = 1, hf[f] > 0, \A o \in Objs : ho[o] >= 0
    PROVE  LET n == PutObj([m EXCEPT !.fb[f] = NoFb], m.fb[f].obj)
           IN  Accounted(n, [hf EXCEPT ![f] = @ - 1], ho) /\ Keeps(m, n)
<1> DEFINE n == [m EXCEPT !.fb[f] = NoFb]
           o == m.fb[f].obj
           gf == [hf EXCEPT ![f] = @ - 1]
           go == [ho EXCEPT ![o] = @ + 1]
<1>1. hf \in [Fbs -> Int] /\ ho \in [Objs -> Int]
  BY DEF Accounted, Counted
<1>2. o \in Objs /\ Accounted(n, gf, go) /\ Keeps(m, n)
  BY FbDrop
<1>3. go[o] > 0 /\ [go EXCEPT ![o] = @ - 1] = ho
  <2>1. ho[o] >= 0 /\ ho[o] \in Int
    BY <1>1, <1>2
  <2>2. QED
    BY <1>1, <1>2, <2>1, Undone
<1> HIDE DEF n, o, go, gf
<1>4. Accounted(PutObj(n, o), gf, [go EXCEPT ![o] = @ - 1]) /\ Keeps(n, PutObj(n, o))
  BY <1>2, <1>3, PutObjOK
<1>5. Accounted(PutObj(n, o), gf, ho) /\ Keeps(m, PutObj(n, o))
  BY <1>2, <1>3, <1>4, KeepsTrans
<1>6. QED
  BY <1>5 DEF n, o, gf

LEMMA PutFbOK ==
    ASSUME NEW m, NEW hf, NEW ho, Accounted(m, hf, ho), NEW f \in Fbs, hf[f] > 0,
           \A o \in Objs : ho[o] >= 0
    PROVE  Accounted(PutFb(m, f), [hf EXCEPT ![f] = @ - 1], ho) /\ Keeps(m, PutFb(m, f))
<1>1. m \in Memory /\ m.fb[f] \in FbRecord /\ hf \in [Fbs -> Int] /\ ho \in [Objs -> Int]
  BY DEF Accounted, Good, Memory, Counted
<1>2. m.fb[f].ref > 0 /\ m.fb[f].ref \in Nat
  <2>1. m.fb[f].ref = Named(m.fb[f]) + hf[f] /\ Named(m.fb[f]) \in Nat /\ hf[f] \in Int
    BY <1>1, NamedType DEF Accounted, Counted
  <2>2. QED
    BY <1>1, <2>1 DEF FbRecord
<1>3. CASE m.fb[f].ref > 1
  <2> DEFINE r == [m.fb[f] EXCEPT !.ref = @ - 1]
  <2>1. r \in FbRecord /\ r.ref = m.fb[f].ref - 1 /\ r.obj = m.fb[f].obj /\ r.id = m.fb[f].id
    BY <1>1, <1>2 DEF FbRecord
  <2>2. PutFb(m, f) = [m EXCEPT !.fb[f] = r]
    BY <1>3, MemoryAssumption DEF PutFb
  <2> HIDE DEF r
  <2>3. r.ref > 0 /\ r.ref + Named(m.fb[f]) = m.fb[f].ref + Named(r) + (-1)
    <3>1. Named(r) = Named(m.fb[f]) /\ Named(r) \in Nat
      BY <2>1, NamedType DEF Named
    <3>2. QED
      BY <1>2, <1>3, <2>1, <3>1
  <2>4. Accounted(PutFb(m, f), [hf EXCEPT ![f] = @ + (-1)], ho)
    BY <1>2, <2>1, <2>2, <2>3, FbChange
  <2>5. [hf EXCEPT ![f] = @ + (-1)] = [hf EXCEPT ![f] = @ - 1]
    BY <1>1
  <2>6. QED
    BY <1>1, <1>2, <2>1, <2>2, <2>4, <2>5, FbKeeps
<1>4. CASE m.fb[f].ref = 1
  <2>1. PutFb(m, f) = PutObj([m EXCEPT !.fb[f] = NoFb], m.fb[f].obj)
    BY <1>4, MemoryAssumption DEF PutFb
  <2>2. QED
    BY <1>4, <2>1, FbGone
<1>5. QED
  BY <1>2, <1>3, <1>4

\* A new framebuffer takes over the reference that was taken for it.
NewFb(o) == [ref |-> 1, obj |-> o, id |-> TRUE]

LEMMA FbNew ==
    ASSUME NEW m, NEW hf, NEW ho, Accounted(m, hf, ho),
           NEW f \in Fbs, m.fb[f].ref = 0, hf[f] >= 0, NEW o \in Objs
    PROVE  LET n == [m EXCEPT !.fb[f] = NewFb(o)]
           IN  Accounted(n, hf, [ho EXCEPT ![o] = @ - 1]) /\ n.obj = m.obj
               /\ \A x \in Fbs \ {f} : n.fb[x] = m.fb[x]
<1> DEFINE r == NewFb(o)
           n == [m EXCEPT !.fb[f] = r]
           go == [ho EXCEPT ![o] = @ - 1]
<1>1. m \in Memory /\ ho \in [Objs -> Int] /\ hf \in [Fbs -> Int] /\ m.fb[f] = NoFb
  BY DEF Accounted, Good, Counted, FbGood
<1>2. r \in FbRecord /\ r.ref = 1 /\ r.obj = o /\ r.id
  BY DEF FbRecord, NewFb
<1> HIDE DEF r
<1>3. /\ n \in Memory /\ n.obj = m.obj /\ n.fb[f] = r
      /\ \A x \in Fbs \ {f} : n.fb[x] = m.fb[x]
  BY <1>1, <1>2, SetFb
<1>4. go \in [Objs -> Int] /\ go[o] = ho[o] - 1 /\ \A x \in Objs \ {o} : go[x] = ho[x]
  BY <1>1
<1> HIDE DEF n, go
<1>5. Good(n)
  <2>1. FbGood(r)
    BY <1>2 DEF FbGood
  <2>2. QED
    BY <1>3, <2>1 DEF Accounted, Good
<1>6. ASSUME NEW x \in Fbs PROVE n.fb[x].ref = Named(n.fb[x]) + hf[x]
  <2>1. m.fb[x].ref = Named(m.fb[x]) + hf[x]
    BY DEF Accounted, Counted
  <2>2. CASE x # f
    BY <1>3, <2>1, <2>2
  <2>3. CASE x = f
    <3>1. Named(r) = 1 /\ Named(m.fb[f]) \in Nat /\ hf[f] \in Int
      BY <1>1, <1>2, NamedType DEF Named, Count
    <3>2. hf[f] = 0
      BY <2>1, <2>3, <3>1
    <3>3. QED
      BY <1>2, <1>3, <2>3, <3>1, <3>2
  <2>4. QED
    BY <2>2, <2>3
<1>7. ASSUME NEW x \in Objs
      PROVE  n.obj[x].ref = Held(n.obj[x]) + go[x] + Cardinality(FbsOf(n, x))
  <2>1. m.obj[x].ref = Held(m.obj[x]) + ho[x] + Cardinality(FbsOf(m, x))
    BY DEF Accounted, Counted
  <2>2. IsFiniteSet(FbsOf(m, x)) /\ Cardinality(FbsOf(m, x)) \in Nat
    BY MemoryAssumption, FS_Subset, FS_CardinalityType DEF FbsOf
  <2>3. f \notin FbsOf(m, x)
    BY <1>1, NoFbType, MemoryAssumption DEF FbsOf
  <2>4. CASE x # o
    <3>1. FbsOf(n, x) = FbsOf(m, x)
      BY <1>2, <1>3, <2>3, <2>4 DEF FbsOf
    <3>2. QED
      BY <1>3, <1>4, <2>1, <2>4, <3>1
  <2>5. CASE x = o
    <3>1. FbsOf(n, x) = FbsOf(m, x) \cup {f}
      BY <1>2, <1>3, <2>5 DEF FbsOf
    <3>2. Cardinality(FbsOf(n, x)) = Cardinality(FbsOf(m, x)) + 1
      BY <2>2, <2>3, <3>1, FS_AddElement
    <3>3. Held(m.obj[o]) \in Nat /\ m.obj[o].ref \in Nat /\ ho[o] \in Int
      BY <1>1, HeldType DEF Memory, ObjRecord
    <3>4. QED
      BY <1>3, <1>4, <2>1, <2>2, <2>5, <3>2, <3>3
  <2>6. QED
    BY <2>4, <2>5
<1>8. Accounted(n, hf, go)
  BY <1>1, <1>4, <1>5, <1>6, <1>7 DEF Accounted, Counted
<1>9. QED
  BY <1>3, <1>8 DEF n, go, r

-----------------------------------------------------------------------------
(* What the desktop asks of one object *)

\* v is r with one holder more or less among those the record names.
Requested(v, r, k) ==
    /\ v \in ObjRecord /\ ObjGood(v) /\ v.ref = r.ref /\ v.mapped = r.mapped
    /\ Held(v) = Held(r) + k

\* Only the handle and the process's map of r may change to those of v.
SameMemory(v, r) ==
    /\ v \in ObjRecord
    /\ v.ref = r.ref /\ v.kind = r.kind /\ v.offset = r.offset /\ v.exported = r.exported
    /\ v.pages = r.pages /\ v.pins = r.pins /\ v.mapped = r.mapped /\ v.maps = r.maps

LEMMA RequestGood ==
    ASSUME NEW r \in ObjRecord, ObjGood(r), r.ref > 0, NEW v, SameMemory(v, r), NEW k \in Int,
           HandleOf(v) + VmaOf(v) = HandleOf(r) + VmaOf(r) + k, v.vma => v.offset
    PROVE  Requested(v, r, k)
<1>1. /\ Mappings(v) = Mappings(r) /\ Pinning(v) = Pinning(r)
      /\ ExportOf(v) = ExportOf(r) /\ OffsetOf(v) = OffsetOf(r)
  BY DEF SameMemory, Mappings, Pinning, ExportOf, OffsetOf
<1>2. Held(v) = Held(r) + k
  BY <1>1, Counts DEF Held
<1>3. ObjGood(v)
  BY <1>1 DEF ObjGood, SameMemory
<1>4. QED
  BY <1>2, <1>3 DEF Requested, SameMemory

LEMMA HandleMade ==
    ASSUME NEW r \in ObjRecord, ObjGood(r), r.ref > 0, ~r.handle
    PROVE  Requested([r EXCEPT !.handle = TRUE], r, 1)
<1> DEFINE v == [r EXCEPT !.handle = TRUE]
<1>1. SameMemory(v, r) /\ v.vma = r.vma /\ v.handle
  BY DEF ObjRecord, SameMemory
<1> HIDE DEF v
<1>2. HandleOf(v) = 1 /\ HandleOf(r) = 0 /\ VmaOf(v) = VmaOf(r)
  BY <1>1 DEF Count, HandleOf, VmaOf
<1>3. HandleOf(v) + VmaOf(v) = HandleOf(r) + VmaOf(r) + 1
  BY <1>2, Counts
<1>4. v.vma => v.offset
  BY <1>1 DEF ObjGood, SameMemory
<1>5. SameMemory(v, r)
  BY <1>1
<1>6. Requested(v, r, 1)
  BY <1>3, <1>4, <1>5, RequestGood
<1>7. QED
  BY <1>6 DEF v

LEMMA HandleClosed ==
    ASSUME NEW r \in ObjRecord, ObjGood(r), r.ref > 0, r.handle
    PROVE  Requested([r EXCEPT !.handle = FALSE], r, (-1))
<1> DEFINE v == [r EXCEPT !.handle = FALSE]
<1>1. SameMemory(v, r) /\ v.vma = r.vma /\ ~v.handle
  BY DEF ObjRecord, SameMemory
<1> HIDE DEF v
<1>2. HandleOf(v) = 0 /\ HandleOf(r) = 1 /\ VmaOf(v) = VmaOf(r)
  BY <1>1 DEF Count, HandleOf, VmaOf
<1>3. HandleOf(v) + VmaOf(v) = HandleOf(r) + VmaOf(r) + (-1)
  BY <1>2, Counts
<1>4. v.vma => v.offset
  BY <1>1 DEF ObjGood, SameMemory
<1>5. SameMemory(v, r)
  BY <1>1
<1>6. Requested(v, r, (-1))
  BY <1>3, <1>4, <1>5, RequestGood
<1>7. QED
  BY <1>6 DEF v

LEMMA VmaMade ==
    ASSUME NEW r \in ObjRecord, ObjGood(r), r.ref > 0, ~r.vma, r.offset
    PROVE  Requested([r EXCEPT !.vma = TRUE], r, 1)
<1> DEFINE v == [r EXCEPT !.vma = TRUE]
<1>1. SameMemory(v, r) /\ v.handle = r.handle /\ v.vma
  BY DEF ObjRecord, SameMemory
<1> HIDE DEF v
<1>2. VmaOf(v) = 1 /\ VmaOf(r) = 0 /\ HandleOf(v) = HandleOf(r)
  BY <1>1 DEF Count, VmaOf, HandleOf
<1>3. HandleOf(v) + VmaOf(v) = HandleOf(r) + VmaOf(r) + 1
  BY <1>2, Counts
<1>4. v.vma => v.offset
  BY <1>1 DEF ObjGood, SameMemory
<1>5. SameMemory(v, r)
  BY <1>1
<1>6. Requested(v, r, 1)
  BY <1>3, <1>4, <1>5, RequestGood
<1>7. QED
  BY <1>6 DEF v

LEMMA VmaClosed ==
    ASSUME NEW r \in ObjRecord, ObjGood(r), r.ref > 0, r.vma
    PROVE  Requested([r EXCEPT !.vma = FALSE], r, (-1))
<1> DEFINE v == [r EXCEPT !.vma = FALSE]
<1>1. SameMemory(v, r) /\ v.handle = r.handle /\ ~v.vma
  BY DEF ObjRecord, SameMemory
<1> HIDE DEF v
<1>2. VmaOf(v) = 0 /\ VmaOf(r) = 1 /\ HandleOf(v) = HandleOf(r)
  BY <1>1 DEF Count, VmaOf, HandleOf
<1>3. HandleOf(v) + VmaOf(v) = HandleOf(r) + VmaOf(r) + (-1)
  BY <1>2, Counts
<1>4. v.vma => v.offset
  BY <1>1 DEF ObjGood, SameMemory
<1>5. SameMemory(v, r)
  BY <1>1
<1>6. Requested(v, r, (-1))
  BY <1>3, <1>4, <1>5, RequestGood
<1>7. QED
  BY <1>6 DEF v

\* evdi_prime_pin and evdi_prime_unpin: the export and its pin.
LEMMA ExportMade ==
    ASSUME NEW r \in ObjRecord, ObjGood(r), r.ref > 0, ~r.exported
    PROVE  Requested(Pin([r EXCEPT !.exported = TRUE]), r, 1)
<1> DEFINE u == [r EXCEPT !.exported = TRUE]
           v == Pin(u)
<1>1. /\ u \in ObjRecord /\ u.ref = r.ref /\ u.kind = r.kind /\ u.exported
      /\ u.offset = r.offset /\ u.handle = r.handle /\ u.vma = r.vma
      /\ u.pages = r.pages /\ u.pins = r.pins /\ u.mapped = r.mapped /\ u.maps = r.maps
  BY DEF ObjRecord
<1> HIDE DEF u
<1>2. /\ SameHolders(v, u) /\ v.pins = u.pins + 1 /\ v.pages
      /\ v.mapped = u.mapped /\ v.maps = u.maps
  BY <1>1, PinOK
<1> HIDE DEF v
<1>3. /\ Mappings(v) = Mappings(r) /\ Pinning(v) = Pinning(r)
      /\ HandleOf(v) = HandleOf(r) /\ VmaOf(v) = VmaOf(r) /\ OffsetOf(v) = OffsetOf(r)
  BY <1>1, <1>2 DEF SameHolders, Mappings, Pinning, HandleOf, VmaOf, OffsetOf
<1>4. ExportOf(v) = 1 /\ ExportOf(r) = 0
  BY <1>1, <1>2 DEF SameHolders, ExportOf, Count
<1>5. Held(v) = Held(r) + 1
  BY <1>3, <1>4, Counts DEF Held
<1>6. MappingCounted(r) /\ r.pins \in Nat
  BY MappingCounts DEF ObjRecord
<1>7. v \in ObjRecord /\ v.ref = r.ref /\ v.vma = r.vma /\ v.offset = r.offset
      /\ v.pins = r.pins + 1 /\ v.mapped = r.mapped /\ v.maps = r.maps
  BY <1>1, <1>2 DEF SameHolders
<1>8. ObjGood(v)
  BY <1>2, <1>3, <1>4, <1>6, <1>7, Counts DEF ObjGood, MappingCounted
<1>9. QED
  BY <1>5, <1>7, <1>8 DEF Requested, u, v

LEMMA ExportClosed ==
    ASSUME NEW r \in ObjRecord, ObjGood(r), r.ref > 0, r.exported
    PROVE  Requested(Unpin([r EXCEPT !.exported = FALSE]), r, (-1))
<1> DEFINE u == [r EXCEPT !.exported = FALSE]
           v == Unpin(u)
<1>1. /\ u \in ObjRecord /\ u.ref = r.ref /\ u.kind = r.kind /\ ~u.exported
      /\ u.offset = r.offset /\ u.handle = r.handle /\ u.vma = r.vma
      /\ u.pages = r.pages /\ u.pins = r.pins /\ u.mapped = r.mapped /\ u.maps = r.maps
  BY DEF ObjRecord
<1> HIDE DEF u
<1>2. MappingCounted(r) /\ r.pins \in Nat /\ ExportOf(r) = 1 /\ ExportOf(u) = 0
  BY <1>1, MappingCounts DEF ObjRecord, ExportOf, Count
<1>3. r.pins >= Pinning(r) + 1 + OffsetOf(r) /\ r.pages /\ u.pins > 0
  BY <1>1, <1>2, Counts DEF ObjGood, MappingCounted
<1>4. /\ SameHolders(v, u) /\ v.pins = u.pins - 1 /\ (v.pages <=> u.pages /\ u.pins # 1)
      /\ v.mapped = u.mapped /\ v.maps = u.maps
  BY <1>1, <1>3, UnpinOK
<1> HIDE DEF v
<1>5. /\ Mappings(v) = Mappings(r) /\ Pinning(v) = Pinning(r) /\ ExportOf(v) = ExportOf(u)
      /\ HandleOf(v) = HandleOf(r) /\ VmaOf(v) = VmaOf(r) /\ OffsetOf(v) = OffsetOf(r)
  BY <1>1, <1>4 DEF SameHolders, Mappings, Pinning, HandleOf, VmaOf, ExportOf, OffsetOf
<1>6. Held(v) = Held(r) + (-1)
  BY <1>2, <1>5, Counts DEF Held
<1>7. v \in ObjRecord /\ v.ref = r.ref /\ v.vma = r.vma /\ v.offset = r.offset
      /\ v.pins = r.pins - 1 /\ v.mapped = r.mapped /\ v.maps = r.maps
  BY <1>1, <1>4 DEF SameHolders
<1>8. v.pins > 0 => v.pages
  BY <1>1, <1>2, <1>3, <1>4, <1>7
<1>9. ObjGood(v)
  BY <1>2, <1>3, <1>5, <1>7, <1>8, Counts DEF ObjGood, MappingCounted
<1>10. QED
  BY <1>6, <1>7, <1>9 DEF Requested, u, v

\* evdi_gem_mmap: an offset, and one more pin.
LEMMA OffsetMade ==
    ASSUME NEW r \in ObjRecord, ObjGood(r), r.ref > 0
    PROVE  Requested([Pin(r) EXCEPT !.offset = TRUE], r, 0)
<1> DEFINE p == Pin(r)
           v == [p EXCEPT !.offset = TRUE]
<1>1. /\ SameHolders(p, r) /\ p.pins = r.pins + 1 /\ p.pages
      /\ p.mapped = r.mapped /\ p.maps = r.maps
  BY PinOK
<1> HIDE DEF p
<1>2. p \in ObjRecord
  BY <1>1 DEF SameHolders
<1>3. /\ v \in ObjRecord /\ v.ref = p.ref /\ v.kind = p.kind /\ v.offset
      /\ v.exported = p.exported /\ v.handle = p.handle /\ v.vma = p.vma
      /\ v.pages = p.pages /\ v.pins = p.pins /\ v.mapped = p.mapped /\ v.maps = p.maps
  BY <1>2 DEF ObjRecord
<1> HIDE DEF v
<1>4. /\ Mappings(v) = Mappings(r) /\ Pinning(v) = Pinning(r) /\ ExportOf(v) = ExportOf(r)
      /\ HandleOf(v) = HandleOf(r) /\ VmaOf(v) = VmaOf(r)
  BY <1>1, <1>3 DEF SameHolders, Mappings, Pinning, HandleOf, VmaOf, ExportOf
<1>5. Held(v) = Held(r) + 0
  BY <1>4, Counts DEF Held
<1>6. MappingCounted(r) /\ r.pins \in Nat
  BY MappingCounts DEF ObjRecord
<1>7. v.ref = r.ref /\ v.pins = r.pins + 1 /\ v.mapped = r.mapped /\ v.maps = r.maps /\ v.pages
  BY <1>1, <1>3 DEF SameHolders
<1>8. ObjGood(v)
  BY <1>3, <1>4, <1>6, <1>7, Counts DEF ObjGood, MappingCounted
<1>9. QED
  BY <1>3, <1>5, <1>7, <1>8 DEF Requested, v, p

-----------------------------------------------------------------------------
(* The driver *)

Is(a, b) == IF a = b THEN 1 ELSE 0

\* What the driver holds of a framebuffer and of an object.
Holders == [f \in Fbs |->
    Is(console, f) + Is(plane, f) + Is(cursorPlane, f) + Is(scanout, f) + Is(grab.fb, f)
    + Is(commit.old, f) + Is(commit.drop, f)]
CursorHolds == [o \in Objs |-> Is(cursor.obj, o)]

\* Before setup there is nothing; after it failed, and after the card was
\* unloaded, the driver holds nothing.
PhaseOK ==
    /\ phase = "setup" => mem = [obj |-> [o \in Objs |-> Free], fb |-> [f \in Fbs |-> NoFb]]
    /\ phase # "live" =>
         /\ console = None /\ plane = None /\ cursorPlane = None /\ scanout = None
         /\ cursor.obj = None /\ commit = NoCommit /\ grab = NoGrab /\ ~leaving

CommitOK ==
    /\ commit.at = "idle" => commit = NoCommit
    /\ commit.at # "drop" => commit.drop = None
    /\ commit.at = "scanout" => commit.fb # None /\ commit.fb = plane
    /\ commit.at = "cursor" => commit.fb # None /\ commit.fb = cursorPlane

\* A grab holds its framebuffer, and the cursor cannot change while it is read.
GrabOK ==
    /\ grab.at = "idle" <=> grab.fb = None
    /\ grab.at = "idle" => grab = NoGrab
    /\ cursorLock <=> grab.at = "compose"
    /\ grab.cursor # None => cursorLock /\ grab.cursor = cursor.obj

ConsoleOK == console # None => console # cursorPlane /\ ~mem.fb[console].id

\* What is read without a lock stays mapped as long as it is held.
CursorMapped == cursor.obj # None => mem.obj[cursor.obj].mapped
GrabMapped == grab.at \in {"copy", "compose"} => mem.obj[mem.fb[grab.fb].obj].mapped

Holding == Accounted(mem, Holders, CursorHolds)
Memories ==
    /\ TypeOK /\ Good(mem) /\ (phase # "failed" => Holding)
    /\ PhaseOK /\ CommitOK /\ GrabOK /\ ConsoleOK
    /\ CursorMapped /\ GrabMapped

\* The properties follow.
LEMMA HoldersCounted ==
    ASSUME Memories
    PROVE  RefsCounted
<1> SUFFICES ASSUME phase # "failed" PROVE Holding => RefsCounted
  BY DEF Memories, RefsCounted
<1>1. ASSUME NEW f \in Fbs PROVE FbHolders(f) = Named(mem.fb[f]) + Holders[f]
  <2>1. /\ Count(console = f) = Is(console, f) /\ Count(plane = f) = Is(plane, f)
        /\ Count(cursorPlane = f) = Is(cursorPlane, f) /\ Count(scanout = f) = Is(scanout, f)
        /\ Count(grab.fb = f) = Is(grab.fb, f) /\ Count(commit.old = f) = Is(commit.old, f)
        /\ Count(commit.drop = f) = Is(commit.drop, f)
    BY DEF Count, Is
  <2>2. \A a, b : Is(a, b) \in {0, 1}
    BY DEF Is
  <2>3. Named(mem.fb[f]) \in {0, 1}
    BY NamedType
  <2>4. FbHolders(f) = Named(mem.fb[f]) + Is(console, f) + Is(plane, f) + Is(cursorPlane, f)
                       + Is(scanout, f) + Is(grab.fb, f) + Is(commit.old, f) + Is(commit.drop, f)
    BY <2>1 DEF FbHolders, Named
  <2>5. QED
    BY <2>2, <2>3, <2>4 DEF Holders
<1>2. ASSUME NEW o \in Objs
      PROVE  ObjHolders(o) = Held(mem.obj[o]) + CursorHolds[o] + Cardinality(FbsOf(mem, o))
  <2>1. Count(cursor.obj = o) = Is(cursor.obj, o)
    BY DEF Count, Is
  <2>2. ObjHolders(o) = HandleOf(mem.obj[o]) + VmaOf(mem.obj[o]) + ExportOf(mem.obj[o])
                        + Is(cursor.obj, o) + Cardinality(FbsOf(mem, o))
    BY <2>1 DEF ObjHolders, HandleOf, VmaOf, ExportOf, FbsOf
  <2>3. QED
    BY <2>2 DEF Held, CursorHolds
<1>3. QED
  BY <1>1, <1>2 DEF RefsCounted, Holding, Accounted, Counted

\* What is held is alive, and so is the object of a live framebuffer.
Alive ==
    /\ \A f \in Fbs : \/ f \in {console, plane, cursorPlane, scanout, grab.fb, commit.old,
                              commit.drop}
                     \/ mem.fb[f].id
                     => mem.fb[f].ref > 0
    /\ \A f \in Fbs : mem.fb[f].ref > 0 => /\ mem.fb[f].obj \in Objs
                                           /\ mem.obj[mem.fb[f].obj].ref > 0
    /\ \A o \in Objs : /\ cursor.obj = o => mem.obj[o].ref > 0
                       /\ mem.obj[o].ref = 0 => Held(mem.obj[o]) = 0

LEMMA HeldByMany ==
    /\ \A f \in Fbs : Holders[f] \in Nat
                     /\ (f \in {console, plane, cursorPlane, scanout, grab.fb, commit.old,
                                commit.drop} => Holders[f] > 0)
    /\ \A o \in Objs : CursorHolds[o] \in {0, 1} /\ (cursor.obj = o <=> CursorHolds[o] = 1)
<1>1. \A a, b : Is(a, b) \in {0, 1} /\ (a = b <=> Is(a, b) = 1)
  BY DEF Is
<1>2. \A o \in Objs : CursorHolds[o] \in {0, 1} /\ (cursor.obj = o <=> CursorHolds[o] = 1)
  BY <1>1 DEF CursorHolds
<1>3. ASSUME NEW f \in Fbs
      PROVE  Holders[f] \in Nat
             /\ (f \in {console, plane, cursorPlane, scanout, grab.fb, commit.old, commit.drop}
                   => Holders[f] > 0)
  BY <1>1 DEF Holders
<1>4. QED
  BY <1>2, <1>3

LEMMA AliveNow == Holding => Alive
<1> SUFFICES ASSUME Holding PROVE Alive
  OBVIOUS
<1>1. /\ \A o \in Objs : CursorHolds[o] >= 0 /\ mem.obj[o].ref = 0
                          => Held(mem.obj[o]) = 0 /\ CursorHolds[o] = 0
      /\ \A f \in Fbs : Holders[f] >= 0 /\ (mem.fb[f].id \/ Holders[f] > 0) => mem.fb[f].ref > 0
      /\ \A f \in Fbs : mem.fb[f].ref > 0 => mem.fb[f].obj \in Objs
      /\ \A f \in Fbs : mem.fb[f].ref > 0 /\ CursorHolds[mem.fb[f].obj] >= 0
                       => mem.obj[mem.fb[f].obj].ref > CursorHolds[mem.fb[f].obj]
  BY HeldAlive DEF Holding
<1>2. \A o \in Objs : mem.obj[o].ref \in Nat
  BY DEF Holding, Accounted, Good, Memory, ObjRecord
<1>3. \A f \in Fbs : \/ f \in {console, plane, cursorPlane, scanout, grab.fb, commit.old,
                               commit.drop}
                    \/ mem.fb[f].id
                    => mem.fb[f].ref > 0
  <2>1. \A f \in Fbs : Holders[f] >= 0
    BY HeldByMany
  <2>2. QED
    BY <1>1, <2>1, HeldByMany
<1>4. ASSUME NEW f \in Fbs, mem.fb[f].ref > 0
      PROVE  mem.fb[f].obj \in Objs /\ mem.obj[mem.fb[f].obj].ref > 0
  <2>1. mem.fb[f].obj \in Objs
    BY <1>1, <1>4
  <2>2. CursorHolds[mem.fb[f].obj] \in {0, 1} /\ mem.obj[mem.fb[f].obj].ref \in Nat
    BY <1>2, <2>1, HeldByMany
  <2>3. mem.obj[mem.fb[f].obj].ref > CursorHolds[mem.fb[f].obj]
    BY <1>1, <1>4, <2>2
  <2>4. QED
    BY <2>1, <2>2, <2>3
<1>5. ASSUME NEW o \in Objs
      PROVE  /\ cursor.obj = o => mem.obj[o].ref > 0
             /\ mem.obj[o].ref = 0 => Held(mem.obj[o]) = 0
  <2>1. CursorHolds[o] \in {0, 1} /\ (cursor.obj = o <=> CursorHolds[o] = 1)
    BY HeldByMany
  <2>2. QED
    BY <1>1, <1>2, <2>1
<1>6. QED
  BY <1>3, <1>4, <1>5 DEF Alive

\* From m to n what stays alive keeps its mapping, its object, and gets no id.
Remains(m, n) ==
    /\ \A o \in Objs : m.obj[o].ref > 0 /\ n.obj[o].ref > 0 /\ m.obj[o].mapped
                       => n.obj[o].mapped
    /\ \A f \in Fbs : m.fb[f].ref > 0 /\ n.fb[f].ref > 0
                      => n.fb[f].obj = m.fb[f].obj /\ (n.fb[f].id => m.fb[f].id)

LEMMA KeepsRemains == ASSUME NEW m, NEW n, Keeps(m, n) PROVE Remains(m, n)
  BY DEF Keeps, Remains

LEMMA Priming == Holding' => Alive'
  BY AliveNow, PTL

\* What was mapped and is still looked at is still mapped.
LEMMA CursorKept ==
    ASSUME Memories, Holding, Holding', Remains(mem, mem'), cursor'.obj \in {None, cursor.obj}
    PROVE  CursorMapped'
<1>1. Alive /\ Alive' /\ CursorMapped
  BY AliveNow, Priming DEF Memories
<1> SUFFICES ASSUME cursor'.obj # None PROVE mem'.obj[cursor'.obj].mapped
  BY DEF CursorMapped
<1>2. cursor'.obj = cursor.obj /\ cursor.obj \in Objs
  BY DEF Memories, TypeOK
<1>3. mem.obj[cursor.obj].ref > 0 /\ mem'.obj[cursor.obj].ref > 0
  BY <1>1, <1>2 DEF Alive
<1>4. mem.obj[cursor.obj].mapped
  BY <1>1, <1>2 DEF CursorMapped
<1>5. mem'.obj[cursor.obj].mapped
  BY <1>2, <1>3, <1>4 DEF Remains
<1>6. QED
  BY <1>2, <1>5

LEMMA GrabKept ==
    ASSUME Memories, Holding, Holding', Remains(mem, mem'),
           grab'.at \in {"copy", "compose"} => grab.at \in {"copy", "compose"} /\ grab'.fb = grab.fb
    PROVE  GrabMapped'
<1>1. Alive /\ Alive' /\ GrabMapped
  BY AliveNow, Priming DEF Memories
<1> SUFFICES ASSUME grab'.at \in {"copy", "compose"}
             PROVE  mem'.obj[mem'.fb[grab'.fb].obj].mapped
  BY DEF GrabMapped
<1>2. grab.at \in {"copy", "compose"} /\ grab'.fb = grab.fb /\ grab.fb \in Fbs
  BY DEF Memories, GrabOK, TypeOK
<1>3. mem.fb[grab.fb].ref > 0 /\ mem'.fb[grab.fb].ref > 0
  BY <1>1, <1>2 DEF Alive
<1>4. mem'.fb[grab.fb].obj = mem.fb[grab.fb].obj
  BY <1>2, <1>3 DEF Remains
<1>5. /\ mem.fb[grab.fb].obj \in Objs /\ mem.obj[mem.fb[grab.fb].obj].ref > 0
      /\ mem'.obj[mem.fb[grab.fb].obj].ref > 0
  BY <1>1, <1>2, <1>3, <1>4 DEF Alive
<1>6. QED
  BY <1>1, <1>2, <1>4, <1>5 DEF GrabMapped, Remains

LEMMA ConsoleKept ==
    ASSUME Memories, Holding, Holding', Remains(mem, mem'),
           console' # None => console' = console /\ cursorPlane' # console
    PROVE  ConsoleOK'
<1>1. Alive /\ Alive'
  BY AliveNow, Priming
<1> SUFFICES ASSUME console' # None PROVE console' # cursorPlane' /\ ~mem'.fb[console'].id
  BY DEF ConsoleOK
<1>2. console' = console /\ console \in Fbs
  BY DEF Memories, TypeOK
<1>3. mem.fb[console].ref > 0 /\ mem'.fb[console].ref > 0
  BY <1>1, <1>2 DEF Alive
<1>4. QED
  BY <1>2, <1>3 DEF Memories, ConsoleOK, Remains

\* Requests of the desktop leave the driver alone.
LEMMA RequestKept ==
    ASSUME Memories, Opened, Others,
           Accounted(mem', Holders, CursorHolds), Remains(mem, mem')
    PROVE  Memories'
<1>1. Holding /\ Holders' = Holders /\ CursorHolds' = CursorHolds
  BY DEF Memories, Opened, Others, display, Holders, CursorHolds
<1>2. Holding'
  BY <1>1 DEF Holding
<1>3. TypeOK' /\ Good(mem')
  BY <1>2 DEF Memories, TypeOK, Others, display, Holding, Accounted, Good, Memory
<1>4. CursorMapped' /\ GrabMapped'
  BY <1>1, <1>2, CursorKept, GrabKept DEF Others, display
<1>5. ConsoleOK'
  BY <1>1, <1>2, ConsoleKept DEF Others, display, Memories, ConsoleOK
<1>6. PhaseOK' /\ CommitOK' /\ GrabOK'
  BY DEF Memories, PhaseOK, CommitOK, GrabOK, Others, display, Opened
<1>7. QED
  BY <1>2, <1>3, <1>4, <1>5, <1>6 DEF Memories

\* What the desktop says of one object changes with the count.
LEMMA RequestOne ==
    ASSUME Memories, Opened, Others, NEW o \in Objs, NEW r \in ObjRecord, ObjGood(r),
           mem' = [mem EXCEPT !.obj[o] = r],
           r.ref + Held(mem.obj[o]) = mem.obj[o].ref + Held(r),
           mem.obj[o].ref > 0 /\ r.ref > 0 /\ mem.obj[o].mapped => r.mapped
    PROVE  Memories'
<1>1. Accounted(mem, Holders, CursorHolds)
  BY DEF Memories, Opened, Holding
<1>2. mem \in Memory /\ CursorHolds \in [Objs -> Int] /\ mem.obj[o] \in ObjRecord
  BY <1>1 DEF Accounted, Good, Counted, Memory
<1>3. mem.obj[o].ref \in Nat /\ Held(r) \in Nat
  BY <1>2, HeldType DEF ObjRecord
<1>4. r.ref + Held(mem.obj[o]) = mem.obj[o].ref + Held(r) + 0
  BY <1>3
<1>5. Accounted(mem', Holders, [CursorHolds EXCEPT ![o] = @ + 0])
  BY <1>1, <1>4, ObjChange
<1>6. [CursorHolds EXCEPT ![o] = @ + 0] = CursorHolds
  BY <1>2
<1>7. Remains(mem, mem')
  <2>1. /\ mem'.fb = mem.fb /\ mem'.obj[o] = r
        /\ \A x \in Objs \ {o} : mem'.obj[x] = mem.obj[x]
    BY <1>2, SetObj
  <2>2. QED
    BY <2>1 DEF Remains
<1>8. QED
  BY <1>5, <1>6, <1>7, RequestKept

\* A holder more comes with a reference, a holder less with a put.
LEMMA GetRequest ==
    ASSUME Memories, Opened, Others, NEW o \in Objs, NEW v,
           Requested(v, mem.obj[o], 1), mem.obj[o].ref > 0,
           mem' = GetObj([mem EXCEPT !.obj[o] = v], o)
    PROVE  Memories'
<1> DEFINE r == [v EXCEPT !.ref = @ + 1]
<1>1. mem \in Memory /\ mem.obj[o] \in ObjRecord /\ v \in ObjRecord
  BY DEF Memories, Good, Memory, Requested
<1>2. mem' = [mem EXCEPT !.obj[o] = r]
  <2>1. [mem EXCEPT !.obj[o] = v].obj[o] = v
    BY <1>1, SetObj
  <2>2. mem' = [[mem EXCEPT !.obj[o] = v] EXCEPT !.obj[o] = r]
    BY <2>1 DEF GetObj
  <2> HIDE DEF r
  <2>3. QED
    BY <1>1, <2>2, SetTwice
<1>3. /\ r \in ObjRecord /\ r.ref = v.ref + 1 /\ r.kind = v.kind /\ r.handle = v.handle
      /\ r.offset = v.offset /\ r.vma = v.vma /\ r.exported = v.exported
      /\ r.pages = v.pages /\ r.pins = v.pins /\ r.mapped = v.mapped /\ r.maps = v.maps
  BY <1>1 DEF ObjRecord
<1> HIDE DEF r
<1>4. /\ Held(r) = Held(v) /\ Mappings(r) = Mappings(v) /\ Pinning(r) = Pinning(v)
      /\ ExportOf(r) = ExportOf(v) /\ OffsetOf(r) = OffsetOf(v)
  BY <1>3 DEF Held, Mappings, Pinning, HandleOf, VmaOf, ExportOf, OffsetOf
<1>5. mem.obj[o].ref \in Nat /\ Held(mem.obj[o]) \in Nat /\ v.ref = mem.obj[o].ref
      /\ Held(v) = Held(mem.obj[o]) + 1 /\ v.mapped = mem.obj[o].mapped
  BY <1>1, HeldType DEF ObjRecord, Requested
<1>6. ObjGood(r)
  BY <1>3, <1>4, <1>5 DEF Requested, ObjGood
<1>7. r.ref + Held(mem.obj[o]) = mem.obj[o].ref + Held(r)
  BY <1>3, <1>4, <1>5
<1>8. QED
  BY <1>2, <1>3, <1>5, <1>6, <1>7, RequestOne

LEMMA PutRequest ==
    ASSUME Memories, Opened, Others, NEW o \in Objs, NEW v,
           Requested(v, mem.obj[o], (-1)), mem.obj[o].ref > 0,
           mem' = PutObj([mem EXCEPT !.obj[o] = v], o)
    PROVE  Memories'
<1> DEFINE r == PutRec(v)
<1>1. mem \in Memory /\ mem.obj[o] \in ObjRecord /\ v \in ObjRecord
  BY DEF Memories, Good, Memory, Requested
<1>2. mem' = [mem EXCEPT !.obj[o] = r]
  <2>1. [mem EXCEPT !.obj[o] = v].obj[o] = v
    BY <1>1, SetObj
  <2>2. mem' = [[mem EXCEPT !.obj[o] = v] EXCEPT !.obj[o] = r]
    BY <2>1 DEF PutObj, PutRec
  <2> HIDE DEF r
  <2>3. QED
    BY <1>1, <2>2, SetTwice
<1>3. mem.obj[o].ref \in Nat /\ Held(mem.obj[o]) \in Nat /\ v.ref = mem.obj[o].ref
      /\ Held(v) = Held(mem.obj[o]) + (-1) /\ v.mapped = mem.obj[o].mapped /\ ObjGood(v)
  BY <1>1, HeldType DEF ObjRecord, Requested
<1>4. /\ r \in ObjRecord /\ ObjGood(r) /\ r.ref = v.ref - 1 /\ Held(r) = Held(v)
      /\ v.ref > 1 => r.mapped = v.mapped
  BY <1>1, <1>3, PutRecOK
<1> HIDE DEF r
<1>5. r.ref + Held(mem.obj[o]) = mem.obj[o].ref + Held(r)
  BY <1>3, <1>4
<1>6. ASSUME r.ref > 0, mem.obj[o].mapped PROVE r.mapped
  <2>1. v.ref > 1
    BY <1>3, <1>4, <1>6
  <2>2. QED
    BY <1>3, <1>4, <1>6, <2>1, Zenon
<1>7. QED
  BY <1>2, <1>4, <1>5, <1>6, RequestOne

\* Where the desktop holds something, it is alive.
LEMMA DesktopFacts ==
    ASSUME Memories, Opened, NEW o \in Objs
    PROVE  /\ Holding /\ Alive /\ mem.obj[o] \in ObjRecord /\ ObjGood(mem.obj[o])
           /\ mem.obj[o].ref \in Nat
           /\ mem.obj[o].handle \/ mem.obj[o].vma \/ mem.obj[o].exported => mem.obj[o].ref > 0
<1>1. Holding /\ Alive /\ mem.obj[o] \in ObjRecord /\ ObjGood(mem.obj[o])
  BY AliveNow DEF Memories, Opened, Good, Memory
<1>2. mem.obj[o].ref \in Nat
  BY <1>1 DEF ObjRecord
<1>3. mem.obj[o].handle \/ mem.obj[o].vma \/ mem.obj[o].exported => Held(mem.obj[o]) # 0
  BY <1>1, HeldType
<1>4. QED
  BY <1>1, <1>2, <1>3 DEF Alive

LEMMA CloseHandleKeeps ==
    ASSUME Memories, NEW o \in Objs, CloseHandle(o) PROVE Memories'
<1>1. Opened /\ mem.obj[o].handle /\ Others
      /\ mem' = PutObj([mem EXCEPT !.obj[o] = [mem.obj[o] EXCEPT !.handle = FALSE]], o)
  BY DEF CloseHandle
<1>2. QED
  BY <1>1, DesktopFacts, HandleClosed, PutRequest

LEMMA MunmapKeeps ==
    ASSUME Memories, NEW o \in Objs, Munmap(o) PROVE Memories'
<1>1. Opened /\ mem.obj[o].vma /\ Others
      /\ mem' = PutObj([mem EXCEPT !.obj[o] = [mem.obj[o] EXCEPT !.vma = FALSE]], o)
  BY DEF Munmap
<1>2. QED
  BY <1>1, DesktopFacts, VmaClosed, PutRequest

LEMMA UnexportKeeps ==
    ASSUME Memories, NEW o \in Objs, Unexport(o) PROVE Memories'
<1>1. Opened /\ mem.obj[o].exported /\ Others
      /\ mem' = PutObj([mem EXCEPT !.obj[o] = Unpin([mem.obj[o] EXCEPT !.exported = FALSE])], o)
  BY DEF Unexport
<1>2. QED
  BY <1>1, DesktopFacts, ExportClosed, PutRequest

LEMMA MmapKeeps ==
    ASSUME Memories, NEW o \in Objs, Mmap(o) PROVE Memories'
<1>1. Opened /\ mem.obj[o].handle /\ mem.obj[o].offset /\ ~mem.obj[o].vma /\ Others
      /\ mem' = GetObj([mem EXCEPT !.obj[o] = [mem.obj[o] EXCEPT !.vma = TRUE]], o)
  BY DEF Mmap, Opened
<1>2. QED
  BY <1>1, DesktopFacts, VmaMade, GetRequest

LEMMA ExportKeeps ==
    ASSUME Memories, NEW o \in Objs, Export(o) PROVE Memories'
<1>1. Opened /\ mem.obj[o].handle /\ ~mem.obj[o].exported /\ Others
      /\ mem' = GetObj([mem EXCEPT !.obj[o] = Pin([mem.obj[o] EXCEPT !.exported = TRUE])], o)
  BY DEF Export, Opened
<1>2. QED
  BY <1>1, DesktopFacts, ExportMade, GetRequest

\* A free object, and one that was just made.
New == [Free EXCEPT !.ref = 1]

LEMMA NewFacts ==
    /\ Free \in ObjRecord /\ ObjGood(Free) /\ Free.ref = 0 /\ Held(Free) = 0
    /\ New \in ObjRecord /\ ObjGood(New) /\ New.ref = 1 /\ Held(New) = 0
    /\ ~New.mapped /\ ~New.handle
<1>1. /\ Free \in ObjRecord /\ Free.ref = 0 /\ ~Free.handle /\ ~Free.vma /\ ~Free.exported
      /\ ~Free.offset /\ ~Free.pages /\ ~Free.mapped /\ Free.maps = 0 /\ Free.pins = 0
  BY DEF Free, ObjRecord
<1>2. /\ New \in ObjRecord /\ New.ref = 1 /\ ~New.handle /\ ~New.vma /\ ~New.exported
      /\ ~New.offset /\ ~New.pages /\ ~New.mapped /\ New.maps = 0 /\ New.pins = 0
  BY DEF New, Free, ObjRecord
<1>3. \A r : ~r.handle /\ ~r.vma /\ ~r.exported /\ ~r.offset
             => Held(r) = 0 /\ ExportOf(r) = 0 /\ OffsetOf(r) = 0
  BY DEF Held, HandleOf, VmaOf, ExportOf, OffsetOf, Count
<1>4. ObjGood(Free)
  BY <1>1 DEF ObjGood
<1>5. ObjGood(New)
  <2>1. MappingCounted(New)
    BY <1>2, MappingCounts
  <2>2. Mappings(New) = 0 /\ Pinning(New) = 0 /\ ExportOf(New) = 0 /\ OffsetOf(New) = 0
    BY <1>2, <1>3, <2>1 DEF MappingCounted
  <2>3. QED
    BY <1>2, <2>2 DEF ObjGood
<1>6. QED
  BY <1>1, <1>2, <1>3, <1>4, <1>5

LEMMA DumbCreateKeeps ==
    ASSUME Memories, NEW o \in Objs, DumbCreate(o) PROVE Memories'
<1> DEFINE r == [New EXCEPT !.handle = TRUE]
<1>1. Opened /\ mem.obj[o].ref = 0 /\ Others /\ mem' = [mem EXCEPT !.obj[o] = r]
  BY DEF DumbCreate, Change, Opened, New
<1>2. Requested(r, New, 1)
  BY NewFacts, HandleMade
<1> HIDE DEF r
<1>3. r \in ObjRecord /\ ObjGood(r) /\ r.ref = 1 /\ Held(r) = 1
  BY <1>2, NewFacts DEF Requested
<1>4. Held(mem.obj[o]) = 0
  BY <1>1, DesktopFacts DEF Alive
<1>5. QED
  BY <1>1, <1>3, <1>4, RequestOne

LEMMA ImportKeeps ==
    ASSUME Memories, NEW o \in Objs, NEW kind \in Kinds, Import(o, kind) PROVE Memories'
<1> DEFINE r == [Free EXCEPT !.ref = 1, !.handle = TRUE, !.kind = kind, !.pages = TRUE]
<1>1. Opened /\ mem.obj[o].ref = 0 /\ Others /\ mem' = [mem EXCEPT !.obj[o] = r]
  BY DEF Import, Change, Opened
<1>2. /\ r \in ObjRecord /\ r.ref = 1 /\ r.handle /\ ~r.vma /\ ~r.exported
      /\ ~r.offset /\ r.pages /\ ~r.mapped /\ r.maps = 0 /\ r.pins = 0
  BY MemoryAssumption DEF Free, ObjRecord
<1> HIDE DEF r
<1>3. Held(r) = 1 /\ ExportOf(r) = 0 /\ OffsetOf(r) = 0
  BY <1>2 DEF Held, HandleOf, VmaOf, ExportOf, OffsetOf, Count
<1>4. ObjGood(r)
  <2>1. Mappings(r) = 0 /\ Pinning(r) = 0
    BY <1>2, MappingCounts DEF MappingCounted
  <2>2. QED
    BY <1>2, <1>3, <2>1 DEF ObjGood
<1>5. Held(mem.obj[o]) = 0
  BY <1>1, DesktopFacts DEF Alive
<1>6. QED
  BY <1>1, <1>2, <1>3, <1>4, <1>5, RequestOne

LEMMA MapOffsetKeeps ==
    ASSUME Memories, NEW o \in Objs, MapOffset(o) PROVE Memories'
<1> DEFINE r == [Pin(mem.obj[o]) EXCEPT !.offset = TRUE]
<1>1. Opened /\ mem.obj[o].handle /\ Others /\ mem' = [mem EXCEPT !.obj[o] = r]
  BY DEF MapOffset, Change, Opened
<1>2. Requested(r, mem.obj[o], 0) /\ mem.obj[o] \in ObjRecord
  BY <1>1, DesktopFacts, OffsetMade
<1> HIDE DEF r
<1>3. r.ref + Held(mem.obj[o]) = mem.obj[o].ref + Held(r)
  BY <1>2, HeldType DEF Requested
<1>4. r \in ObjRecord /\ ObjGood(r) /\ r.mapped = mem.obj[o].mapped
  BY <1>2 DEF Requested
<1>5. QED
  BY <1>1, <1>3, <1>4, RequestOne

LEMMA CreateHandleKeeps ==
    ASSUME Memories, NEW f \in Fbs, CreateHandle(f) PROVE Memories'
<1> DEFINE o == mem.fb[f].obj
           v == [mem.obj[o] EXCEPT !.handle = TRUE]
<1>1. Opened /\ mem.fb[f].ref > 0 /\ ~mem.obj[o].handle /\ Others
      /\ mem' = GetObj([mem EXCEPT !.obj[o] = v], o)
  BY DEF CreateHandle, Opened
<1>2. Alive
  BY <1>1, AliveNow DEF Memories, Opened
<1>3. o \in Objs /\ mem.obj[o].ref > 0
  BY <1>1, <1>2 DEF Alive
<1>4. Requested(v, mem.obj[o], 1)
  BY <1>1, <1>3, DesktopFacts, HandleMade
<1> HIDE DEF o, v
<1>5. QED
  BY <1>1, <1>3, <1>4, GetRequest

LEMMA Redone ==
    ASSUME NEW S, NEW h \in [S -> Int], NEW x \in S
    PROVE  [[h EXCEPT ![x] = @ - 1] EXCEPT ![x] = @ + 1] = h
<1> DEFINE g == [h EXCEPT ![x] = @ - 1]
           k == [g EXCEPT ![x] = @ + 1]
<1>1. g \in [S -> Int] /\ g[x] = h[x] - 1 /\ \A y \in S \ {x} : g[y] = h[y]
  OBVIOUS
<1> HIDE DEF g
<1>2. k \in [S -> Int] /\ k[x] = g[x] + 1 /\ \A y \in S \ {x} : k[y] = g[y]
  BY <1>1
<1> HIDE DEF k
<1>3. \A y \in S : k[y] = h[y]
  BY <1>1, <1>2
<1>4. k = h
  BY <1>2, <1>3
<1>5. QED
  BY <1>4 DEF g, k

LEMMA UserFbCreateKeeps ==
    ASSUME Memories, NEW f \in Fbs, NEW o \in Objs, UserFbCreate(f, o) PROVE Memories'
<1> DEFINE n == [mem EXCEPT !.fb[f] = NewFb(o)]
           go == [CursorHolds EXCEPT ![o] = @ - 1]
<1>1. Opened /\ mem.obj[o].handle /\ mem.fb[f].ref = 0 /\ Others /\ mem' = GetObj(n, o)
  BY DEF UserFbCreate, Opened, NewFb
<1>2. Accounted(mem, Holders, CursorHolds) /\ mem.obj[o].ref > 0
  BY <1>1, DesktopFacts DEF Holding
<1>3. Holders[f] >= 0
  BY HeldByMany
<1>4. /\ Accounted(n, Holders, go) /\ n.obj = mem.obj
      /\ \A x \in Fbs \ {f} : n.fb[x] = mem.fb[x]
  BY <1>1, <1>2, <1>3, FbNew
<1>5. [go EXCEPT ![o] = @ + 1] = CursorHolds
  BY <1>2, Redone DEF Accounted, Counted
<1> HIDE DEF n, go
<1>6. Accounted(mem', Holders, [go EXCEPT ![o] = @ + 1]) /\ Keeps(n, mem')
  BY <1>1, <1>2, <1>4, GetObjOK
<1>7. Remains(mem, mem')
  BY <1>1, <1>4, <1>6 DEF Keeps, Remains
<1>8. QED
  BY <1>1, <1>5, <1>6, <1>7, RequestKept

LEMMA RemoveFbKeeps ==
    ASSUME Memories, NEW f \in Fbs, RemoveFb(f) PROVE Memories'
<1> DEFINE r == [mem.fb[f] EXCEPT !.id = FALSE]
           n == [mem EXCEPT !.fb[f] = r]
           gf == [Holders EXCEPT ![f] = @ + 1]
<1>1. Opened /\ mem.fb[f].id /\ Others /\ mem' = PutFb(n, f)
  BY DEF RemoveFb
<1>2. Accounted(mem, Holders, CursorHolds) /\ Alive
  BY <1>1, AliveNow DEF Memories, Opened, Holding
<1>3. mem \in Memory /\ mem.fb[f] \in FbRecord /\ mem.fb[f].ref > 0 /\ Holders \in [Fbs -> Int]
  BY <1>1, <1>2 DEF Accounted, Good, Memory, Alive, Counted
<1>4. r \in FbRecord /\ r.ref = mem.fb[f].ref /\ r.obj = mem.fb[f].obj /\ ~r.id /\ r.ref \in Nat
  BY <1>3 DEF FbRecord
<1> HIDE DEF r
<1>5. r.ref + Named(mem.fb[f]) = mem.fb[f].ref + Named(r) + 1
  <2>1. Named(mem.fb[f]) = 1 /\ Named(r) = 0
    BY <1>1, <1>4 DEF Named, Count
  <2>2. QED
    BY <1>4, <2>1
<1>6. Accounted(n, gf, CursorHolds) /\ Keeps(mem, n)
  <2>1. Accounted(n, gf, CursorHolds)
    <3>1. r \in FbRecord /\ r.ref > 0 /\ mem.fb[f].ref > 0 /\ r.obj = mem.fb[f].obj
      BY <1>3, <1>4
    <3>2. Accounted(mem, Holders, CursorHolds)
      BY <1>2
    <3>3. QED
      BY <1>5, <3>1, <3>2, FbChange
  <2>2. Keeps(mem, n)
    BY <1>3, <1>4, FbKeeps
  <2>3. QED
    BY <2>1, <2>2
<1>7. gf[f] = Holders[f] + 1 /\ [gf EXCEPT ![f] = @ - 1] = Holders
  BY <1>3, Undone
<1>8. gf[f] > 0 /\ \A o \in Objs : CursorHolds[o] >= 0
  BY <1>7, HeldByMany
<1> HIDE DEF n, gf
<1>9. Accounted(mem', [gf EXCEPT ![f] = @ - 1], CursorHolds) /\ Keeps(n, mem')
  BY <1>1, <1>6, <1>8, PutFbOK
<1>10. Remains(mem, mem')
  BY <1>6, <1>9, KeepsTrans, KeepsRemains
<1>11. QED
  BY <1>1, <1>7, <1>9, <1>10, RequestKept

-----------------------------------------------------------------------------
(* Commits and clients *)

LEMMA IsFacts == /\ \A a, b : Is(a, b) \in {0, 1} /\ (a = b <=> Is(a, b) = 1)
                 /\ \A f \in Fbs : Is(None, f) = 0
                 /\ \A o \in Objs : Is(None, o) = 0
  BY MemoryAssumption DEF Is

\* What the driver holds: natural numbers.
Numbers == /\ Holders \in [Fbs -> Nat] /\ CursorHolds \in [Objs -> Nat]
           /\ \A o \in Objs : CursorHolds[o] = Is(cursor.obj, o)

LEMMA HeldNumbers == Numbers
<1>1. \A f \in Fbs : Holders[f] \in Nat
  BY HeldByMany
<1>2. \A o \in Objs : CursorHolds[o] \in Nat
  BY HeldByMany
<1>3. QED
  BY <1>1, <1>2 DEF Holders, CursorHolds, Numbers

LEMMA HeldNumbersNext == Numbers'
  BY HeldNumbers, PTL

LEMMA OneMore ==
    ASSUME NEW S, NEW h \in [S -> Int], NEW g \in [S -> Int], NEW x \in S,
           \A y \in S : g[y] = h[y] + Is(x, y)
    PROVE  g = [h EXCEPT ![x] = @ + 1]
<1> DEFINE k == [h EXCEPT ![x] = @ + 1]
<1>1. k \in [S -> Int] /\ \A y \in S : k[y] = IF y = x THEN h[y] + 1 ELSE h[y]
  OBVIOUS
<1> HIDE DEF k
<1>2. \A y \in S : g[y] = k[y]
  BY <1>1 DEF Is
<1>3. g = k
  BY <1>1, <1>2
<1>4. QED
  BY <1>3 DEF k

LEMMA OneLess ==
    ASSUME NEW S, NEW h \in [S -> Int], NEW g \in [S -> Int], NEW x \in S,
           \A y \in S : h[y] = g[y] + Is(x, y)
    PROVE  g = [h EXCEPT ![x] = @ - 1]
<1> DEFINE k == [h EXCEPT ![x] = @ - 1]
<1>1. k \in [S -> Int] /\ \A y \in S : k[y] = IF y = x THEN h[y] - 1 ELSE h[y]
  OBVIOUS
<1> HIDE DEF k
<1>2. \A y \in S : g[y] = k[y]
  BY <1>1 DEF Is
<1>3. g = k
  BY <1>1, <1>2
<1>4. QED
  BY <1>3 DEF k

LEMMA Unchanged == ASSUME NEW m PROVE Keeps(m, m)
  BY DEF Keeps

\* A framebuffer, or none, is taken: one holder more.
LEMMA Taken ==
    ASSUME NEW m, NEW hf, NEW ho, Accounted(m, hf, ho), NEW f \in Fbs \cup {None},
           f \in Fbs => m.fb[f].ref > 0,
           NEW gf \in [Fbs -> Int], \A x \in Fbs : gf[x] = hf[x] + Is(f, x)
    PROVE  Accounted(GetFb(m, f), gf, ho) /\ Keeps(m, GetFb(m, f))
<1>1. hf \in [Fbs -> Int]
  BY DEF Accounted, Counted
<1>2. CASE f = None
  <2>1. \A x \in Fbs : gf[x] = hf[x]
    BY <1>1, <1>2, IsFacts
  <2>2. gf = hf /\ GetFb(m, f) = m
    BY <1>1, <1>2, <2>1 DEF GetFb
  <2>3. QED
    BY <2>2, Unchanged
<1>3. CASE f \in Fbs
  <2>1. gf = [hf EXCEPT ![f] = @ + 1]
    BY <1>1, <1>3, OneMore
  <2>2. QED
    BY <1>3, <2>1, GetFbOK
<1>4. QED
  BY <1>2, <1>3

\* A framebuffer, or none, is put: one holder less.
LEMMA Put ==
    ASSUME NEW m, NEW hf, NEW ho \in [Objs -> Nat], Accounted(m, hf, ho),
           NEW f \in Fbs \cup {None},
           NEW gf \in [Fbs -> Nat], \A x \in Fbs : hf[x] = gf[x] + Is(f, x)
    PROVE  Accounted(PutFb(m, f), gf, ho) /\ Keeps(m, PutFb(m, f))
<1>1. hf \in [Fbs -> Int] /\ gf \in [Fbs -> Int]
  BY DEF Accounted, Counted
<1>2. CASE f = None
  <2>1. \A x \in Fbs : gf[x] = hf[x]
    BY <1>1, <1>2, IsFacts
  <2>2. gf = hf /\ PutFb(m, f) = m
    BY <1>1, <1>2, <2>1 DEF PutFb
  <2>3. QED
    BY <2>2, Unchanged
<1>3. CASE f \in Fbs
  <2>1. gf = [hf EXCEPT ![f] = @ - 1]
    BY <1>1, <1>3, OneLess
  <2>2. hf[f] > 0
    <3>1. hf[f] = gf[f] + Is(f, f) /\ gf[f] \in Nat /\ Is(f, f) = 1
      BY <1>3, IsFacts
    <3>2. QED
      BY <3>1
  <2>3. \A o \in Objs : ho[o] >= 0
    OBVIOUS
  <2>4. QED
    BY <1>3, <2>1, <2>2, <2>3, PutFbOK
<1>4. QED
  BY <1>2, <1>3

\* The cursor moves from its object, or none, to o, or none.
LEMMA CursorMoved ==
    ASSUME NEW m, NEW hf, NEW ho, Accounted(m, hf, ho), NEW o \in Objs \cup {None},
           o \in Objs => m.obj[o].ref > 0, cursor.obj \in Objs \cup {None},
           NEW go \in [Objs -> Nat],
           \A x \in Objs : ho[x] = Is(cursor.obj, x) /\ go[x] = Is(o, x)
    PROVE  Accounted(SetGem(m, o), hf, go) /\ Keeps(m, SetGem(m, o))
<1> DEFINE taken == IF o = None THEN m ELSE GetObj(m, o)
           mo == [x \in Objs |-> ho[x] + Is(o, x)]
<1>1. ho \in [Objs -> Int] /\ go \in [Objs -> Int]
  BY DEF Accounted, Counted
<1>2. mo \in [Objs -> Int] /\ \A x \in Objs : mo[x] = ho[x] + Is(o, x)
  <2>1. \A x \in Objs : ho[x] + Is(o, x) \in Int
    BY <1>1, IsFacts
  <2>2. QED
    BY <2>1
<1> HIDE DEF mo
<1>3. Accounted(taken, hf, mo) /\ Keeps(m, taken)
  <2>1. CASE o = None
    <3>1. \A x \in Objs : mo[x] = ho[x]
      BY <1>1, <1>2, <2>1, IsFacts
    <3>2. mo = ho /\ taken = m
      BY <1>1, <1>2, <2>1, <3>1
    <3>3. QED
      BY <3>2, Unchanged
  <2>2. CASE o \in Objs
    <3>1. mo = [ho EXCEPT ![o] = @ + 1]
      BY <1>1, <1>2, <2>2, OneMore
    <3>2. taken = GetObj(m, o)
      BY <2>2, MemoryAssumption
    <3>3. Accounted(GetObj(m, o), hf, [ho EXCEPT ![o] = @ + 1]) /\ Keeps(m, GetObj(m, o))
      BY <2>2, GetObjOK
    <3> HIDE DEF taken
    <3>4. QED
      BY <3>1, <3>2, <3>3
  <2>3. QED
    BY <2>1, <2>2
<1>4. SetGem(m, o) = IF cursor.obj = None THEN taken ELSE PutObj(taken, cursor.obj)
  BY DEF SetGem
<1> HIDE DEF taken
<1>5. \A x \in Objs : mo[x] = go[x] + Is(cursor.obj, x)
  <2> SUFFICES ASSUME NEW x \in Objs PROVE mo[x] = go[x] + Is(cursor.obj, x)
    OBVIOUS
  <2>1. mo[x] = Is(cursor.obj, x) + Is(o, x) /\ go[x] = Is(o, x)
        /\ Is(cursor.obj, x) \in Nat /\ Is(o, x) \in Nat
    BY <1>2, IsFacts
  <2>2. QED
    BY <2>1
<1>6. CASE cursor.obj = None
  <2>1. \A x \in Objs : mo[x] = go[x]
    BY <1>1, <1>5, <1>6, IsFacts
  <2>2. mo = go
    BY <1>1, <1>2, <2>1
  <2>3. QED
    BY <1>3, <1>4, <1>6, <2>2
<1>7. CASE cursor.obj \in Objs
  <2>1. go = [mo EXCEPT ![cursor.obj] = @ - 1]
    BY <1>1, <1>2, <1>5, <1>7, OneLess
  <2>2. mo[cursor.obj] > 0
    <3>1. mo[cursor.obj] = go[cursor.obj] + Is(cursor.obj, cursor.obj)
      BY <1>5, <1>7
    <3>2. go[cursor.obj] \in Nat
      BY <1>7
    <3>3. Is(cursor.obj, cursor.obj) = 1
      BY DEF Is
    <3>4. QED
      BY <3>1, <3>2, <3>3
  <2>3. SetGem(m, o) = PutObj(taken, cursor.obj)
    BY <1>4, <1>7, MemoryAssumption
  <2>4. Accounted(PutObj(taken, cursor.obj), hf, go) /\ Keeps(taken, PutObj(taken, cursor.obj))
    BY <1>3, <1>7, <2>1, <2>2, PutObjOK
  <2>5. QED
    BY <1>3, <2>3, <2>4, KeepsTrans
<1>8. QED
  BY <1>6, <1>7

LEMMA RemainsKeeps ==
    ASSUME NEW m, NEW n, NEW p, Remains(m, n), Keeps(n, p)
    PROVE  Remains(m, p)
  BY DEF Remains, Keeps

\* What a step of a commit or a client has to show.
LEMMA StepKept ==
    ASSUME Memories, phase = "live", phase' = "live", Accounted(mem', Holders', CursorHolds'),
           Remains(mem, mem'), TypeOK', CommitOK', GrabOK', CursorMapped', GrabMapped',
           console' = console, console # None => cursorPlane' # console
    PROVE  Memories'
<1>1. Holding /\ Holding'
  BY DEF Memories, Holding
<1>2. ConsoleOK'
  BY <1>1, ConsoleKept
<1>3. PhaseOK'
  BY DEF PhaseOK
<1>4. Good(mem')
  BY DEF Accounted
<1>5. QED
  BY <1>1, <1>2, <1>3, <1>4 DEF Memories

\* The same where nothing is mapped.
LEMMA HoldStep ==
    ASSUME Memories, phase = "live", phase' = "live", Accounted(mem', Holders', CursorHolds'),
           Keeps(mem, mem'), TypeOK', CommitOK', GrabOK', cursor'.obj \in {None, cursor.obj},
           grab'.at \in {"copy", "compose"} => grab.at \in {"copy", "compose"} /\ grab'.fb = grab.fb,
           console' = console, console # None => cursorPlane' # console
    PROVE  Memories'
<1>1. Holding /\ Holding' /\ Remains(mem, mem')
  BY KeepsRemains DEF Memories, Holding
<1>2. CursorMapped' /\ GrabMapped'
  BY <1>1, CursorKept, GrabKept
<1>3. QED
  BY <1>1, <1>2, StepKept

\* What a step of the live driver starts from.
LEMMA LiveFacts ==
    ASSUME Memories, phase = "live"
    PROVE  /\ Accounted(mem, Holders, CursorHolds) /\ Alive
           /\ TypeOK /\ CommitOK /\ GrabOK /\ ConsoleOK /\ CursorMapped /\ GrabMapped
  BY AliveNow DEF Memories, Holding

\* Only a live driver has something in progress.
LEMMA InProgress ==
    ASSUME Memories, commit.at # "idle" \/ grab.at # "idle" \/ leaving
    PROVE  phase = "live"
  BY DEF Memories, PhaseOK, NoCommit, NoGrab

\* The sum of the holders, with those of the planes and of the commit named.
HoldSum(x, c, p, u, s, g, o, d) ==
    Is(c, x) + Is(p, x) + Is(u, x) + Is(s, x) + Is(g, x) + Is(o, x) + Is(d, x)

Summed ==
    \A x \in Fbs : Holders[x] = HoldSum(x, console, plane, cursorPlane, scanout, grab.fb,
                                        commit.old, commit.drop)

LEMMA HoldSums == Summed
  BY DEF Summed, Holders, HoldSum

LEMMA HoldSumsNext == Summed'
  BY HoldSums, PTL

LEMMA StartCommitKeeps ==
    ASSUME Memories, NEW f \in Shown \cup {None}, StartCommit(f) PROVE Memories'
<1>1. /\ phase = "live" /\ phase' = "live" /\ commit.at = "idle" /\ mem' = GetFb(mem, f)
      /\ plane' = f
      /\ commit' = [NoCommit EXCEPT !.at = IF f = None THEN "finish" ELSE "scanout",
                                    !.fb = f, !.old = plane]
      /\ UNCHANGED <<console, cursorPlane, scanout, cursor, cursorLock, grab, leaving>>
  BY DEF StartCommit
<1>2. Accounted(mem, Holders, CursorHolds) /\ Alive
      /\ TypeOK /\ CommitOK /\ GrabOK /\ ConsoleOK
  BY <1>1, LiveFacts
<1>3. f \in Fbs \cup {None} /\ (f \in Fbs => mem.fb[f].ref > 0)
  BY <1>2, MemoryAssumption DEF Shown, Alive
<1>4. /\ commit = NoCommit /\ commit.old = None /\ commit.drop = None
      /\ commit'.at = (IF f = None THEN "finish" ELSE "scanout")
      /\ commit'.fb = f /\ commit'.old = plane /\ commit'.drop = None
  BY <1>1, <1>2 DEF CommitOK, NoCommit
<1>5. ASSUME NEW x \in Fbs PROVE Holders'[x] = Holders[x] + Is(f, x)
  <2>1. Is(None, x) = 0 /\ \A a, b : Is(a, b) \in {0, 1}
    BY IsFacts
  <2>2. QED
    BY <1>1, <1>4, <2>1, HoldSums, HoldSumsNext DEF Summed, HoldSum
<1>6. CursorHolds' = CursorHolds
  BY <1>1 DEF CursorHolds
<1>7. Accounted(mem', Holders', CursorHolds') /\ Keeps(mem, mem')
  BY <1>1, <1>2, <1>3, <1>5, <1>6, HeldNumbersNext, Taken DEF Numbers
<1>8. CommitOK'
  BY <1>1, <1>4 DEF CommitOK
<1>9. GrabOK'
  BY <1>1, <1>2 DEF GrabOK
<1>10. TypeOK'
  BY <1>1, <1>2, <1>3, <1>7 DEF TypeOK, NoCommit, Accounted, Good, Memory
<1>11. QED
  BY <1>1, <1>2, <1>7, <1>8, <1>9, <1>10, HoldStep DEF ConsoleOK

LEMMA SetScanoutKeeps == ASSUME Memories, SetScanout PROVE Memories'
<1>1. /\ commit.at = "scanout" /\ mem' = GetFb(mem, commit.fb) /\ scanout' = commit.fb
      /\ commit' = [commit EXCEPT !.at = "drop", !.drop = scanout]
      /\ UNCHANGED <<phase, console, plane, cursorPlane, cursor, cursorLock, grab, leaving>>
  BY DEF SetScanout
<1>2. Accounted(mem, Holders, CursorHolds) /\ Alive
      /\ TypeOK /\ CommitOK /\ GrabOK /\ ConsoleOK /\ phase = "live"
  BY <1>1, InProgress, LiveFacts
<1>3. commit.fb \in Fbs /\ commit.fb = plane /\ commit.drop = None /\ mem.fb[commit.fb].ref > 0
  BY <1>1, <1>2 DEF CommitOK, TypeOK, Alive
<1>4. commit'.at = "drop" /\ commit'.drop = scanout
      /\ commit'.fb = commit.fb /\ commit'.old = commit.old
  BY <1>1, <1>2 DEF TypeOK
<1>5. ASSUME NEW x \in Fbs PROVE Holders'[x] = Holders[x] + Is(commit.fb, x)
  <2>1. Is(None, x) = 0 /\ \A a, b : Is(a, b) \in {0, 1}
    BY IsFacts
  <2>2. QED
    BY <1>1, <1>3, <1>4, <2>1, HoldSums, HoldSumsNext DEF Summed, HoldSum
<1>6. CursorHolds' = CursorHolds
  BY <1>1 DEF CursorHolds
<1>7. Accounted(mem', Holders', CursorHolds') /\ Keeps(mem, mem')
  BY <1>1, <1>2, <1>3, <1>5, <1>6, HeldNumbersNext, Taken DEF Numbers
<1>8. CommitOK'
  BY <1>1, <1>4 DEF CommitOK
<1>9. GrabOK'
  BY <1>1, <1>2 DEF GrabOK
<1>10. TypeOK'
  BY <1>1, <1>2, <1>3, <1>7 DEF TypeOK, Accounted, Good, Memory
<1>11. QED
  BY <1>1, <1>2, <1>7, <1>8, <1>9, <1>10, HoldStep DEF ConsoleOK

LEMMA DropScanoutKeeps == ASSUME Memories, DropScanout PROVE Memories'
<1>1. /\ commit.at = "drop" /\ mem' = PutFb(mem, commit.drop)
      /\ commit' = [commit EXCEPT !.at = "finish", !.drop = None]
      /\ UNCHANGED <<phase, console, plane, cursorPlane, scanout, cursor, cursorLock, grab,
                     leaving>>
  BY DEF DropScanout, display
<1>2. Accounted(mem, Holders, CursorHolds) /\ Alive
      /\ TypeOK /\ CommitOK /\ GrabOK /\ ConsoleOK /\ phase = "live"
  BY <1>1, InProgress, LiveFacts
<1>3. commit.drop \in Fbs \cup {None}
  BY <1>2 DEF TypeOK
<1>4. commit'.at = "finish" /\ commit'.drop = None
      /\ commit'.fb = commit.fb /\ commit'.old = commit.old
  BY <1>1, <1>2 DEF TypeOK
<1>5. ASSUME NEW x \in Fbs PROVE Holders[x] = Holders'[x] + Is(commit.drop, x)
  <2>1. Is(None, x) = 0 /\ \A a, b : Is(a, b) \in {0, 1}
    BY IsFacts
  <2>2. QED
    BY <1>1, <1>4, <2>1, HoldSums, HoldSumsNext DEF Summed, HoldSum
<1>6. CursorHolds' = CursorHolds
  BY <1>1 DEF CursorHolds
<1>7. Accounted(mem', Holders', CursorHolds') /\ Keeps(mem, mem')
  BY <1>1, <1>2, <1>3, <1>5, <1>6, HeldNumbersNext, Put DEF Numbers
<1>8. CommitOK'
  BY <1>1, <1>4 DEF CommitOK
<1>9. GrabOK'
  BY <1>1, <1>2 DEF GrabOK
<1>10. TypeOK'
  BY <1>1, <1>2, <1>7 DEF TypeOK, Accounted, Good, Memory
<1>11. QED
  BY <1>1, <1>2, <1>7, <1>8, <1>9, <1>10, HoldStep DEF ConsoleOK

LEMMA FinishCommitKeeps == ASSUME Memories, FinishCommit PROVE Memories'
<1>1. /\ commit.at = "finish" /\ mem' = PutFb(mem, commit.old) /\ commit' = NoCommit
      /\ UNCHANGED <<phase, console, plane, cursorPlane, scanout, cursor, cursorLock, grab,
                     leaving>>
  BY DEF FinishCommit, display
<1>2. Accounted(mem, Holders, CursorHolds) /\ Alive
      /\ TypeOK /\ CommitOK /\ GrabOK /\ ConsoleOK /\ phase = "live"
  BY <1>1, InProgress, LiveFacts
<1>3. commit.old \in Fbs \cup {None} /\ commit.drop = None
  BY <1>1, <1>2 DEF TypeOK, CommitOK
<1>4. commit'.at = "idle" /\ commit'.drop = None /\ commit'.fb = None /\ commit'.old = None
  BY <1>1 DEF NoCommit
<1>5. ASSUME NEW x \in Fbs PROVE Holders[x] = Holders'[x] + Is(commit.old, x)
  <2>1. Is(None, x) = 0 /\ \A a, b : Is(a, b) \in {0, 1}
    BY IsFacts
  <2>2. QED
    BY <1>1, <1>3, <1>4, <2>1, HoldSums, HoldSumsNext DEF Summed, HoldSum
<1>6. CursorHolds' = CursorHolds
  BY <1>1 DEF CursorHolds
<1>7. Accounted(mem', Holders', CursorHolds') /\ Keeps(mem, mem')
  BY <1>1, <1>2, <1>3, <1>5, <1>6, HeldNumbersNext, Put DEF Numbers
<1>8. CommitOK'
  BY <1>1, <1>4 DEF CommitOK
<1>9. GrabOK'
  BY <1>1, <1>2 DEF GrabOK
<1>10. TypeOK'
  BY <1>1, <1>2, <1>7 DEF TypeOK, Accounted, Good, Memory, NoCommit
<1>11. QED
  BY <1>1, <1>2, <1>7, <1>8, <1>9, <1>10, HoldStep DEF ConsoleOK

LEMMA StartCursorCommitKeeps ==
    ASSUME Memories, NEW f \in Shown \cup {None}, StartCursorCommit(f) PROVE Memories'
<1>1. /\ phase = "live" /\ phase' = "live" /\ commit.at = "idle" /\ mem' = GetFb(mem, f)
      /\ cursorPlane' = f /\ (f # None => f # console)
      /\ commit' = [NoCommit EXCEPT !.at = IF f = None THEN "enable" ELSE "cursor",
                                    !.fb = f, !.old = cursorPlane]
      /\ UNCHANGED <<console, plane, scanout, cursor, cursorLock, grab, leaving>>
  BY DEF StartCursorCommit
<1>2. Accounted(mem, Holders, CursorHolds) /\ Alive
      /\ TypeOK /\ CommitOK /\ GrabOK /\ ConsoleOK
  BY <1>1, LiveFacts
<1>3. f \in Fbs \cup {None} /\ (f \in Fbs => mem.fb[f].ref > 0)
  BY <1>2, MemoryAssumption DEF Shown, Alive
<1>4. /\ commit = NoCommit /\ commit.old = None /\ commit.drop = None
      /\ commit'.at = (IF f = None THEN "enable" ELSE "cursor")
      /\ commit'.fb = f /\ commit'.old = cursorPlane /\ commit'.drop = None
  BY <1>1, <1>2 DEF CommitOK, NoCommit
<1>5. ASSUME NEW x \in Fbs PROVE Holders'[x] = Holders[x] + Is(f, x)
  <2>1. Is(None, x) = 0 /\ \A a, b : Is(a, b) \in {0, 1}
    BY IsFacts
  <2>2. QED
    BY <1>1, <1>4, <2>1, HoldSums, HoldSumsNext DEF Summed, HoldSum
<1>6. CursorHolds' = CursorHolds
  BY <1>1 DEF CursorHolds
<1>7. Accounted(mem', Holders', CursorHolds') /\ Keeps(mem, mem')
  BY <1>1, <1>2, <1>3, <1>5, <1>6, HeldNumbersNext, Taken DEF Numbers
<1>8. CommitOK'
  BY <1>1, <1>4 DEF CommitOK
<1>9. GrabOK'
  BY <1>1, <1>2 DEF GrabOK
<1>10. TypeOK'
  BY <1>1, <1>2, <1>3, <1>7 DEF TypeOK, NoCommit, Accounted, Good, Memory
<1>11. QED
  BY <1>1, <1>2, <1>7, <1>8, <1>9, <1>10, HoldStep DEF ConsoleOK

\* An object is mapped where it is needed; nobody's count changes.
MapFor(m, o, result) ==
    IF ~m.obj[o].mapped THEN [m EXCEPT !.obj[o] = Vmap(@, result)] ELSE m

LEMMA MapForOK ==
    ASSUME NEW m, NEW hf, NEW ho, Accounted(m, hf, ho), NEW o \in Objs, m.obj[o].ref > 0,
           NEW result \in Results
    PROVE  LET n == MapFor(m, o, result)
           IN  /\ Accounted(n, hf, ho) /\ Remains(m, n) /\ n.fb = m.fb /\ n.obj[o].ref > 0
               /\ m.obj[o].mapped \/ result = "ok" => n.obj[o].mapped
<1> DEFINE v == Vmap(m.obj[o], result)
           n == MapFor(m, o, result)
<1>1. m \in Memory /\ m.obj[o] \in ObjRecord /\ ObjGood(m.obj[o]) /\ ho \in [Objs -> Int]
  BY DEF Accounted, Good, Memory, Counted
<1>2. CASE m.obj[o].mapped
  <2>1. n = m
    BY <1>2 DEF MapFor
  <2>2. Remains(m, m)
    BY DEF Remains
  <2>3. QED
    BY <1>2, <2>1, <2>2
<1>3. CASE ~m.obj[o].mapped
  <2>1. n = [m EXCEPT !.obj[o] = v]
    BY <1>3 DEF MapFor
  <2>2. /\ SameHolders(v, m.obj[o]) /\ ObjGood(v) /\ v.ref > 0 /\ Held(v) = Held(m.obj[o])
        /\ result = "ok" => v.mapped
    BY <1>1, <1>3, VmapOK DEF Results
  <2> HIDE DEF v, n
  <2>3. v \in ObjRecord /\ v.ref = m.obj[o].ref
    BY <2>2 DEF SameHolders
  <2>4. v.ref + Held(m.obj[o]) = m.obj[o].ref + Held(v) + 0
    BY <1>1, <2>2, <2>3, HeldType DEF ObjRecord
  <2>5. Accounted(n, hf, [ho EXCEPT ![o] = @ + 0])
    BY <2>1, <2>2, <2>3, <2>4, ObjChange
  <2>6. [ho EXCEPT ![o] = @ + 0] = ho
    BY <1>1
  <2>7. n.fb = m.fb /\ n.obj[o] = v /\ \A x \in Objs \ {o} : n.obj[x] = m.obj[x]
    BY <1>1, <2>1, <2>3, SetObj
  <2>8. Remains(m, n)
    BY <1>3, <2>7 DEF Remains
  <2>9. QED
    BY <1>3, <2>2, <2>5, <2>6, <2>7, <2>8 DEF n
<1>4. QED
  BY <1>2, <1>3

LEMMA CursorSetKeeps ==
    ASSUME Memories, NEW result \in Results, CursorSet(result) PROVE Memories'
<1> DEFINE o == ObjOf(commit.fb)
           new == IF ~mem.obj[o].mapped /\ result # "ok" THEN None ELSE o
           m == MapFor(mem, o, result)
<1>1. /\ commit.at = "cursor" /\ ~cursorLock
      /\ cursor' = [enabled |-> new # None, obj |-> new] /\ mem' = SetGem(m, new)
      /\ commit' = [commit EXCEPT !.at = "enable"]
      /\ UNCHANGED <<phase, console, plane, cursorPlane, scanout, cursorLock, grab, leaving>>
  BY DEF CursorSet, MapFor
<1>2. Accounted(mem, Holders, CursorHolds) /\ Alive
      /\ TypeOK /\ CommitOK /\ GrabOK /\ ConsoleOK /\ phase = "live"
  BY <1>1, InProgress, LiveFacts
<1>3. o \in Objs /\ mem.obj[o].ref > 0
  <2>1. commit.fb \in Fbs /\ commit.fb = cursorPlane
    BY <1>1, <1>2 DEF CommitOK, TypeOK
  <2>2. mem.fb[commit.fb].ref > 0 /\ o = mem.fb[commit.fb].obj
    BY <1>2, <2>1, MemoryAssumption DEF Alive, ObjOf
  <2>3. QED
    BY <1>2, <2>1, <2>2 DEF Alive
<1> HIDE DEF o
<1>4. /\ Accounted(m, Holders, CursorHolds) /\ Remains(mem, m) /\ m.obj[o].ref > 0
      /\ mem.obj[o].mapped \/ result = "ok" => m.obj[o].mapped
  BY <1>2, <1>3, MapForOK
<1>5. new \in Objs \cup {None} /\ (new # None => new = o /\ m.obj[o].mapped)
  BY <1>3, <1>4
<1>6. cursor'.obj = new /\ cursor' \in [enabled : BOOLEAN, obj : Objs \cup {None}]
  BY <1>1, <1>5
<1> HIDE DEF m, new
<1>7. commit'.at = "enable" /\ commit'.fb = commit.fb /\ commit'.old = commit.old
      /\ commit'.drop = commit.drop
  BY <1>1, <1>2 DEF TypeOK
<1>8. Accounted(mem', Holders, CursorHolds') /\ Keeps(m, mem')
  <2>1. new \in Objs => m.obj[new].ref > 0
    BY <1>4, <1>5, MemoryAssumption
  <2>2. cursor.obj \in Objs \cup {None}
    BY <1>2 DEF TypeOK
  <2>3. CursorHolds' \in [Objs -> Nat]
        /\ \A x \in Objs : CursorHolds[x] = Is(cursor.obj, x) /\ CursorHolds'[x] = Is(new, x)
    BY <1>6, HeldNumbers, HeldNumbersNext DEF Numbers
  <2>4. QED
    BY <1>1, <1>4, <1>5, <2>1, <2>2, <2>3, CursorMoved
<1>9. Holders' = Holders
  BY <1>1, <1>7 DEF Holders
<1>10. Remains(mem, mem') /\ Holding /\ Holding'
  BY <1>2, <1>4, <1>8, <1>9, RemainsKeeps DEF Holding
<1>11. GrabMapped'
  BY <1>1, <1>10, GrabKept
<1>12. CursorMapped'
  <2> SUFFICES ASSUME cursor'.obj # None PROVE mem'.obj[cursor'.obj].mapped
    BY DEF CursorMapped
  <2>1. cursor'.obj = o /\ m.obj[o].mapped
    BY <1>5, <1>6
  <2>2. mem'.obj[o].ref > 0
    BY <1>3, <1>10, <2>1, Priming DEF Alive
  <2>3. mem'.obj[o].mapped
    BY <1>3, <1>8, <2>1, <2>2 DEF Keeps
  <2>4. QED
    BY <2>1, <2>3
<1>13. CommitOK'
  BY <1>1, <1>2, <1>7 DEF CommitOK
<1>14. GrabOK'
  BY <1>1, <1>2 DEF GrabOK
<1>15. TypeOK'
  BY <1>1, <1>2, <1>6, <1>8 DEF TypeOK, Accounted, Good, Memory
<1>16. QED
  BY <1>1, <1>2, <1>8, <1>9, <1>10, <1>11, <1>12, <1>13, <1>14, <1>15, StepKept DEF ConsoleOK

\* The cursor lets go of its object: the cursor is disabled.
LEMMA LetGo ==
    ASSUME Memories, phase = "live", phase' = "live", mem' = SetGem(mem, None),
           cursor' = [enabled |-> FALSE, obj |-> None], Holders' = Holders
    PROVE  Accounted(mem', Holders', CursorHolds') /\ Keeps(mem, mem')
<1>1. Accounted(mem, Holders, CursorHolds) /\ cursor.obj \in Objs \cup {None}
  BY LiveFacts DEF TypeOK
<1>2. CursorHolds' \in [Objs -> Nat]
      /\ \A x \in Objs : CursorHolds[x] = Is(cursor.obj, x) /\ CursorHolds'[x] = Is(None, x)
  BY HeldNumbers, HeldNumbersNext DEF Numbers
<1>3. QED
  BY <1>1, <1>2, CursorMoved, MemoryAssumption

LEMMA CursorEnableKeeps == ASSUME Memories, CursorEnable PROVE Memories'
<1>1. /\ commit.at = "enable" /\ ~cursorLock /\ commit' = [commit EXCEPT !.at = "finish"]
      /\ UNCHANGED <<phase, console, plane, cursorPlane, scanout, cursorLock, grab, leaving>>
  BY DEF CursorEnable
<1>2. Accounted(mem, Holders, CursorHolds) /\ Alive
      /\ TypeOK /\ CommitOK /\ GrabOK /\ ConsoleOK /\ phase = "live"
  BY <1>1, InProgress, LiveFacts
<1>3. commit'.at = "finish" /\ commit'.fb = commit.fb /\ commit'.old = commit.old
      /\ commit'.drop = commit.drop
  BY <1>1, <1>2 DEF TypeOK
<1>4. Holders' = Holders
  BY <1>1, <1>3 DEF Holders
<1>5. Accounted(mem', Holders', CursorHolds') /\ Keeps(mem, mem')
      /\ cursor'.obj \in {None, cursor.obj}
      /\ cursor' \in [enabled : BOOLEAN, obj : Objs \cup {None}]
  <2>1. CASE commit.fb = None
    <3>1. mem' = SetGem(mem, None) /\ cursor' = [enabled |-> FALSE, obj |-> None]
      BY <2>1 DEF CursorEnable
    <3>2. QED
      BY <1>1, <1>2, <1>4, <3>1, LetGo
  <2>2. CASE commit.fb # None
    <3>1. mem' = mem /\ cursor' = [cursor EXCEPT !.enabled = TRUE]
      BY <2>2 DEF CursorEnable
    <3>2. cursor'.obj = cursor.obj /\ cursor' \in [enabled : BOOLEAN, obj : Objs \cup {None}]
      BY <1>2, <3>1 DEF TypeOK
    <3>3. CursorHolds' = CursorHolds
      BY <3>2 DEF CursorHolds
    <3>4. QED
      BY <1>2, <1>4, <3>1, <3>2, <3>3, Unchanged
  <2>3. QED
    BY <2>1, <2>2
<1>6. CommitOK'
  BY <1>1, <1>2, <1>3 DEF CommitOK
<1>7. GrabOK'
  BY <1>1, <1>2 DEF GrabOK
<1>8. TypeOK'
  BY <1>1, <1>2, <1>5 DEF TypeOK, Accounted, Good, Memory
<1>9. QED
  BY <1>1, <1>2, <1>5, <1>6, <1>7, <1>8, HoldStep DEF ConsoleOK

LEMMA GrabTakeKeeps == ASSUME Memories, GrabTake PROVE Memories'
<1>1. /\ phase = "live" /\ phase' = "live" /\ grab.at = "idle" /\ scanout # None
      /\ mem' = GetFb(mem, scanout) /\ grab' = [NoGrab EXCEPT !.at = "map", !.fb = scanout]
      /\ UNCHANGED <<console, plane, cursorPlane, scanout, cursor, cursorLock, commit, leaving>>
  BY DEF GrabTake, display
<1>2. Accounted(mem, Holders, CursorHolds) /\ Alive
      /\ TypeOK /\ CommitOK /\ GrabOK /\ ConsoleOK
  BY <1>1, LiveFacts
<1>3. scanout \in Fbs /\ mem.fb[scanout].ref > 0 /\ grab.fb = None
  BY <1>1, <1>2 DEF TypeOK, Alive, GrabOK
<1>4. grab'.at = "map" /\ grab'.fb = scanout /\ grab'.cursor = None
  BY <1>1 DEF NoGrab
<1>5. ASSUME NEW x \in Fbs PROVE Holders'[x] = Holders[x] + Is(scanout, x)
  <2>1. Is(None, x) = 0 /\ \A a, b : Is(a, b) \in {0, 1}
    BY IsFacts
  <2>2. QED
    BY <1>1, <1>3, <1>4, <2>1, HoldSums, HoldSumsNext DEF Summed, HoldSum
<1>6. CursorHolds' = CursorHolds
  BY <1>1 DEF CursorHolds
<1>7. Accounted(mem', Holders', CursorHolds') /\ Keeps(mem, mem')
  BY <1>1, <1>2, <1>3, <1>5, <1>6, HeldNumbersNext, Taken DEF Numbers
<1>8. CommitOK'
  BY <1>1, <1>2 DEF CommitOK
<1>9. GrabOK'
  <2>1. ~cursorLock
    BY <1>1, <1>2 DEF GrabOK
  <2>2. QED
    BY <1>1, <1>4, <2>1 DEF GrabOK
<1>10. TypeOK'
  BY <1>1, <1>2, <1>7 DEF TypeOK, NoGrab, Accounted, Good, Memory
<1>11. QED
  BY <1>1, <1>2, <1>4, <1>7, <1>8, <1>9, <1>10, HoldStep DEF ConsoleOK

LEMMA GrabMapKeeps ==
    ASSUME Memories, NEW result \in Results, GrabMap(result) PROVE Memories'
<1> DEFINE o == ObjOf(grab.fb)
           end == IF ~mem.obj[o].mapped /\ result # "ok" THEN "put" ELSE "copy"
<1>1. /\ grab.at = "map" /\ mem' = MapFor(mem, o, result) /\ grab' = [grab EXCEPT !.at = end]
      /\ UNCHANGED <<phase, console, plane, cursorPlane, scanout, cursor, cursorLock, commit,
                     leaving>>
  BY DEF GrabMap, MapFor, display
<1>2. Accounted(mem, Holders, CursorHolds) /\ Alive
      /\ TypeOK /\ CommitOK /\ GrabOK /\ ConsoleOK /\ phase = "live"
  BY <1>1, InProgress, LiveFacts
<1>3. /\ grab.fb \in Fbs /\ o = mem.fb[grab.fb].obj
      /\ o \in Objs /\ mem.obj[o].ref > 0
  <2>1. grab.fb \in Fbs
    BY <1>1, <1>2 DEF GrabOK, TypeOK
  <2>2. mem.fb[grab.fb].ref > 0 /\ o = mem.fb[grab.fb].obj
    BY <1>2, <2>1, MemoryAssumption DEF Alive, ObjOf
  <2>3. QED
    BY <1>2, <2>1, <2>2 DEF Alive
<1> HIDE DEF o
<1>4. /\ Accounted(mem', Holders, CursorHolds) /\ Remains(mem, mem') /\ mem'.fb = mem.fb
      /\ mem.obj[o].mapped \/ result = "ok" => mem'.obj[o].mapped
  BY <1>1, <1>2, <1>3, MapForOK
<1>5. grab'.at = end /\ grab'.fb = grab.fb /\ grab'.cursor = grab.cursor
  BY <1>1, <1>2 DEF TypeOK
<1>6. end \in {"put", "copy"} /\ (end = "copy" => mem'.obj[o].mapped)
  BY <1>4
<1> HIDE DEF end
<1>7. Holders' = Holders /\ CursorHolds' = CursorHolds
  BY <1>1, <1>5 DEF Holders, CursorHolds
<1>8. Holding /\ Holding'
  BY <1>2, <1>4, <1>7 DEF Holding
<1>9. GrabMapped'
  BY <1>3, <1>4, <1>5, <1>6 DEF GrabMapped
<1>10. CursorMapped'
  BY <1>1, <1>4, <1>8, CursorKept
<1>11. CommitOK'
  BY <1>1, <1>2 DEF CommitOK
<1>12. GrabOK'
  <2>1. ~cursorLock /\ grab.cursor = None /\ grab.fb # None
    BY <1>1, <1>2 DEF GrabOK
  <2>2. QED
    BY <1>1, <1>5, <1>6, <2>1 DEF GrabOK
<1>13. TypeOK'
  BY <1>1, <1>2, <1>4, <1>6 DEF TypeOK, Accounted, Good, Memory
<1>14. QED
  BY <1>1, <1>2, <1>4, <1>7, <1>9, <1>10, <1>11, <1>12, <1>13, StepKept DEF ConsoleOK

\* Reading and locking: no count changes.
LEMMA GrabCopyKeeps == ASSUME Memories, GrabCopy \/ GrabCompose PROVE Memories'
<1>1. /\ grab.at \in {"copy", "compose"}
      /\ UNCHANGED <<mem, phase, console, plane, cursorPlane, scanout, cursor, commit, leaving>>
  BY DEF GrabCopy, GrabCompose, display
<1>2. Accounted(mem, Holders, CursorHolds) /\ Alive
      /\ TypeOK /\ CommitOK /\ GrabOK /\ ConsoleOK /\ phase = "live"
  BY <1>1, InProgress, LiveFacts
<1>3. grab.fb # None /\ (grab.at = "copy" => ~cursorLock /\ grab.cursor = None)
  BY <1>1, <1>2 DEF GrabOK
<1>4. /\ grab' \in [at : {"idle", "map", "copy", "compose", "put"},
                    fb : Fbs \cup {None}, cursor : Objs \cup {None}]
      /\ grab'.fb = grab.fb
      /\ \/ grab'.at = "put" /\ grab'.cursor = None /\ cursorLock' = FALSE
         \/ grab'.at = "compose" /\ cursorLock' = TRUE /\ grab'.cursor \in {None, cursor.obj}
  <2>1. CASE GrabCopy /\ grab' = [grab EXCEPT !.at = "put"] /\ UNCHANGED cursorLock
    <3>1. grab.at = "copy"
      BY <2>1 DEF GrabCopy
    <3>2. cursorLock' = FALSE
      BY <1>2, <1>3, <2>1, <3>1 DEF TypeOK
    <3>3. QED
      BY <1>2, <1>3, <2>1, <3>1, <3>2 DEF TypeOK
  <2>2. CASE /\ GrabCopy /\ cursorLock' = TRUE
             /\ grab' = [grab EXCEPT !.at = "compose",
                                     !.cursor = IF cursor.enabled THEN cursor.obj ELSE None]
    <3> DEFINE c == IF cursor.enabled THEN cursor.obj ELSE None
    <3>1. c \in {None, cursor.obj} /\ c \in Objs \cup {None}
      BY <1>2 DEF TypeOK
    <3>2. grab' = [grab EXCEPT !.at = "compose", !.cursor = c]
      BY <2>2
    <3> HIDE DEF c
    <3>3. grab'.at = "compose" /\ grab'.cursor = c /\ grab'.fb = grab.fb
          /\ grab' \in [at : {"idle", "map", "copy", "compose", "put"},
                        fb : Fbs \cup {None}, cursor : Objs \cup {None}]
      BY <1>2, <3>1, <3>2 DEF TypeOK
    <3>4. QED
      BY <2>2, <3>1, <3>3
  <2>3. CASE GrabCompose
    <3>1. cursorLock' = FALSE /\ grab' = [grab EXCEPT !.at = "put", !.cursor = None]
      BY <2>3 DEF GrabCompose
    <3>2. QED
      BY <1>2, <3>1 DEF TypeOK
  <2>4. QED
    BY <2>1, <2>2, <2>3 DEF GrabCopy
<1>5. Holders' = Holders /\ CursorHolds' = CursorHolds /\ Keeps(mem, mem')
  BY <1>1, <1>4, Unchanged DEF Holders, CursorHolds
<1>6. CommitOK'
  BY <1>1, <1>2 DEF CommitOK
<1>7. GrabOK'
  BY <1>1, <1>3, <1>4 DEF GrabOK
<1>8. TypeOK'
  <2>1. cursorLock' \in BOOLEAN
    BY <1>4
  <2>2. QED
    BY <1>1, <1>2, <1>4, <2>1 DEF TypeOK
<1>9. QED
  BY <1>1, <1>2, <1>4, <1>5, <1>6, <1>7, <1>8, HoldStep DEF ConsoleOK

LEMMA GrabPutKeeps == ASSUME Memories, GrabPut PROVE Memories'
<1>1. /\ grab.at = "put" /\ mem' = PutFb(mem, grab.fb) /\ grab' = NoGrab
      /\ UNCHANGED <<phase, console, plane, cursorPlane, scanout, cursor, cursorLock, commit,
                     leaving>>
  BY DEF GrabPut, display
<1>2. Accounted(mem, Holders, CursorHolds) /\ Alive
      /\ TypeOK /\ CommitOK /\ GrabOK /\ ConsoleOK /\ phase = "live"
  BY <1>1, InProgress, LiveFacts
<1>3. grab.fb \in Fbs \cup {None}
  BY <1>2 DEF TypeOK
<1>4. grab'.at = "idle" /\ grab'.fb = None /\ grab'.cursor = None
  BY <1>1 DEF NoGrab
<1>5. ASSUME NEW x \in Fbs PROVE Holders[x] = Holders'[x] + Is(grab.fb, x)
  <2>1. Is(None, x) = 0 /\ \A a, b : Is(a, b) \in {0, 1}
    BY IsFacts
  <2>2. QED
    BY <1>1, <1>4, <2>1, HoldSums, HoldSumsNext DEF Summed, HoldSum
<1>6. CursorHolds' = CursorHolds
  BY <1>1 DEF CursorHolds
<1>7. Accounted(mem', Holders', CursorHolds') /\ Keeps(mem, mem')
  BY <1>1, <1>2, <1>3, <1>5, <1>6, HeldNumbersNext, Put DEF Numbers
<1>8. CommitOK'
  BY <1>1, <1>2 DEF CommitOK
<1>9. GrabOK'
  <2>1. ~cursorLock
    BY <1>1, <1>2 DEF GrabOK
  <2>2. QED
    BY <1>1, <1>4, <2>1 DEF GrabOK
<1>10. TypeOK'
  BY <1>1, <1>2, <1>7 DEF TypeOK, NoGrab, Accounted, Good, Memory
<1>11. QED
  BY <1>1, <1>2, <1>4, <1>7, <1>8, <1>9, <1>10, HoldStep DEF ConsoleOK

LEMMA DisconnectKeeps == ASSUME Memories, Disconnect PROVE Memories'
<1>1. /\ phase = "live" /\ phase' = "live" /\ mem' = PutFb(mem, scanout) /\ scanout' = None
      /\ leaving' = TRUE
      /\ UNCHANGED <<console, plane, cursorPlane, cursor, cursorLock, commit, grab>>
  BY DEF Disconnect
<1>2. Accounted(mem, Holders, CursorHolds) /\ Alive
      /\ TypeOK /\ CommitOK /\ GrabOK /\ ConsoleOK
  BY <1>1, LiveFacts
<1>3. scanout \in Fbs \cup {None}
  BY <1>2 DEF TypeOK
<1>4. ASSUME NEW x \in Fbs PROVE Holders[x] = Holders'[x] + Is(scanout, x)
  <2>1. Is(None, x) = 0 /\ \A a, b : Is(a, b) \in {0, 1}
    BY IsFacts
  <2>2. QED
    BY <1>1, <2>1, HoldSums, HoldSumsNext DEF Summed, HoldSum
<1>5. CursorHolds' = CursorHolds
  BY <1>1 DEF CursorHolds
<1>6. Accounted(mem', Holders', CursorHolds') /\ Keeps(mem, mem')
  BY <1>1, <1>2, <1>3, <1>4, <1>5, HeldNumbersNext, Put DEF Numbers
<1>7. CommitOK' /\ GrabOK'
  BY <1>1, <1>2 DEF CommitOK, GrabOK
<1>8. TypeOK'
  BY <1>1, <1>2, <1>6 DEF TypeOK, Accounted, Good, Memory
<1>9. QED
  BY <1>1, <1>2, <1>6, <1>7, <1>8, HoldStep DEF ConsoleOK

LEMMA CursorDisableKeeps == ASSUME Memories, CursorDisable PROVE Memories'
<1>1. /\ leaving /\ ~cursorLock /\ leaving' = FALSE /\ mem' = SetGem(mem, None)
      /\ cursor' = [enabled |-> FALSE, obj |-> None]
      /\ UNCHANGED <<phase, console, plane, cursorPlane, scanout, cursorLock, commit, grab>>
  BY DEF CursorDisable
<1>2. Accounted(mem, Holders, CursorHolds) /\ Alive
      /\ TypeOK /\ CommitOK /\ GrabOK /\ ConsoleOK /\ phase = "live"
  BY <1>1, InProgress, LiveFacts
<1>3. Holders' = Holders
  BY <1>1 DEF Holders
<1>4. Accounted(mem', Holders', CursorHolds') /\ Keeps(mem, mem')
  BY <1>1, <1>2, <1>3, LetGo
<1>5. CommitOK'
  BY <1>1, <1>2 DEF CommitOK
<1>6. GrabOK'
  BY <1>1, <1>2 DEF GrabOK
<1>7. TypeOK'
  BY <1>1, <1>2, <1>4 DEF TypeOK, Accounted, Good, Memory
<1>8. QED
  BY <1>1, <1>2, <1>4, <1>5, <1>6, <1>7, HoldStep DEF ConsoleOK

\* The driver is unloaded: its references go one after the other, and the console,
\* which nobody else holds, with its object.
LEMMA UnloadKeeps == ASSUME Memories, Unload PROVE Memories'
<1> DEFINE m1 == SetGem(mem, None)
           m2 == PutFb(m1, scanout)
           m3 == PutFb(m2, plane)
           m4 == PutFb(m3, cursorPlane)
           h2 == [x \in Fbs |-> Is(console, x) + Is(plane, x) + Is(cursorPlane, x)]
           h3 == [x \in Fbs |-> Is(console, x) + Is(cursorPlane, x)]
           h4 == [x \in Fbs |-> Is(console, x)]
<1>1. /\ phase = "live" /\ phase' = "unloaded" /\ commit.at = "idle" /\ grab.at = "idle" /\ ~leaving
      /\ console # None => console \notin {plane, scanout}
      /\ mem' = IF console = None THEN m4
                ELSE PutObj([m4 EXCEPT !.fb[console] = NoFb], ObjOf(console))
      /\ scanout' = None /\ console' = None /\ plane' = None /\ cursorPlane' = None
      /\ cursor' = [enabled |-> FALSE, obj |-> None]
      /\ UNCHANGED <<cursorLock, commit, grab, leaving>>
  BY DEF Unload
<1>2. Accounted(mem, Holders, CursorHolds) /\ Alive
      /\ TypeOK /\ CommitOK /\ GrabOK /\ ConsoleOK
  BY <1>1, LiveFacts
<1>3. commit = NoCommit /\ grab = NoGrab /\ commit.old = None /\ commit.drop = None
      /\ grab.fb = None
  BY <1>1, <1>2 DEF CommitOK, GrabOK, NoCommit, NoGrab
<1>4. /\ h2 \in [Fbs -> Nat] /\ h3 \in [Fbs -> Nat] /\ h4 \in [Fbs -> Nat]
      /\ \A x \in Fbs : Holders[x] = h2[x] + Is(scanout, x)
      /\ \A x \in Fbs : h2[x] = h3[x] + Is(plane, x)
      /\ \A x \in Fbs : h3[x] = h4[x] + Is(cursorPlane, x)
  <2>1. \A a, b : Is(a, b) \in Nat
    BY IsFacts
  <2>2. \A x \in Fbs : Is(None, x) = 0
    BY IsFacts
  <2>3. \A x \in Fbs : /\ Is(console, x) + Is(plane, x) + Is(cursorPlane, x) \in Nat
                       /\ Is(console, x) + Is(cursorPlane, x) \in Nat
    BY <2>1
  <2>4. \A x \in Fbs : /\ h2[x] = h3[x] + Is(plane, x)
                       /\ h3[x] = h4[x] + Is(cursorPlane, x)
    BY <2>1
  <2>5. \A x \in Fbs : Holders[x] = h2[x] + Is(scanout, x)
    BY <1>3, <2>1, <2>2, HoldSums DEF Summed, HoldSum
  <2>6. QED
    BY <2>1, <2>3, <2>4, <2>5
<1>5. \A x \in Fbs : h4[x] = Holders'[x] + Is(console, x)
  <2>1. \A x \in Fbs : Is(None, x) = 0 /\ Is(console, x) \in Nat
    BY IsFacts
  <2>2. \A x \in Fbs : Holders'[x] = 0
    BY <1>1, <1>3, <2>1, HoldSumsNext DEF Summed, HoldSum
  <2>3. QED
    BY <2>1, <2>2
<1> HIDE DEF h2, h3, h4
<1>6. /\ CursorHolds' \in [Objs -> Nat]
      /\ \A x \in Objs : CursorHolds[x] = Is(cursor.obj, x) /\ CursorHolds'[x] = Is(None, x)
  BY <1>1, HeldNumbers, HeldNumbersNext DEF Numbers
<1>7. Accounted(m1, Holders, CursorHolds') /\ Keeps(mem, m1)
  BY <1>2, <1>6, CursorMoved, MemoryAssumption DEF TypeOK
<1> HIDE DEF m1
<1>8. {console, plane, cursorPlane, scanout} \subseteq Fbs \cup {None}
  BY <1>2 DEF TypeOK
<1>9. Accounted(m2, h2, CursorHolds') /\ Keeps(m1, m2)
  BY <1>4, <1>6, <1>7, <1>8, Put
<1> HIDE DEF m2
<1>10. Accounted(m3, h3, CursorHolds') /\ Keeps(m2, m3)
  BY <1>4, <1>6, <1>8, <1>9, Put
<1> HIDE DEF m3
<1>11. Accounted(m4, h4, CursorHolds') /\ Keeps(m3, m4)
  BY <1>4, <1>6, <1>8, <1>10, Put
<1> HIDE DEF m4
<1>12. Keeps(mem, m4)
  BY <1>7, <1>9, <1>10, <1>11, KeepsTrans
<1>13. Accounted(mem', Holders', CursorHolds')
  <2>1. CASE console = None
    <3>1. \A x \in Fbs : h4[x] = Holders'[x]
      <4>1. \A x \in Fbs : Is(console, x) = 0
        BY <2>1, IsFacts
      <4>2. \A x \in Fbs : Holders'[x] \in Nat
        BY HeldNumbersNext DEF Numbers
      <4>3. QED
        BY <1>5, <4>1, <4>2
    <3>2. h4 = Holders'
      BY <1>4, <3>1, HeldNumbersNext DEF Numbers
    <3>3. QED
      BY <1>1, <1>11, <2>1, <3>2
  <2>2. CASE console # None
    <3>1. console \in Fbs /\ ~mem.fb[console].id /\ ObjOf(console) = mem.fb[console].obj
      BY <1>2, <1>8, <2>2 DEF ConsoleOK, ObjOf
    <3>2. h4[console] = 1
      BY <3>1, IsFacts DEF h4
    <3>3. m4.fb[console].ref = Named(m4.fb[console]) + 1 /\ m4.fb[console].ref > 0
      BY <1>11, <3>1, <3>2, NamedType DEF Accounted, Counted
    <3>4. m4.fb[console].obj = mem.fb[console].obj /\ ~m4.fb[console].id
      BY <1>12, <3>1, <3>3 DEF Keeps
    <3>5. m4.fb[console].ref = 1
      BY <3>3, <3>4 DEF Named, Count
    <3>6. Holders' = [h4 EXCEPT ![console] = @ - 1]
      <4>1. Holders' \in [Fbs -> Int] /\ h4 \in [Fbs -> Int]
        BY <1>4, HeldNumbersNext DEF Numbers
      <4>2. QED
        BY <1>5, <3>1, <4>1, OneLess
    <3>7. \A o \in Objs : CursorHolds'[o] >= 0
      BY <1>6
    <3>8. mem' = PutObj([m4 EXCEPT !.fb[console] = NoFb], m4.fb[console].obj)
      BY <1>1, <2>2, <3>1, <3>4
    <3>9. h4[console] > 0
      BY <3>2
    <3>10. LET n == PutObj([m4 EXCEPT !.fb[console] = NoFb], m4.fb[console].obj)
           IN  Accounted(n, [h4 EXCEPT ![console] = @ - 1], CursorHolds')
      <4>1. Accounted(m4, h4, CursorHolds') /\ console \in Fbs
        BY <1>11, <3>1
      <4>2. QED
        BY <3>5, <3>7, <3>9, <4>1, FbGone
    <3>11. QED
      BY <3>6, <3>8, <3>10
  <2>3. QED
    BY <2>1, <2>2
<1>14. Holding' /\ Good(mem')
  BY <1>13 DEF Holding, Accounted
<1>15. TypeOK'
  BY <1>1, <1>2, <1>14 DEF TypeOK, Good, Memory
<1>16. PhaseOK' /\ CommitOK' /\ GrabOK'
  BY <1>1, <1>2, <1>3 DEF PhaseOK, CommitOK, GrabOK
<1>17. ConsoleOK' /\ CursorMapped' /\ GrabMapped'
  BY <1>1 DEF ConsoleOK, CursorMapped, GrabMapped
<1>18. QED
  BY <1>14, <1>15, <1>16, <1>17 DEF Memories

-----------------------------------------------------------------------------
(* Setup, and all steps *)

Empty == [obj |-> [o \in Objs |-> Free], fb |-> [f \in Fbs |-> NoFb]]

LEMMA EmptyFacts ==
    /\ Empty \in Memory /\ Good(Empty)
    /\ \A o \in Objs : Empty.obj[o] = Free /\ FbsOf(Empty, o) = {}
    /\ \A f \in Fbs : Empty.fb[f] = NoFb
    /\ \A hf \in [Fbs -> Int], ho \in [Objs -> Int] :
         (\A f \in Fbs : hf[f] = 0) /\ (\A o \in Objs : ho[o] = 0) => Accounted(Empty, hf, ho)
<1>1. (\A o \in Objs : Empty.obj[o] = Free) /\ (\A f \in Fbs : Empty.fb[f] = NoFb)
  BY DEF Empty
<1>2. Empty \in Memory
  BY NewFacts, NoFbType DEF Empty, Memory
<1>3. Good(Empty)
  BY <1>1, <1>2, NewFacts, NoFbType DEF Good
<1>4. \A o \in Objs : FbsOf(Empty, o) = {}
  BY <1>1, NoFbType, MemoryAssumption DEF FbsOf
<1>5. ASSUME NEW hf \in [Fbs -> Int], NEW ho \in [Objs -> Int],
             \A f \in Fbs : hf[f] = 0, \A o \in Objs : ho[o] = 0
      PROVE  Accounted(Empty, hf, ho)
  <2>1. Named(NoFb) = 0
    BY NoFbType DEF Named, Count
  <2>2. \A f \in Fbs : Empty.fb[f].ref = Named(Empty.fb[f]) + hf[f]
    BY <1>1, <1>5, <2>1, NoFbType
  <2>3. \A o \in Objs : Empty.obj[o].ref = Held(Empty.obj[o]) + ho[o] + Cardinality(FbsOf(Empty, o))
    <3>1. Cardinality({}) = 0 /\ Free.ref = 0 /\ Held(Free) = 0
      BY NewFacts, FS_EmptySet
    <3>2. QED
      BY <1>1, <1>4, <1>5, <3>1
  <2>4. QED
    BY <1>3, <2>2, <2>3 DEF Accounted, Counted
<1>6. QED
  BY <1>1, <1>2, <1>3, <1>4, <1>5

\* A driver with nothing in its hands.
AtRest ==
    /\ plane = None /\ cursorPlane = None /\ scanout = None
    /\ cursor \in [enabled : BOOLEAN, obj : {None}] /\ cursorLock = FALSE
    /\ commit = NoCommit /\ grab = NoGrab /\ leaving = FALSE

Idle ==
    /\ \A f \in Fbs : Holders[f] = Is(console, f)
    /\ \A o \in Objs : CursorHolds[o] = 0
    /\ CommitOK /\ GrabOK /\ CursorMapped /\ GrabMapped

LEMMA AtRestIdle == AtRest => Idle
<1> SUFFICES ASSUME AtRest PROVE Idle
  OBVIOUS
<1>1. /\ commit.at = "idle" /\ commit.fb = None /\ commit.old = None /\ commit.drop = None
      /\ grab.at = "idle" /\ grab.fb = None /\ grab.cursor = None /\ cursor.obj = None
  BY DEF AtRest, NoCommit, NoGrab
<1>2. \A f \in Fbs : Holders[f] = Is(console, f)
  <2>1. \A f \in Fbs : Is(None, f) = 0 /\ Is(console, f) \in Nat
    BY IsFacts
  <2>2. QED
    BY <1>1, <2>1, HoldSums DEF Summed, HoldSum, AtRest
<1>3. \A o \in Objs : CursorHolds[o] = 0
  BY <1>1, IsFacts DEF CursorHolds
<1>4. CommitOK /\ GrabOK /\ CursorMapped /\ GrabMapped
  BY <1>1 DEF AtRest, CommitOK, GrabOK, CursorMapped, GrabMapped
<1>5. QED
  BY <1>2, <1>3, <1>4 DEF Idle

LEMMA IdleNext == AtRest' => Idle'
  BY AtRestIdle, PTL

LEMMA AtRestTypes ==
    ASSUME AtRest, mem \in Memory, phase \in {"setup", "live", "failed", "unloaded"},
           console \in Fbs \cup {None}
    PROVE  TypeOK
  BY DEF AtRest, TypeOK, Memory, NoCommit, NoGrab

LEMMA MemoriesInit == ASSUME Init PROVE Memories
<1>1. mem = Empty /\ phase = "setup" /\ console = None /\ AtRest
  BY DEF Init, Empty, AtRest
<1>2. \A f \in Fbs : Holders[f] = 0
  BY <1>1, AtRestIdle, IsFacts DEF Idle
<1>3. Holders \in [Fbs -> Int] /\ CursorHolds \in [Objs -> Int]
  BY HeldNumbers DEF Numbers
<1>4. Holding
  BY <1>1, <1>2, <1>3, AtRestIdle, EmptyFacts DEF Holding, Idle
<1>5. TypeOK
  BY <1>1, AtRestTypes, EmptyFacts
<1>6. PhaseOK /\ ConsoleOK
  BY <1>1 DEF PhaseOK, ConsoleOK, AtRest, Empty
<1>7. QED
  BY <1>1, <1>4, <1>5, <1>6, AtRestIdle DEF Memories, Holding, Accounted, Idle

\* Setup starts from an empty memory and a driver at rest, which stays at rest.
LEMMA SetupFacts ==
    ASSUME Memories, phase = "setup"
    PROVE  mem = Empty /\ AtRest /\ console = None
<1>1. /\ mem = Empty /\ console = None /\ plane = None /\ cursorPlane = None /\ scanout = None
      /\ cursor.obj = None /\ commit = NoCommit /\ grab = NoGrab /\ ~leaving
  BY DEF Memories, PhaseOK, Empty
<1>2. /\ grab.at = "idle" /\ cursorLock = FALSE /\ leaving = FALSE
      /\ cursor \in [enabled : BOOLEAN, obj : {None}]
  <2>1. TypeOK /\ GrabOK
    BY DEF Memories
  <2>2. grab.at = "idle"
    BY <1>1 DEF NoGrab
  <2>3. cursorLock = FALSE /\ leaving = FALSE
    BY <1>1, <2>1, <2>2 DEF TypeOK, GrabOK
  <2>4. cursor \in [enabled : BOOLEAN, obj : {None}]
    BY <1>1, <2>1 DEF TypeOK
  <2>5. QED
    BY <2>2, <2>3, <2>4
<1>3. QED
  BY <1>1, <1>2 DEF AtRest

\* After a step of setup that leaves the driver at rest.
LEMMA SetupKept ==
    ASSUME Memories, phase = "setup", phase' \in {"live", "failed"}, console' \in Fbs \cup {None},
           phase' = "failed" => console' = None,
           UNCHANGED <<display, cursorLock, commit, grab, leaving>>, Good(mem'),
           phase' = "live" => Accounted(mem', Holders', CursorHolds'),
           console' # None => ~mem'.fb[console'].id
    PROVE  Memories'
<1>1. AtRest
  BY SetupFacts
<1>2. AtRest'
  BY <1>1 DEF AtRest, display
<1>3. Idle'
  BY <1>2, IdleNext
<1>4. TypeOK'
  BY DEF Memories, TypeOK, display, Good, Memory
<1>5. PhaseOK'
  BY <1>2 DEF PhaseOK, AtRest
<1>6. ConsoleOK'
  BY <1>2 DEF ConsoleOK, AtRest
<1>7. phase' # "failed" => Holding'
  BY DEF Holding
<1>8. QED
  BY <1>3, <1>4, <1>5, <1>6, <1>7 DEF Memories, Idle

LEMMA SetupWithoutConsoleKeeps == ASSUME Memories, SetupWithoutConsole PROVE Memories'
<1>1. /\ phase = "setup" /\ phase' = "live" /\ mem' = mem /\ console' = console
      /\ UNCHANGED <<display, cursorLock, commit, grab, leaving>>
  BY DEF SetupWithoutConsole
<1>2. console = None /\ mem = Empty /\ AtRest
  BY <1>1, SetupFacts
<1>3. Holders' = Holders /\ CursorHolds' = CursorHolds
  BY <1>1 DEF display, Holders, CursorHolds
<1>4. Accounted(mem, Holders, CursorHolds)
  BY <1>1 DEF Memories, Holding
<1>5. QED
  BY <1>1, <1>2, <1>3, <1>4, SetupKept DEF Accounted

LEMMA MappedFacts ==
    Mapped \in ObjRecord /\ ObjGood(Mapped) /\ Mapped.ref = 1 /\ Held(Mapped) = 0
<1>1. Mapped = Vmap(New, "ok")
  BY DEF Mapped, New
<1>2. SameHolders(Mapped, New) /\ ObjGood(Mapped) /\ Held(Mapped) = Held(New)
  BY <1>1, NewFacts, VmapOK
<1>3. QED
  BY <1>2, NewFacts DEF SameHolders

LEMMA SetupConsoleKeeps ==
    ASSUME Memories, NEW f \in Fbs, NEW o \in Objs, SetupConsole(f, o) PROVE Memories'
<1> DEFINE c == [NoFb EXCEPT !.ref = 1, !.obj = o]
           m == [mem EXCEPT !.obj[o] = Mapped]
<1>1. /\ phase = "setup" /\ phase' = "live" /\ console' = f
      /\ mem' = [m EXCEPT !.fb[f] = c]
      /\ UNCHANGED <<display, cursorLock, commit, grab, leaving>>
  BY DEF SetupConsole
<1>2. mem = Empty /\ AtRest /\ AtRest'
  <2>1. mem = Empty /\ AtRest
    BY <1>1, SetupFacts
  <2>2. QED
    BY <1>1, <2>1 DEF AtRest, display
<1>3. c \in FbRecord /\ c.ref = 1 /\ c.obj = o /\ ~c.id
  BY DEF NoFb, FbRecord
<1> HIDE DEF c
<1>4. m \in Memory /\ m.fb = mem.fb /\ m.obj[o] = Mapped
      /\ \A x \in Objs \ {o} : m.obj[x] = mem.obj[x]
  BY <1>2, EmptyFacts, MappedFacts, SetObj
<1> HIDE DEF m
<1>5. mem' \in Memory /\ mem'.obj = m.obj /\ mem'.fb[f] = c
      /\ \A x \in Fbs \ {f} : mem'.fb[x] = m.fb[x]
  BY <1>1, <1>3, <1>4, SetFb
<1>6. (\A x \in Objs \ {o} : mem'.obj[x] = Free) /\ mem'.obj[o] = Mapped
      /\ (\A x \in Fbs \ {f} : mem'.fb[x] = NoFb)
  BY <1>2, <1>4, <1>5, EmptyFacts
<1>7. Good(mem')
  <2>1. FbGood(c)
    BY <1>3 DEF FbGood
  <2>2. \A x \in Fbs : FbGood(mem'.fb[x])
    BY <1>5, <1>6, <2>1, NoFbType
  <2>3. \A x \in Objs : ObjGood(mem'.obj[x])
    BY <1>6, NewFacts, MappedFacts
  <2>4. QED
    BY <1>5, <2>2, <2>3 DEF Good
<1>8. /\ \A x \in Fbs : Holders'[x] = Is(f, x)
      /\ \A x \in Objs : CursorHolds'[x] = 0
  BY <1>1, <1>2, IdleNext DEF Idle
<1>9. \A x \in Fbs : mem'.fb[x].ref = Named(mem'.fb[x]) + Holders'[x]
  <2>1. Named(c) = 0 /\ Named(NoFb) = 0 /\ NoFb.ref = 0
    BY <1>3, NoFbType DEF Named, Count
  <2>2. QED
    BY <1>3, <1>5, <1>6, <1>8, <2>1 DEF Is
<1>10. ASSUME NEW x \in Objs
       PROVE  mem'.obj[x].ref = Held(mem'.obj[x]) + CursorHolds'[x]
                                + Cardinality(FbsOf(mem', x))
  <2>1. NoFb.obj = None /\ x # None
    BY NoFbType, MemoryAssumption
  <2>2. CASE x = o
    <3>1. FbsOf(mem', x) = {f}
      BY <1>3, <1>5, <1>6, <2>1, <2>2 DEF FbsOf
    <3>2. Cardinality({f}) = 1
      BY FS_Singleton
    <3>3. QED
      BY <1>6, <1>8, <2>2, <3>1, <3>2, MappedFacts
  <2>3. CASE x # o
    <3>1. FbsOf(mem', x) = {}
      BY <1>3, <1>5, <1>6, <2>1, <2>3 DEF FbsOf
    <3>2. Cardinality({}) = 0 /\ Free.ref = 0 /\ Held(Free) = 0
      BY NewFacts, FS_EmptySet
    <3>3. QED
      BY <1>6, <1>8, <2>3, <3>1, <3>2
  <2>4. QED
    BY <2>2, <2>3
<1>11. Holders' \in [Fbs -> Int] /\ CursorHolds' \in [Objs -> Int]
  BY HeldNumbersNext DEF Numbers
<1>12. Accounted(mem', Holders', CursorHolds')
  BY <1>7, <1>9, <1>10, <1>11 DEF Accounted, Counted
<1>13. ~mem'.fb[console'].id
  BY <1>1, <1>3, <1>5
<1>14. QED
  BY <1>1, <1>7, <1>12, <1>13, SetupKept

LEMMA SetupFailsKeeps ==
    ASSUME Memories, NEW o \in Objs, NEW step \in {"pin", "vmap", "info", "cmap"},
           SetupFails(o, step)
    PROVE  Memories'
<1> DEFINE r == CASE step = "pin"  -> New
                  [] step = "vmap" -> Vmap(New, "noMap")
                  [] step = "info" -> Mapped
                  [] step = "cmap" -> FreeObject([Mapped EXCEPT !.ref = 0])
<1>1. /\ phase = "setup" /\ phase' = "failed" /\ console' = console
      /\ mem' = [mem EXCEPT !.obj[o] = r]
      /\ UNCHANGED <<display, cursorLock, commit, grab, leaving>>
  BY DEF SetupFails, New
<1>2. mem = Empty /\ console = None
  BY <1>1, SetupFacts
<1>3. r \in ObjRecord /\ ObjGood(r)
  <2>1. CASE step = "pin"
    BY <2>1, NewFacts
  <2>2. CASE step = "vmap"
    <3>1. SameHolders(Vmap(New, "noMap"), New) /\ ObjGood(Vmap(New, "noMap"))
      BY NewFacts, VmapOK
    <3>2. QED
      BY <2>2, <3>1 DEF SameHolders
  <2>3. CASE step = "info"
    BY <2>3, MappedFacts
  <2>4. CASE step = "cmap"
    <3>1. PutRec(Mapped) = FreeObject([Mapped EXCEPT !.ref = 0])
      <4> DEFINE d == [Mapped EXCEPT !.ref = 0]
      <4>1. [Mapped EXCEPT !.ref = @ - 1] = d /\ d.ref = 0
        BY MappedFacts DEF ObjRecord
      <4>2. QED
        BY <4>1 DEF PutRec
    <3>2. PutRec(Mapped) \in ObjRecord /\ ObjGood(PutRec(Mapped))
      BY MappedFacts, PutRecOK
    <3>3. QED
      BY <2>4, <3>1, <3>2
  <2>5. QED
    BY <2>1, <2>2, <2>3, <2>4
<1> HIDE DEF r
<1>4. Good(mem')
  <2>1. /\ mem' \in Memory /\ mem'.fb = mem.fb /\ mem'.obj[o] = r
        /\ \A x \in Objs \ {o} : mem'.obj[x] = mem.obj[x]
    BY <1>1, <1>2, <1>3, EmptyFacts, SetObj
  <2>2. QED
    BY <1>2, <1>3, <2>1, EmptyFacts DEF Good
<1>5. QED
  BY <1>1, <1>2, <1>4, SetupKept

LEMMA StutterKeeps == ASSUME Memories, UNCHANGED vars PROVE Memories'
<1>1. Holders' = Holders /\ CursorHolds' = CursorHolds
  BY DEF vars, display, Holders, CursorHolds
<1>2. TypeOK' /\ Good(mem') /\ (phase' # "failed" => Holding')
  BY <1>1 DEF Memories, TypeOK, Holding, vars, display
<1>3. PhaseOK' /\ CommitOK' /\ GrabOK' /\ ConsoleOK' /\ CursorMapped' /\ GrabMapped'
  BY DEF Memories, PhaseOK, CommitOK, GrabOK, ConsoleOK, CursorMapped, GrabMapped, vars, display
<1>4. QED
  BY <1>2, <1>3 DEF Memories

LEMMA MemoriesNext == Memories /\ [Next]_vars => Memories'
<1> SUFFICES ASSUME Memories, [Next]_vars PROVE Memories'
  OBVIOUS
<1>1. CASE Setup
  BY <1>1, SetupWithoutConsoleKeeps, SetupConsoleKeeps, SetupFailsKeeps DEF Setup
<1>2. CASE Desktop
  <2>1. CASE \E o \in Objs : DumbCreate(o) \/ CloseHandle(o)
    BY <2>1, DumbCreateKeeps, CloseHandleKeeps
  <2>2. CASE \E o \in Shared : MapOffset(o) \/ Mmap(o) \/ Munmap(o) \/ Export(o) \/ Unexport(o)
    <3>1. PICK o \in Objs : MapOffset(o) \/ Mmap(o) \/ Munmap(o) \/ Export(o) \/ Unexport(o)
      BY <2>2, MemoryAssumption
    <3>2. QED
      BY <3>1, MapOffsetKeeps, MmapKeeps, MunmapKeeps, ExportKeeps, UnexportKeeps
  <2>3. CASE \E o \in Objs, kind \in Kinds : Import(o, kind)
    BY <2>3, ImportKeeps
  <2>4. CASE \E f \in Fbs, o \in Objs : UserFbCreate(f, o)
    BY <2>4, UserFbCreateKeeps
  <2>5. CASE \E f \in Fbs : CreateHandle(f) \/ RemoveFb(f)
    BY <2>5, CreateHandleKeeps, RemoveFbKeeps
  <2>6. QED
    BY <1>2, <2>1, <2>2, <2>3, <2>4, <2>5 DEF Desktop
<1>3. CASE Commit
  <2>1. CASE \E f \in Shown \cup {None} : StartCommit(f) \/ StartCursorCommit(f)
    BY <2>1, StartCommitKeeps, StartCursorCommitKeeps
  <2>2. CASE SetScanout \/ DropScanout \/ FinishCommit \/ CursorEnable
    BY <2>2, SetScanoutKeeps, DropScanoutKeeps, FinishCommitKeeps, CursorEnableKeeps
  <2>3. CASE \E result \in Results : CursorSet(result)
    BY <2>3, CursorSetKeeps
  <2>4. QED
    BY <1>3, <2>1, <2>2, <2>3 DEF Commit
<1>4. CASE Client
  <2>1. CASE GrabTake \/ GrabCopy \/ GrabCompose \/ GrabPut
    BY <2>1, GrabTakeKeeps, GrabCopyKeeps, GrabPutKeeps
  <2>2. CASE Disconnect \/ CursorDisable
    BY <2>2, DisconnectKeeps, CursorDisableKeeps
  <2>3. CASE \E result \in Results : GrabMap(result)
    BY <2>3, GrabMapKeeps
  <2>4. QED
    BY <1>4, <2>1, <2>2, <2>3 DEF Client
<1>5. CASE Unload
  BY <1>5, UnloadKeeps
<1>6. CASE UNCHANGED vars
  BY <1>6, StutterKeeps
<1>7. QED
  BY <1>1, <1>2, <1>3, <1>4, <1>5, <1>6 DEF Next

\* The inductive invariant of the memory of a card: every count is accounted for by
\* handles, maps, exports, ids, planes, the painter, the console, the commit and the
\* grab in progress, every mapping and export has its pin, and what the cursor and a
\* grab look at is mapped.
THEOREM MemoriesInvariant == Spec => []Memories
<1>1. Init => Memories
  BY MemoriesInit
<1>2. QED
  BY <1>1, MemoriesNext, PTL DEF Spec

\* Every reference count of evdi_gem.c and evdi_fb.c is the number of holders, in any
\* interleaving of commits, grabs, disconnects, requests and the unload, for every
\* number of objects and framebuffers.
THEOREM RefsAreCounted == Spec => []RefsCounted
<1>1. Memories => RefsCounted
  BY HoldersCounted
<1>2. QED
  BY <1>1, MemoriesInvariant, PTL

\* What a grab reads is alive and mapped, kernel and process mappings keep their pages,
\* and an object is freed without pages and mappings (evdi_painter_grabpix_ioctl,
\* evdi_gem_vmap, evdi_gem_free_object).
THEOREM MemoryIsSafe == Spec => []MemorySafe
<1>1. Memories => MemorySafe
  <2> SUFFICES ASSUME Memories PROVE MemorySafe
    OBVIOUS
  <2>1. TypeOK /\ GrabOK /\ CursorMapped /\ GrabMapped
    BY DEF Memories
  <2>2. GrabReadsMapped
    <3>1. phase # "failed" \/ grab = NoGrab
      BY DEF Memories, PhaseOK
    <3>2. CASE grab = NoGrab
      BY <3>2 DEF NoGrab, GrabReadsMapped
    <3>3. CASE phase # "failed"
      <4>1. Alive
        BY <3>3, AliveNow DEF Memories
      <4>2. ASSUME grab.at \in {"copy", "compose"}
            PROVE  /\ mem.fb[grab.fb].ref > 0
                   /\ mem.obj[ObjOf(grab.fb)].ref > 0 /\ mem.obj[ObjOf(grab.fb)].mapped
        <5>1. grab.fb \in Fbs
          BY <2>1, <4>2 DEF TypeOK, GrabOK
        <5>2. ObjOf(grab.fb) = mem.fb[grab.fb].obj
          BY <5>1, MemoryAssumption DEF ObjOf
        <5>3. mem.fb[grab.fb].ref > 0
          BY <4>1, <5>1 DEF Alive
        <5>4. QED
          BY <2>1, <4>1, <4>2, <5>1, <5>2, <5>3 DEF Alive, GrabMapped
      <4>3. ASSUME grab.cursor # None
            PROVE  mem.obj[grab.cursor].ref > 0 /\ mem.obj[grab.cursor].mapped
        <5>1. grab.cursor = cursor.obj /\ cursor.obj \in Objs
          BY <2>1, <4>3 DEF TypeOK, GrabOK
        <5>2. QED
          BY <2>1, <4>1, <4>3, <5>1 DEF Alive, CursorMapped
      <4>4. QED
        BY <4>2, <4>3 DEF GrabReadsMapped
    <3>4. QED
      BY <3>1, <3>2, <3>3
  <2>3. ASSUME NEW o \in Objs
        PROVE  /\ mem.obj[o].ref = 0 => ~mem.obj[o].pages /\ mem.obj[o].maps = 0
               /\ mem.obj[o].ref > 0 =>
                    /\ mem.obj[o].mapped /\ mem.obj[o].kind # "import" =>
                         mem.obj[o].pages /\ mem.obj[o].pins > 0
                    /\ mem.obj[o].vma => mem.obj[o].pages
    <3> DEFINE r == mem.obj[o]
    <3>1. r \in ObjRecord /\ ObjGood(r)
      BY DEF Memories, Good, Memory
    <3> HIDE DEF r
    <3>2. MappingCounted(r) /\ r.pins \in Nat /\ (r.offset => OffsetOf(r) = 1)
      BY <3>1, MappingCounts DEF ObjRecord, OffsetOf, Count
    <3>3. CASE r.ref = 0
      BY <3>1, <3>3 DEF ObjGood, r
    <3>4. CASE r.ref > 0
      <4>1. /\ r.pins >= Pinning(r) + ExportOf(r) + OffsetOf(r)
            /\ r.pins > 0 => r.pages
            /\ r.vma => r.offset
        BY <3>1, <3>4 DEF ObjGood
      <4>2. r.mapped /\ r.kind # "import" => r.pins > 0
        BY <3>2, <4>1, Counts DEF MappingCounted
      <4>3. r.vma => r.pins > 0
        BY <3>2, <4>1, Counts DEF MappingCounted
      <4>4. ~(r.ref = 0)
        BY <3>4
      <4>5. QED
        BY <4>1, <4>2, <4>3, <4>4 DEF r
    <3>5. r.ref \in Nat
      BY <3>1 DEF ObjRecord
    <3>6. r.ref = 0 \/ r.ref > 0
      BY <3>5
    <3>7. QED
      BY <3>3, <3>4, <3>6
  <2>4. MappedHasPages /\ FreedIsClean
    BY <2>3 DEF MappedHasPages, FreedIsClean
  <2>5. QED
    BY <2>1, <2>2, <2>4 DEF MemorySafe
<1>2. QED
  BY <1>1, MemoriesInvariant, PTL
=============================================================================
