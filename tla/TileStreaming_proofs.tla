------------------------ MODULE TileStreaming_proofs ------------------------
(***************************************************************************)
(* Theorems of TileStreaming, with the Cooker it runs on: for any map, any *)
(* fleet, any radius, bound and period, and any paths that are checked.    *)
(*                                                                         *)
(* The cook is followed by CookInv: the mesh files are those of the index  *)
(* under assembly.  The tiles a plan keeps are those of rank below         *)
(* MaxResident in an order without ties, and a rank is a number: hence     *)
(* there are no more of them than that, and as many, none further, where   *)
(* one in range is left out.  A path check is followed by ClearInv: every file holds the   *)
(* mesh of the last tile of its stem, and the world has loaded every tile  *)
(* that is resident and whole; a mesh has every face of its OBJ file, by   *)
(* ReadSoFar, line by line; and a ray meets a triangle or not, whichever   *)
(* axes both are written in.                                               *)
(***************************************************************************)
EXTENDS TileStreaming, FiniteSetTheorems, TLAPS

USE TileAssumption

(* The index entry of a tile that cooks. *)
Cooked(tile) ==
  LET box == CookResult(Mesh(tile.obj).tris)
  IN [file |-> tile.stem, lo |-> box.lo, hi |-> box.hi]

CookedTiles == {Cooked(args[k]) : k \in DOMAIN args}

Files == {p.file : p \in out_dir}

Names(list) == {e.file : e \in Range(list)}

CookInv ==
  /\ cook_pc \in {"clean", "tiles", "done", "failed"} /\ args \in Inputs
  /\ entries \in Seq(CookedTiles) /\ Len(entries) <= Len(args)
  /\ \A k \in 1 .. Len(entries) : Cooks(args[k].obj) /\ entries[k] = Cooked(args[k])
  /\ cook_pc = "clean" => entries = <<>>
  /\ cook_pc # "clean" => Files = Names(entries)
  /\ cook_pc \in {"tiles", "failed"} => index = NoIndex
  /\ cook_pc = "done" => index = entries /\ Len(entries) = Len(args)

LEMMA ArgsAreList ==
  ASSUME args \in Inputs
  PROVE  args \in Seq(Range(args)) /\ Len(args) \in Nat /\ DOMAIN args = 1 .. Len(args)
BY InputsAssumption

LEMMA InitCookInv == CookerInit => CookInv
<1> SUFFICES ASSUME CookerInit PROVE CookInv
  OBVIOUS
<1>1. cook_pc = "clean" /\ args \in Inputs /\ entries = <<>>
  BY DEF CookerInit
<1>2. Len(args) \in Nat
  BY <1>1, ArgsAreList
<1> QED
  BY <1>1, <1>2 DEF CookInv

LEMMA NamesGrow ==
  ASSUME NEW S, NEW list \in Seq(S), NEW e \in S
  PROVE  Names(Append(list, e)) = Names(list) \cup {e.file}
<1>1. Range(Append(list, e)) = Range(list) \cup {e}
  <2>1. /\ Append(list, e) \in Seq(S) /\ Len(Append(list, e)) = Len(list) + 1
        /\ DOMAIN list = 1 .. Len(list) /\ Len(list) \in Nat
        /\ DOMAIN Append(list, e) = 1 .. Len(list) + 1
        /\ \A k \in 1 .. Len(list) : Append(list, e)[k] = list[k]
        /\ Append(list, e)[Len(list) + 1] = e
    OBVIOUS
  <2> QED
    BY <2>1 DEF Range
<1> QED
  BY <1>1 DEF Names

LEMMA NextCookInv == ASSUME CookInv, Cook PROVE CookInv'
<1>1. /\ args \in Seq(Range(args)) /\ Len(args) \in Nat /\ DOMAIN args = 1 .. Len(args)
      /\ args' = args
  BY ArgsAreList DEF CookInv, Cook, StartCook, CookTile, CookFails, WriteIndex
<1>2. CASE StartCook
  <2>1. /\ cook_pc = "clean" /\ cook_pc' = "tiles" /\ index' = NoIndex /\ entries' = <<>>
        /\ out_dir' = {}
    BY <1>2 DEF StartCook, CleanOutDir, CookInv
  <2>2. Files' = {} /\ Names(entries)' = {}
    BY <2>1 DEF Files, Names, Range
  <2> QED
    BY <1>1, <2>1, <2>2 DEF CookInv, CookedTiles
<1>3. CASE CookTile
  <2> DEFINE k == Len(entries) + 1
             tile == args[k]
  <2>1. /\ cook_pc = "tiles" /\ k \in 1 .. Len(args) /\ UNCHANGED <<cook_pc, args, index>>
        /\ Cooks(tile.obj)
        /\ entries' = Append(entries, Cooked(tile))
    BY <1>1, <1>3 DEF CookTile, CookInv, Cooked
  <2>2. \E whole : out_dir' = {p \in out_dir : p.file # tile.stem}
                     \cup {[file |-> tile.stem, tris |-> Mesh(tile.obj).tris, whole |-> whole]}
    BY <1>3, Zenon DEF CookTile
  <2>3. Files' = Files \cup {tile.stem}
    <3>1. PICK q : q.file = tile.stem /\ out_dir' = {p \in out_dir : p.file # tile.stem} \cup {q}
      BY <2>2
    <3> HIDE DEF tile
    <3>2. \A p \in out_dir : p.file = tile.stem \/ p \in out_dir'
      BY <3>1
    <3>3. \A p \in out_dir' : p = q \/ p \in out_dir
      BY <3>1
    <3>4. q \in out_dir'
      BY <3>1
    <3> QED
      BY <3>1, <3>2, <3>3, <3>4 DEF Files
  <2>4. Cooked(tile) \in CookedTiles /\ Cooked(tile).file = tile.stem /\ CookedTiles' = CookedTiles
    BY <1>1, <2>1 DEF CookedTiles, Cooked
  <2>5. entries' \in Seq(CookedTiles) /\ Len(entries') = k
    BY <2>1, <2>4 DEF CookInv
  <2>6. Names(entries') = Names(entries) \cup {tile.stem}
    BY <2>1, <2>4, NamesGrow DEF CookInv
  <2>7. \A j \in 1 .. Len(entries') : Cooks(args[j].obj) /\ entries'[j] = Cooked(args[j])
    <3>1. \A j \in 1 .. Len(entries) : entries'[j] = entries[j]
      BY <2>1, <2>4 DEF CookInv
    <3>2. entries'[k] = Cooked(tile)
      BY <2>1, <2>4 DEF CookInv
    <3> QED
      BY <2>1, <2>5, <3>1, <3>2 DEF CookInv
  <2> QED
    BY <1>1, <2>1, <2>3, <2>4, <2>5, <2>6, <2>7 DEF CookInv
<1>4. CASE CookFails \/ WriteIndex
  <2>1. /\ cook_pc = "tiles" /\ UNCHANGED <<args, entries, out_dir>>
        /\ \/ cook_pc' = "failed" /\ index' = index
           \/ cook_pc' = "done" /\ index' = entries /\ Len(entries) = Len(args)
    BY <1>4 DEF CookFails, WriteIndex
  <2> QED
    BY <2>1 DEF CookInv, CookedTiles, Files, Names
<1> QED
  BY <1>2, <1>3, <1>4 DEF Cook

LEMMA CookInvKept == ASSUME CookInv, UNCHANGED cookerVars PROVE CookInv'
  BY DEF cookerVars, CookInv, CookedTiles, Files, Names

LEMMA CookInvHolds == Spec => []CookInv
<1>1. Init => CookInv
  BY InitCookInv DEF Init
<1>2. CookInv /\ [Next]_vars => CookInv'
  BY NextCookInv, CookInvKept DEF Next, vars
<1> QED
  BY <1>1, <1>2, PTL DEF Spec

(* An index names exactly the mesh files beside it, from the moment the    *)
(* cook has begun: whatever an earlier cook left, whatever stem is used    *)
(* twice, and wherever the cook fails.                                     *)
THEOREM IndexIsDirectory == Spec => []NoPhantomTiles
<1>1. CookInv => NoPhantomTiles
  BY DEF CookInv, NoPhantomTiles, Files, Names
<1> QED
  BY <1>1, CookInvHolds, PTL

-----------------------------------------------------------------------------
(* Which tiles a plan wants. *)
LEMMA LeastNat ==
  ASSUME NEW S \in SUBSET Nat, S # {} PROVE \E x \in S : \A y \in S : x <= y
<1>1. PICK x \in S : \A y \in S : ~(<<y, x>> \in OpToRel(<, Nat))
  BY NatLessThanWellFounded, WFMin
<1>2. \A y \in S : ~(y < x)
  BY <1>1 DEF OpToRel
<1> QED
  BY <1>2

LEMMA InductionUpTo ==
  ASSUME NEW n \in Nat, NEW S, 0 \in S, \A k \in 0 .. n - 1 : k \in S => k + 1 \in S
  PROVE  \A k \in 0 .. n : k \in S
<1> DEFINE missed == {k \in 0 .. n : k \notin S}
<1> SUFFICES ASSUME missed # {} PROVE FALSE
  OBVIOUS
<1>1. missed \in SUBSET Nat
  OBVIOUS
<1>2. PICK x \in missed : \A y \in missed : x <= y
  BY <1>1, LeastNat
<1>3. x \in 1 .. n /\ x - 1 \in 0 .. n - 1
  BY <1>2
<1>4. x - 1 \in S
  BY <1>2, <1>3
<1> QED
  BY <1>2, <1>3, <1>4

LEMMA MinOfNats ==
  ASSUME NEW S \in SUBSET Nat, S # {}
  PROVE  Min(S) \in S /\ \A y \in S : Min(S) <= y
  BY LeastNat DEF Min

(* A finite set of integers has a least one and a greatest one. *)
LEMMA LeastOfFinite ==
  ASSUME NEW S \in SUBSET Int, S # {}, IsFiniteSet(S)
  PROVE  \E x \in S : \A y \in S : x <= y
<1> DEFINE below(x) == {y \in S : y < x}
           counts == {Cardinality(below(x)) : x \in S}
<1>1. \A x \in S : IsFiniteSet(below(x)) /\ Cardinality(below(x)) \in Nat
  BY FS_Subset, FS_CardinalityType
<1>2. counts \in SUBSET Nat /\ counts # {}
  BY <1>1
<1>3. PICK n \in counts : \A m \in counts : n <= m
  BY <1>2, LeastNat
<1>4. PICK x \in S : n = Cardinality(below(x))
  BY <1>3
<1>5. ASSUME NEW y \in S, y < x PROVE FALSE
  <2>1. below(y) \in SUBSET below(x) /\ y \in below(x) /\ y \notin below(y)
    <3>1. \A z \in S : z < y => z < x
      BY <1>5
    <3>2. ~(y < y)
      OBVIOUS
    <3> QED
      BY <1>5, <3>1, <3>2
  <2>2. /\ Cardinality(below(y)) <= Cardinality(below(x))
        /\ Cardinality(below(x)) # Cardinality(below(y))
    <3> HIDE DEF below
    <3> QED
      BY <1>1, <2>1, FS_Subset
  <2>3. Cardinality(below(y)) \in counts
    OBVIOUS
  <2> HIDE DEF below, counts
  <2> QED
    BY <1>1, <1>3, <1>4, <2>2, <2>3
<1> QED
  BY <1>4, <1>5

LEMMA MinAndMax ==
  ASSUME NEW S \in SUBSET Int, S # {}, IsFiniteSet(S)
  PROVE  /\ Min(S) \in S /\ \A y \in S : Min(S) <= y
         /\ Max(S) \in S /\ \A y \in S : Max(S) >= y
<1> DEFINE T == {-y : y \in S}
           f == [y \in S |-> -y]
<1>1. f \in Surjection(S, T)
  BY DEF Surjection
<1>2. IsFiniteSet(T) /\ T \in SUBSET Int /\ T # {}
  <2>1. T \in SUBSET Int /\ T # {}
    OBVIOUS
  <2> HIDE DEF T, f
  <2> QED
    BY <1>1, <2>1, FS_Surjection
<1>3. PICK x \in T : \A y \in T : x <= y
  BY <1>2, LeastOfFinite
<1>4. -x \in S /\ \A y \in S : -x >= y
  <2>1. \A y \in S : x <= -y
    BY <1>3
  <2> QED
    BY <1>2, <2>1
<1>5. Max(S) \in S /\ \A y \in S : Max(S) >= y
  BY <1>4 DEF Max
<1>6. Min(S) \in S /\ \A y \in S : Min(S) <= y
  BY LeastOfFinite DEF Min
<1> QED
  BY <1>5, <1>6

(* The coordinates of a mesh, on one of Jolt's axes. *)
Extent(tris, k) == {t[i][k] : t \in tris, i \in 1 .. 3}

LEMMA ExtentIsFinite ==
  ASSUME NEW tris \in SUBSET (Vector \X Vector \X Vector), tris # {}, IsFiniteSet(tris),
         NEW k \in 1 .. 3
  PROVE  Extent(tris, k) \in SUBSET Int /\ Extent(tris, k) # {} /\ IsFiniteSet(Extent(tris, k))
<1> DEFINE E(i) == {t[i][k] : t \in tris}
<1>1. \A t \in tris : t[1] \in Vector /\ t[2] \in Vector /\ t[3] \in Vector
  OBVIOUS
<1>2. \A v \in Vector : v[k] \in Int
  BY DEF Vector
<1>3. ASSUME NEW i \in 1 .. 3 PROVE IsFiniteSet(E(i)) /\ E(i) \in SUBSET Int
  <2>1. [t \in tris |-> t[i][k]] \in Surjection(tris, E(i))
    BY DEF Surjection
  <2>2. IsFiniteSet(E(i))
    <3> HIDE DEF E
    <3> QED
      BY <2>1, FS_Surjection
  <2>3. \A t \in tris : t[i] \in Vector
    BY <1>1
  <2> QED
    BY <1>2, <2>2, <2>3
<1>4. Extent(tris, k) = (E(1) \cup E(2)) \cup E(3)
  <2>1. \A x : x \in Extent(tris, k) <=> \E i \in 1 .. 3 : x \in E(i)
    BY DEF Extent
  <2>2. \A i \in 1 .. 3 : i = 1 \/ i = 2 \/ i = 3
    OBVIOUS
  <2>3. 1 \in 1 .. 3 /\ 2 \in 1 .. 3 /\ 3 \in 1 .. 3
    OBVIOUS
  <2> HIDE DEF E
  <2> QED
    BY <2>1, <2>2, <2>3
<1>5. E(1) # {}
  OBVIOUS
<1> HIDE DEF E
<1>6. IsFiniteSet(E(1) \cup E(2)) /\ IsFiniteSet((E(1) \cup E(2)) \cup E(3))
  <2>1. IsFiniteSet(E(1)) /\ IsFiniteSet(E(2)) /\ IsFiniteSet(E(3))
    BY <1>3
  <2>2. IsFiniteSet(E(1) \cup E(2))
    BY <2>1, FS_Union
  <2> QED
    BY <2>1, <2>2, FS_Union
<1> QED
  BY <1>3, <1>4, <1>5, <1>6

LEMMA BoundsByAxis ==
  ASSUME NEW tris
  PROVE  /\ Bounds(tris).min = <<Min(Extent(tris, 1)), Min(Extent(tris, 2)), Min(Extent(tris, 3))>>
         /\ Bounds(tris).max = <<Max(Extent(tris, 1)), Max(Extent(tris, 2)), Max(Extent(tris, 3))>>
<1>1. Bounds(tris).min = <<Min(Extent(tris, 1)), Min(Extent(tris, 2)), Min(Extent(tris, 3))>>
  BY DEF Bounds, Extent
<1>2. Bounds(tris).max = <<Max(Extent(tris, 1)), Max(Extent(tris, 2)), Max(Extent(tris, 3))>>
  BY DEF Bounds, Extent
<1> QED
  BY <1>1, <1>2

LEMMA MinOfPair ==
  ASSUME NEW a \in Int, NEW b \in Int, a <= b
  PROVE  Min({a, b}) = a /\ Max({a, b}) = b /\ Min({b, a}) = a /\ Max({b, a}) = b
<1>1. {b, a} = {a, b}
  OBVIOUS
<1>2. /\ \E x \in {a, b} : \A y \in {a, b} : x <= y
      /\ \E x \in {a, b} : \A y \in {a, b} : x >= y
  OBVIOUS
<1> QED
  BY <1>1, <1>2 DEF Min, Max

(* The box of a mesh in NED: north and east as they are, and down from the *)
(* top of the building to its foot.                                        *)
LEMMA BoxInNed ==
  ASSUME NEW tris \in SUBSET (Vector \X Vector \X Vector), tris # {}, IsFiniteSet(tris)
  PROVE  /\ CookResult(tris).lo =
              <<Min(Extent(tris, 1)), Min(Extent(tris, 3)), -Max(Extent(tris, 2))>>
         /\ CookResult(tris).hi =
              <<Max(Extent(tris, 1)), Max(Extent(tris, 3)), -Min(Extent(tris, 2))>>
         /\ CookResult(tris).lo \in Vector /\ CookResult(tris).hi \in Vector
<1> DEFINE E(k) == Extent(tris, k)
<1>1. \A k \in 1 .. 3 : /\ Min(E(k)) \in Int /\ Max(E(k)) \in Int
                        /\ Min(E(k)) <= Max(E(k))
  <2> TAKE k \in 1 .. 3
  <2>1. E(k) \in SUBSET Int /\ E(k) # {} /\ IsFiniteSet(E(k))
    BY ExtentIsFinite
  <2> HIDE DEF E
  <2>2. /\ Min(E(k)) \in E(k) /\ Max(E(k)) \in E(k)
        /\ \A y \in E(k) : Min(E(k)) <= y
    BY <2>1, MinAndMax
  <2> QED
    BY <2>1, <2>2
<1>2. /\ Bounds(tris).min = <<Min(E(1)), Min(E(2)), Min(E(3))>>
      /\ Bounds(tris).max = <<Max(E(1)), Max(E(2)), Max(E(3))>>
  BY BoundsByAxis
<1> HIDE DEF E
<1>3. /\ jolt_to_ned(Bounds(tris).min) = <<Min(E(1)), Min(E(3)), -Min(E(2))>>
      /\ jolt_to_ned(Bounds(tris).max) = <<Max(E(1)), Max(E(3)), -Max(E(2))>>
  BY <1>2 DEF jolt_to_ned
<1>4. /\ Min({Min(E(1)), Max(E(1))}) = Min(E(1)) /\ Max({Min(E(1)), Max(E(1))}) = Max(E(1))
      /\ Min({Min(E(3)), Max(E(3))}) = Min(E(3)) /\ Max({Min(E(3)), Max(E(3))}) = Max(E(3))
  <2>1. ASSUME NEW k \in 1 .. 3
        PROVE  /\ Min({Min(E(k)), Max(E(k))}) = Min(E(k))
               /\ Max({Min(E(k)), Max(E(k))}) = Max(E(k))
    BY <1>1, MinOfPair, Zenon
  <2> QED
    BY <2>1
<1>5. /\ Min({-Min(E(2)), -Max(E(2))}) = -Max(E(2))
      /\ Max({-Min(E(2)), -Max(E(2))}) = -Min(E(2))
  <2>1. -Max(E(2)) \in Int /\ -Min(E(2)) \in Int /\ -Max(E(2)) <= -Min(E(2))
    BY <1>1
  <2> QED
    BY <2>1, MinOfPair
<1>6. /\ CookResult(tris).lo = <<Min(E(1)), Min(E(3)), -Max(E(2))>>
      /\ CookResult(tris).hi = <<Max(E(1)), Max(E(3)), -Min(E(2))>>
  BY <1>3, <1>4, <1>5 DEF CookResult
<1>7. CookResult(tris).lo \in Vector /\ CookResult(tris).hi \in Vector
  BY <1>1, <1>6 DEF Vector
<1> QED
  BY <1>6, <1>7 DEF E

LEMMA MaxOfThree ==
  ASSUME NEW a \in Int, NEW b \in Int, NEW c \in Int
  PROVE  Max({a, b, c}) \in {a, b, c}
<1>1. \E x \in {a, b, c} : \A y \in {a, b, c} : x >= y
  OBVIOUS
<1> QED
  BY <1>1 DEF Max

LEMMA SquareIsNat == ASSUME NEW x \in Int PROVE x * x \in Nat
  BY Z3

IndexOK ==
  \E n \in Nat : /\ Tiles = 1 .. n
                 /\ \A t \in Tiles : index[t].lo \in Vector /\ index[t].hi \in Vector

LEMMA CookedIndex == ASSUME CookInv, cook_pc # "clean" PROVE IndexOK
<1>1. CASE index = NoIndex
  BY <1>1 DEF IndexOK, Tiles, NoIndex
<1>2. CASE index # NoIndex
  <2>1. index = entries /\ args \in Inputs /\ entries \in Seq(CookedTiles)
    BY <1>2 DEF CookInv
  <2>2. Len(entries) \in Nat /\ Len(entries) <= Len(args) /\ DOMAIN entries = 1 .. Len(entries)
    BY <2>1 DEF CookInv
  <2>3. ASSUME NEW t \in 1 .. Len(entries)
        PROVE  entries[t].lo \in Vector /\ entries[t].hi \in Vector
    <3>1. t \in DOMAIN args
      BY <2>1, <2>2, ArgsAreList
    <3>2. Cooks(args[t].obj) /\ entries[t] = Cooked(args[t])
      BY DEF CookInv
    <3> DEFINE tris == Mesh(args[t].obj).tris
    <3>3. IsFiniteSet(tris) /\ tris \in SUBSET (Vector \X Vector \X Vector) /\ tris # {}
      BY <2>1, <3>1, <3>2, InputsAssumption DEF Cooks
    <3>4. CookResult(tris).lo \in Vector /\ CookResult(tris).hi \in Vector
      <4> HIDE DEF tris
      <4> QED
        BY <3>3, BoxInNed
    <3> QED
      BY <3>2, <3>4 DEF Cooked
  <2> QED
    BY <2>1, <2>2, <2>3 DEF IndexOK, Tiles
<1> QED
  BY <1>1, <1>2

LEMMA DistanceIsNat ==
  ASSUME IndexOK, NEW t \in Tiles, NEW p \in Vector
  PROVE  distance_to_tile(p, t) \in Nat
<1>1. \A x \in Int, lo \in Int, hi \in Int : Beyond(x, lo, hi) \in Int
  BY MaxOfThree DEF Beyond
<1>2. /\ index[t].lo[1] \in Int /\ index[t].lo[2] \in Int
      /\ index[t].hi[1] \in Int /\ index[t].hi[2] \in Int
      /\ p[1] \in Int /\ p[2] \in Int
  BY DEF IndexOK, Vector
<1> DEFINE dn == Beyond(p[1], index[t].lo[1], index[t].hi[1])
           de == Beyond(p[2], index[t].lo[2], index[t].hi[2])
<1>3. dn \in Int /\ de \in Int
  BY <1>1, <1>2
<1> HIDE DEF dn, de
<1>4. dn * dn \in Nat /\ de * de \in Nat
  BY <1>3, SquareIsNat
<1>5. dn * dn + de * de \in Nat
  BY <1>4
<1> QED
  BY <1>5 DEF distance_to_tile, dn, de

(* The distance a tile is sorted by is that to the nearest point. *)
LEMMA BestIsNearest ==
  ASSUME IndexOK, NEW t \in Tiles, NEW points \in SUBSET Vector, points # {}
  PROVE  /\ Best(points, t) \in Nat
         /\ \A p \in points : Best(points, t) <= distance_to_tile(p, t)
<1> DEFINE S == {distance_to_tile(p, t) : p \in points}
<1>1. S \in SUBSET Nat /\ S # {}
  BY DistanceIsNat
<1> HIDE DEF S
<1>2. Min(S) \in S /\ \A y \in S : Min(S) <= y
  BY <1>1, MinOfNats
<1> QED
  BY <1>1, <1>2 DEF Best, S

(* The order of a plan has no ties. *)
LEMMA BeforeIsTotal ==
  ASSUME IndexOK, NEW points \in SUBSET Vector, points # {}
  PROVE  /\ \A t \in Tiles : ~Before(points, t, t)
         /\ \A t \in Tiles, u \in Tiles :
              t # u => Before(points, t, u) \/ Before(points, u, t)
         /\ \A t \in Tiles, u \in Tiles, w \in Tiles :
              Before(points, t, u) /\ Before(points, u, w) => Before(points, t, w)
<1>1. \A t \in Tiles : Best(points, t) \in Nat /\ t \in Int
  BY BestIsNearest DEF IndexOK
<1> HIDE DEF Best
<1> QED
  BY <1>1 DEF Before

Ahead(points, t) == {u \in InRange(points) : Before(points, u, t)}
Rank(points, t) == Cardinality(Ahead(points, t))

LEMMA RangeIsFinite ==
  ASSUME IndexOK, NEW points
  PROVE  IsFiniteSet(InRange(points)) /\ InRange(points) \subseteq Tiles
<1>1. IsFiniteSet(Tiles)
  BY FS_Interval DEF IndexOK
<1>2. InRange(points) \subseteq Tiles
  BY DEF InRange
<1> QED
  BY <1>1, <1>2, FS_Subset

LEMMA RanksDiffer ==
  ASSUME IndexOK, NEW points \in SUBSET Vector
  PROVE  /\ \A t \in InRange(points) : Rank(points, t) \in 0 .. Cardinality(InRange(points)) - 1
         /\ \A t \in InRange(points), u \in InRange(points) :
              /\ t # u => Rank(points, t) # Rank(points, u)
              /\ Before(points, t, u) => Rank(points, t) < Rank(points, u)
<1> DEFINE near == InRange(points)
<1>1. IsFiniteSet(near) /\ near \subseteq Tiles /\ Cardinality(near) \in Nat
  BY RangeIsFinite, FS_CardinalityType
<1>2. near # {} => points # {}
  BY DEF InRange
<1>3. \A t \in near : /\ Ahead(points, t) \subseteq near /\ IsFiniteSet(Ahead(points, t))
                      /\ Rank(points, t) \in Nat /\ t \notin Ahead(points, t)
  <2> TAKE t \in near
  <2>1. Ahead(points, t) \subseteq near
    BY DEF Ahead
  <2>2. IsFiniteSet(Ahead(points, t))
    BY <1>1, <2>1, FS_Subset
  <2>3. ~Before(points, t, t)
    BY <1>1, <1>2, BeforeIsTotal
  <2> QED
    BY <2>1, <2>2, <2>3, FS_CardinalityType DEF Rank, Ahead
<1>4. ASSUME NEW t \in near PROVE Rank(points, t) < Cardinality(near)
  <2>1. Ahead(points, t) \in SUBSET near /\ Ahead(points, t) # near
    BY <1>3
  <2>2. Cardinality(Ahead(points, t)) <= Cardinality(near)
        /\ Cardinality(near) # Cardinality(Ahead(points, t))
    BY <1>1, <2>1, FS_Subset
  <2> QED
    BY <1>1, <1>3, <2>2 DEF Rank
<1>5. ASSUME NEW t \in near, NEW u \in near, Before(points, t, u)
      PROVE  Rank(points, t) < Rank(points, u)
  <2>1. Ahead(points, t) \in SUBSET Ahead(points, u)
    BY <1>1, <1>2, <1>5, BeforeIsTotal DEF Ahead
  <2>2. t \in Ahead(points, u) /\ t \notin Ahead(points, t)
    BY <1>3, <1>5 DEF Ahead
  <2>3. Rank(points, t) <= Rank(points, u) /\ Rank(points, t) # Rank(points, u)
    BY <1>3, <2>1, <2>2, FS_Subset DEF Rank
  <2> QED
    BY <1>3, <2>3
<1>6. ASSUME NEW t \in near, NEW u \in near, t # u PROVE Rank(points, t) # Rank(points, u)
  <2>1. Before(points, t, u) \/ Before(points, u, t)
    BY <1>1, <1>2, <1>6, BeforeIsTotal
  <2>2. Rank(points, t) \in Nat /\ Rank(points, u) \in Nat
    BY <1>3
  <2> QED
    BY <1>5, <2>1, <2>2
<1>7. \A t \in near : Rank(points, t) \in 0 .. Cardinality(near) - 1
  BY <1>1, <1>3, <1>4
<1> QED
  BY <1>5, <1>6, <1>7

(* Counting by numbering. *)
LEMMA Numbered ==
  ASSUME NEW S, NEW n \in Nat, NEW f \in Injection(S, 0 .. n - 1)
  PROVE  /\ IsFiniteSet(S) /\ Cardinality(S) \in 0 .. n
         /\ Cardinality(S) = n <=> (\A k \in 0 .. n - 1 : \E s \in S : f[s] = k)
<1> DEFINE T == 0 .. n - 1
<1>1. IsFiniteSet(T) /\ Cardinality(T) = IF 0 > n - 1 THEN 0 ELSE (n - 1) - 0 + 1
  BY FS_Interval
<1>2. Cardinality(T) = n
  BY <1>1
<1>3. f \in [S -> T]
  BY DEF Injection
<1>4. f \in Surjection(S, T) <=> \A k \in T : \E s \in S : f[s] = k
  BY <1>3 DEF Surjection
<1> HIDE DEF T
<1>5. /\ IsFiniteSet(S) /\ Cardinality(S) <= Cardinality(T)
      /\ Cardinality(S) = Cardinality(T) <=> f \in Surjection(S, T)
  BY <1>1, FS_Injection DEF T
<1>6. Cardinality(S) \in Nat
  BY <1>5, FS_CardinalityType
<1> QED
  BY <1>2, <1>4, <1>5, <1>6 DEF T

(* A plan wants MaxResident tiles at most; and so many, none of them       *)
(* further, when one that is in range of somebody is not among them.       *)
LEMMA PlanIsNearest ==
  ASSUME IndexOK, NEW points \in SUBSET Vector
  PROVE  /\ Desired(points) \subseteq InRange(points)
         /\ IsFiniteSet(Desired(points))
         /\ Cardinality(Desired(points)) \in 0 .. MaxResident
         /\ \A t \in InRange(points) \ Desired(points) :
              /\ Cardinality(Desired(points)) = MaxResident
              /\ \A u \in Desired(points) : Best(points, u) <= Best(points, t)
<1> DEFINE near == InRange(points)
           best == Desired(points)
           rank == [t \in best |-> Rank(points, t)]
           all == [t \in near |-> Rank(points, t)]
           N == Cardinality(near)
<1>1. best = {t \in near : Rank(points, t) < MaxResident}
  BY DEF Desired, Rank, Ahead
<1>2. IsFiniteSet(near) /\ N \in Nat
  BY RangeIsFinite, FS_CardinalityType
<1>3. /\ \A t \in near : Rank(points, t) \in 0 .. N - 1
      /\ \A t \in near, u \in near : t # u => Rank(points, t) # Rank(points, u)
  BY RanksDiffer
<1> HIDE DEF near, best, N
<1>4. rank \in Injection(best, 0 .. MaxResident - 1)
  <2>1. \A t \in best : Rank(points, t) \in 0 .. MaxResident - 1
    BY <1>1, <1>2, <1>3
  <2>2. \A t \in best, u \in best : Rank(points, t) = Rank(points, u) => t = u
    BY <1>1, <1>3
  <2> QED
    BY <2>1, <2>2 DEF Injection, IsInjective
<1>5. all \in Injection(near, 0 .. N - 1)
  BY <1>3 DEF Injection, IsInjective
<1>6. \A t \in best : rank[t] = Rank(points, t)
  OBVIOUS
<1>7. \A t \in near : all[t] = Rank(points, t)
  OBVIOUS
<1> HIDE DEF rank, all
<1>8. IsFiniteSet(best) /\ Cardinality(best) \in 0 .. MaxResident
  BY <1>4, Numbered
<1>9. ASSUME NEW t \in near \ best, NEW u \in best PROVE Best(points, u) <= Best(points, t)
  <2>1. u \in near /\ Rank(points, u) < MaxResident /\ ~(Rank(points, t) < MaxResident)
    BY <1>1, <1>9
  <2>2. Rank(points, t) \in Nat /\ Rank(points, u) \in Nat
    BY <1>2, <1>3, <1>9, <2>1
  <2>3. ~Before(points, t, u)
    BY <1>9, <2>1, <2>2, RanksDiffer DEF near
  <2>4. Best(points, t) \in Nat /\ Best(points, u) \in Nat
    BY <1>9, <2>1, RangeIsFinite, BestIsNearest DEF near, InRange
  <2> HIDE DEF Best
  <2> QED
    BY <2>3, <2>4 DEF Before
<1>10. ASSUME NEW t \in near \ best PROVE Cardinality(best) = MaxResident
  <2>1. \A k \in 0 .. N - 1 : \E u \in near : all[u] = k
    BY <1>2, <1>5, Numbered DEF N
  <2>2. MaxResident <= N
    BY <1>1, <1>2, <1>3, <1>10
  <2>3. ASSUME NEW k \in 0 .. MaxResident - 1 PROVE \E u \in best : rank[u] = k
    <3>1. k \in 0 .. N - 1 /\ k < MaxResident
      BY <1>2, <2>2
    <3>2. PICK u \in near : all[u] = k
      BY <2>1, <3>1
    <3>3. u \in best
      BY <1>1, <1>7, <3>1, <3>2
    <3> QED
      BY <1>6, <1>7, <3>2, <3>3
  <2> QED
    BY <1>4, <2>3, Numbered
<1> QED
  BY <1>1, <1>8, <1>9, <1>10 DEF near, best

(* The list of waypoints ends before the first one that does not parse. *)
LEMMA WaypointsParse ==
  ASSUME NEW path \in Paths
  PROVE  Range(parse_waypoints(path)) \in SUBSET Vector
<1> DEFINE s == Append(path, Malformed)
           I == {i \in 1 .. Len(s) : s[i] = Malformed}
           n == Min(I)
<1>1. /\ path \in Seq(Range(path)) /\ Len(path) \in Nat /\ DOMAIN path = 1 .. Len(path)
      /\ \A w \in Range(path) : w = Malformed \/ w \in Vector
  BY PathsAssumption
<1>2. /\ Len(s) = Len(path) + 1 /\ s[Len(path) + 1] = Malformed
      /\ \A i \in 1 .. Len(path) : s[i] = path[i]
  BY <1>1
<1>3. I \in SUBSET Nat /\ I # {}
  BY <1>1, <1>2
<1>4. n \in I /\ \A i \in I : n <= i
  BY <1>3, MinOfNats
<1>5. parse_waypoints(path) = SubSeq(path, 1, n - 1)
  BY <1>3 DEF parse_waypoints, SelectInSeq
<1>6. n \in 1 .. Len(path) + 1
  BY <1>2, <1>4
<1>7. ASSUME NEW i \in 1 .. n - 1 PROVE path[i] \in Vector
  <2>1. i \in 1 .. Len(path) /\ i \notin I
    <3> HIDE DEF I, n
    <3> QED
      BY <1>1, <1>4, <1>6
  <2>2. path[i] # Malformed /\ path[i] \in Range(path)
    BY <1>1, <1>2, <2>1 DEF Range
  <2> QED
    BY <1>1, <2>2
<1> HIDE DEF n
<1>8. /\ DOMAIN SubSeq(path, 1, n - 1) = 1 .. n - 1
      /\ \A i \in 1 .. n - 1 : SubSeq(path, 1, n - 1)[i] = path[i]
  BY <1>1, <1>6
<1> QED
  BY <1>5, <1>7, <1>8 DEF Range

-----------------------------------------------------------------------------
(* The loop: where it is says what the cook has left, and whom it flies. *)
LoopInv ==
  /\ loop \in {"cook", "commands", "stream", "step", "exit"}
  /\ tick \in Nat /\ last_stream_tick \in Int /\ last_stream_tick <= tick
  /\ fleet \in [Vehicles -> Places \cup {Nowhere}]
  /\ seen_at \in [Vehicles -> Places \cup {Nowhere}]
  /\ age \in [Vehicles -> Nat]
  /\ \A v \in Vehicles : fleet[v] = Nowhere => seen_at[v] = Nowhere
  /\ loop # "cook" => cook_pc \in {"done", "failed"}
  /\ loop \notin {"cook", "exit"} => cook_pc = "done"
  /\ loop \in {"cook", "exit"} => Flying = {} /\ checked = {} /\ resident = {} /\ reach = 0

(* How long a vehicle may have flown on old tiles, by where the loop is. *)
Waited ==
  IF tick % Period = 0 /\ loop \in {"commands", "stream"} /\ last_stream_tick # tick
  THEN Period ELSE tick % Period

AgeInv == \A v \in Flying : age[v] <= Waited

ChurnInv == checked # {} => Flying = {} /\ resident = Desired(checked)

ResidentInv ==
  /\ IsFiniteSet(resident) /\ Cardinality(resident) \in 0 .. MaxResident
  /\ tile_world_ids \subseteq resident
  /\ nodes \in 0 .. MaxResident /\ peak \in 0 .. 2 * MaxResident

(* The tiles are those of the last plan, which was for these points. *)
Planned(points) ==
  /\ resident = Desired(points) /\ reach = Reach(points, resident)
  /\ \A v \in Vehicles : seen_at[v] = Nowhere \/ seen_at[v] \in points

PlanInv == \E points \in SUBSET Vector : Planned(points)

TInv == CookInv /\ LoopInv /\ AgeInv /\ ChurnInv /\ ResidentInv /\ PlanInv

LEMMA NowhereIsNoPlace == ASSUME NEW p \in Vector PROVE p # Nowhere
<1>1. Len(p) = 3
  BY DEF Vector
<1>2. Len(Nowhere) = 0
  BY DEF Nowhere
<1> QED
  BY <1>1, <1>2

LEMMA PositionsAreVectors ==
  ASSUME LoopInv PROVE Positions \in SUBSET Vector
  BY DEF LoopInv, Positions, Flying

(* What evaluating a set of points does, when the fleet's are among them. *)
LEMMA PlanApplied ==
  ASSUME TInv, NEW points \in SUBSET Vector, Positions \subseteq points,
         ApplyTilePlan(points), cook_pc = "done",
         UNCHANGED <<cookerVars, fleet>>
  PROVE  /\ resident' = Desired(points) /\ ResidentInv' /\ PlanInv'
         /\ \A v \in Flying : age'[v] = 0
         /\ age' \in [Vehicles -> Nat] /\ seen_at' \in [Vehicles -> Places \cup {Nowhere}]
         /\ \A v \in Vehicles : fleet[v] = Nowhere => seen_at'[v] = Nowhere
<1>1. IndexOK /\ Tiles' = Tiles /\ index' = index
  BY CookedIndex DEF TInv, cookerVars, Tiles
<1> DEFINE wanted == Desired(points)
           add == wanted \ resident
           remove == resident \ wanted
<1>2. /\ resident' = wanted
      /\ tile_world_ids' = (tile_world_ids \ remove) \cup (add \cap Loadable)
      /\ peak' = nodes + Cardinality(add \cap Loadable)
      /\ nodes' = IF add = {} /\ remove = {} THEN nodes ELSE Cardinality(tile_world_ids')
      /\ reach' = Reach(points, wanted)
      /\ seen_at' = [v \in Vehicles |-> IF fleet[v] \in points THEN fleet[v] ELSE seen_at[v]]
      /\ age' = [v \in Vehicles |-> IF fleet[v] \in points THEN 0 ELSE age[v]]
  BY Zenon DEF ApplyTilePlan, Optimized
<1>3. /\ wanted \subseteq InRange(points)
      /\ IsFiniteSet(wanted) /\ Cardinality(wanted) \in 0 .. MaxResident
      /\ \A t \in InRange(points) \ wanted : Cardinality(wanted) = MaxResident
  BY <1>1, PlanIsNearest
<1> HIDE DEF wanted
<1>4. ResidentInv'
  <2>1. tile_world_ids' \subseteq wanted
    BY <1>2 DEF TInv, ResidentInv
  <2>2. Cardinality(tile_world_ids') \in 0 .. MaxResident
    BY <1>3, <2>1, FS_Subset, FS_CardinalityType
  <2>3. Cardinality(add \cap Loadable) \in 0 .. MaxResident
    <3>1. add \cap Loadable \in SUBSET wanted
      OBVIOUS
    <3> QED
      BY <1>3, <3>1, FS_Subset, FS_CardinalityType
  <2>4. nodes' \in 0 .. MaxResident /\ peak' \in 0 .. 2 * MaxResident
    BY <1>2, <2>2, <2>3 DEF TInv, ResidentInv
  <2> QED
    BY <1>2, <1>3, <2>1, <2>4 DEF ResidentInv
<1>5. \A v \in Flying : fleet[v] \in points /\ v \in Vehicles
  BY DEF Positions, Flying
<1>6. \A v \in Vehicles : fleet[v] = Nowhere => fleet[v] \notin points
  BY NowhereIsNoPlace
<1>7. \A v \in Vehicles : seen_at'[v] = Nowhere \/ seen_at'[v] \in points
  BY <1>2, <1>5, <1>6 DEF Flying, TInv, LoopInv
<1>8. PlanInv'
  <2>1. Desired(points)' = wanted
    BY <1>1 DEF wanted, Desired, InRange, Before, Best, distance_to_tile
  <2>2. Reach(points, resident)' = Reach(points, wanted)
    BY <1>2 DEF cookerVars, Reach
  <2>3. Planned(points)'
    BY <1>2, <1>7, <2>1, <2>2 DEF Planned
  <2> QED
    BY <2>3 DEF PlanInv
<1> QED
  BY <1>2, <1>4, <1>5, <1>6, <1>8 DEF wanted, TInv, LoopInv

-----------------------------------------------------------------------------
(* The tick's place in its period. *)
LEMMA RemainderRange ==
  ASSUME NEW m \in Nat \ {0}, NEW n \in Int PROVE n % m \in 0 .. m - 1
  BY Z3

LEMMA RemainderSplit ==
  ASSUME NEW m \in Nat \ {0}, NEW n \in Int PROVE \E q \in Int : n = m * q + (n % m)
<1>1. n \div m \in Int /\ n = m * (n \div m) + (n % m)
  BY Z3
<1> QED
  BY <1>1

LEMMA RemainderUnique ==
  ASSUME NEW m \in Nat \ {0}, NEW p \in Int, NEW q \in Int,
         NEW r \in 0 .. m - 1, NEW s \in 0 .. m - 1, m * p + r = m * q + s
  PROVE  r = s
<1>1. /\ m * p \in Int /\ m * q \in Int /\ m * p - m * q = m * (p - q)
      /\ p - q >= 1 => m * (p - q) >= m
      /\ p - q <= -1 => m * (p - q) <= -m
  BY Z3
<1>2. p = q
  BY <1>1
<1>3. m * p = m * q
  BY <1>2
<1> QED
  BY <1>1, <1>3

(* A tick later, it is the next place in the period, or the first one. *)
LEMMA NextPlace ==
  ASSUME NEW n \in Nat
  PROVE  /\ n % Period \in 0 .. Period - 1
         /\ \/ (n + 1) % Period = (n % Period) + 1
            \/ (n + 1) % Period = 0 /\ n % Period = Period - 1
<1> DEFINE r == n % Period
           s == (n + 1) % Period
<1>1. r \in 0 .. Period - 1 /\ s \in 0 .. Period - 1 /\ Period \in Nat \ {0}
  BY RemainderRange
<1>2. PICK p \in Int : n = Period * p + r
  BY <1>1, RemainderSplit, n \in Int, Zenon
<1>3. PICK q \in Int : n + 1 = Period * q + s
  BY <1>1, RemainderSplit, n + 1 \in Int, Zenon
<1> HIDE DEF r, s
<1>4. Period * (p + 1) = Period * p + Period /\ Period * p \in Int /\ Period * q \in Int
  BY Z3
<1>5. CASE r = Period - 1
  <2>1. Period * (p + 1) + 0 = Period * q + s
    BY <1>1, <1>2, <1>3, <1>4, <1>5
  <2>2. 0 \in 0 .. Period - 1 /\ p + 1 \in Int
    BY <1>1
  <2>3. 0 = s
    BY <1>1, <2>1, <2>2, RemainderUnique
  <2> QED
    BY <1>1, <1>5, <2>3 DEF r, s
<1>6. CASE r # Period - 1
  <2>1. Period * p + (r + 1) = Period * q + s /\ r + 1 \in 0 .. Period - 1
    BY <1>1, <1>2, <1>3, <1>4, <1>6
  <2>2. r + 1 = s
    BY <1>1, <2>1, RemainderUnique
  <2> QED
    BY <1>1, <2>2 DEF r, s
<1> QED
  BY <1>5, <1>6

LEMMA WaitedRange == ASSUME LoopInv PROVE Waited \in 0 .. Period /\ tick % Period \in Nat
  BY NextPlace DEF LoopInv, Waited

-----------------------------------------------------------------------------
(* Before the first plan. *)
LEMMA NothingPlanned == Desired({}) = {} /\ Reach({}, {}) = 0
<1>1. Desired({}) = {}
  BY DEF Desired, InRange
<1>2. {0} \cup {Min({Away(p, args[i].obj) : p \in {}}) : i \in {}} = {0}
  OBVIOUS
<1>3. Max({0}) = 0
  BY DEF Max
<1> QED
  BY <1>1, <1>2, <1>3 DEF Reach

(* The invariant, step by step. *)
LEMMA InitTInv == Init => TInv
<1> SUFFICES ASSUME Init PROVE TInv
  OBVIOUS
<1>1. CookInv
  BY InitCookInv DEF Init
<1>2. Flying = {}
  BY DEF Init, Flying
<1>3. LoopInv
  BY <1>2 DEF Init, LoopInv, None
<1>4. AgeInv /\ ChurnInv /\ PlanInv
  BY <1>2, NothingPlanned DEF Init, AgeInv, ChurnInv, PlanInv, Planned
<1>5. ResidentInv
  BY FS_EmptySet DEF Init, ResidentInv
<1> QED
  BY <1>1, <1>3, <1>4, <1>5 DEF TInv

(* Nobody flies while the cook is at work. *)
LEMMA CookKeepsTInv == ASSUME TInv, Cook, UNCHANGED streamVars PROVE TInv'
<1>1. CookInv'
  BY NextCookInv DEF TInv
<1>2. cook_pc \notin {"done", "failed"}
  BY DEF Cook, StartCook, CookTile, CookFails, WriteIndex
<1>3. loop = "cook" /\ Flying = {} /\ checked = {} /\ resident = {} /\ reach = 0
  BY <1>2 DEF TInv, LoopInv
<1>4. /\ UNCHANGED <<loop, tick, last_stream_tick, fleet, resident, tile_world_ids, nodes>>
      /\ UNCHANGED <<peak, reach, seen_at, age, checked>>
  BY DEF streamVars, history
<1>5. Flying' = {}
  BY <1>3, <1>4 DEF Flying
<1>6. \A v \in Vehicles : seen_at'[v] = Nowhere
  BY <1>3, <1>4 DEF TInv, LoopInv, Flying
<1>7. LoopInv'
  BY <1>3, <1>4, <1>5 DEF TInv, LoopInv
<1>8. AgeInv' /\ ChurnInv'
  BY <1>3, <1>4, <1>5 DEF AgeInv, ChurnInv
<1>9. PlanInv'
  <2>1. Desired({})' = {}
    BY DEF Desired, InRange
  <2>2. Reach({}, {})' = Reach({}, {})
    BY DEF Reach
  <2>3. Planned({})'
    BY <1>3, <1>4, <1>6, <2>1, <2>2, NothingPlanned DEF Planned
  <2> QED
    BY <2>3 DEF PlanInv
<1>10. ResidentInv'
  BY <1>4 DEF TInv, ResidentInv
<1> QED
  BY <1>1, <1>7, <1>8, <1>9, <1>10 DEF TInv

(* What does not touch the tiles. *)
LEMMA TilesKept ==
  ASSUME TInv, UNCHANGED <<args, index, resident, tile_world_ids, nodes, peak, reach>>
  PROVE  /\ ResidentInv' /\ Tiles' = Tiles
         /\ \A points : Desired(points)' = Desired(points)
         /\ (\A v \in Vehicles : seen_at'[v] = seen_at[v] \/ seen_at'[v] = Nowhere)
              => PlanInv'
<1>1. Tiles' = Tiles
  BY DEF Tiles
<1>2. \A p, t : distance_to_tile(p, t)' = distance_to_tile(p, t)
  BY DEF distance_to_tile
<1>3. \A points, t : Best(points, t)' = Best(points, t)
  BY DEF Best, distance_to_tile
<1>4. \A points : InRange(points)' = InRange(points)
  BY <1>1, <1>3 DEF InRange
<1>5. \A points : Desired(points)' = Desired(points)
  BY <1>3, <1>4 DEF Desired, Before
<1>6. ResidentInv'
  BY DEF TInv, ResidentInv
<1>7. ASSUME \A v \in Vehicles : seen_at'[v] = seen_at[v] \/ seen_at'[v] = Nowhere
      PROVE  PlanInv'
  <2>1. PICK points \in SUBSET Vector : Planned(points)
    BY DEF TInv, PlanInv
  <2>2. Reach(points, resident)' = Reach(points, resident)
    BY DEF Reach
  <2>3. Planned(points)'
    BY <1>5, <1>7, <2>1, <2>2 DEF Planned
  <2> QED
    BY <2>3 DEF PlanInv
<1> QED
  BY <1>1, <1>5, <1>6, <1>7

LEMMA StartStreamerKeeps ==
  ASSUME TInv, StartStreamer, UNCHANGED cookerVars PROVE TInv'
<1>1. CookInv' /\ args' = args /\ index' = index /\ cook_pc' = cook_pc
  BY CookInvKept DEF TInv, cookerVars
<1>2. /\ UNCHANGED <<tick, last_stream_tick, fleet, resident, tile_world_ids, nodes>>
      /\ UNCHANGED <<peak, reach, seen_at, age, checked>>
      /\ loop = "cook" /\ cook_pc \in {"done", "failed"}
      /\ loop' = IF index = NoIndex THEN "exit" ELSE "commands"
  BY DEF StartStreamer, history
<1>3. Flying' = {} /\ checked' = {}
  BY <1>2 DEF TInv, LoopInv, Flying
<1>4. loop' = "commands" => cook_pc = "done"
  BY <1>2 DEF TInv, CookInv
<1>5. LoopInv'
  BY <1>1, <1>2, <1>3, <1>4 DEF TInv, LoopInv
<1>6. AgeInv' /\ ChurnInv'
  BY <1>3 DEF AgeInv, ChurnInv
<1>7. ResidentInv' /\ PlanInv'
  BY <1>1, <1>2, TilesKept
<1> QED
  BY <1>1, <1>5, <1>6, <1>7 DEF TInv

LEMMA SpawnKeeps ==
  ASSUME TInv, NEW v \in Vehicles, NEW p \in Places, Spawn(v, p), UNCHANGED cookerVars
  PROVE  TInv'
<1>1. CookInv' /\ args' = args /\ index' = index /\ cook_pc' = cook_pc
  BY CookInvKept DEF TInv, cookerVars
<1>2. /\ UNCHANGED <<loop, tick, last_stream_tick, resident, tile_world_ids, nodes, peak, reach, seen_at>>
      /\ loop = "commands" /\ fleet[v] = Nowhere /\ checked' = {}
      /\ fleet' = [fleet EXCEPT ![v] = p] /\ age' = [age EXCEPT ![v] = 0]
  BY DEF Spawn
<1>3. /\ \A u \in Vehicles : fleet'[u] = IF u = v THEN p ELSE fleet[u]
      /\ \A u \in Vehicles : age'[u] = IF u = v THEN 0 ELSE age[u]
      /\ p # Nowhere
  BY <1>2, NowhereIsNoPlace DEF TInv, LoopInv
<1>4. LoopInv'
  BY <1>1, <1>2, <1>3 DEF TInv, LoopInv
<1>5. AgeInv'
  <2>1. Waited' = Waited /\ Waited \in Nat
    BY <1>2, WaitedRange DEF Waited, TInv
  <2>2. \A u \in Flying' : u = v \/ u \in Flying
    BY <1>3 DEF Flying
  <2> QED
    BY <1>3, <2>1, <2>2 DEF AgeInv, TInv, Flying
<1>6. ChurnInv'
  BY <1>2 DEF ChurnInv
<1>7. ResidentInv' /\ PlanInv'
  BY <1>1, <1>2, TilesKept
<1> QED
  BY <1>1, <1>4, <1>5, <1>6, <1>7 DEF TInv

LEMMA DespawnKeeps ==
  ASSUME TInv, NEW v \in Vehicles, Despawn(v), UNCHANGED cookerVars PROVE TInv'
<1>1. CookInv' /\ args' = args /\ index' = index /\ cook_pc' = cook_pc
  BY CookInvKept DEF TInv, cookerVars
<1>2. /\ UNCHANGED <<loop, tick, last_stream_tick, resident, tile_world_ids, nodes, peak, reach, checked>>
      /\ loop = "commands" /\ fleet[v] # Nowhere
      /\ fleet' = [fleet EXCEPT ![v] = Nowhere] /\ age' = [age EXCEPT ![v] = 0]
      /\ seen_at' = [seen_at EXCEPT ![v] = Nowhere]
  BY DEF Despawn
<1>3. /\ \A u \in Vehicles : fleet'[u] = IF u = v THEN Nowhere ELSE fleet[u]
      /\ \A u \in Vehicles : age'[u] = IF u = v THEN 0 ELSE age[u]
      /\ \A u \in Vehicles : seen_at'[u] = IF u = v THEN Nowhere ELSE seen_at[u]
      /\ v \in Flying
  BY <1>2 DEF TInv, LoopInv, Flying
<1>4. LoopInv'
  BY <1>1, <1>2, <1>3 DEF TInv, LoopInv
<1>5. AgeInv'
  <2>1. Waited' = Waited
    BY <1>2 DEF Waited
  <2>2. \A u \in Flying' : u # v /\ u \in Flying
    BY <1>3 DEF Flying
  <2> QED
    BY <1>3, <2>1, <2>2 DEF AgeInv, TInv, Flying
<1>6. ChurnInv'
  BY <1>2, <1>3 DEF ChurnInv, TInv
<1>7. ResidentInv' /\ PlanInv'
  BY <1>1, <1>2, <1>3, TilesKept
<1> QED
  BY <1>1, <1>4, <1>5, <1>6, <1>7 DEF TInv

LEMMA PathCheckKeeps ==
  ASSUME TInv, NEW path \in Paths, PathCheck(path), UNCHANGED cookerVars PROVE TInv'
<1>1. CookInv' /\ args' = args /\ index' = index /\ cook_pc' = cook_pc
  BY CookInvKept DEF TInv, cookerVars
<1> DEFINE waypoints == Range(parse_waypoints(path))
           points == Interest(waypoints)
<1>2. /\ UNCHANGED <<loop, tick, last_stream_tick, fleet>>
      /\ loop = "commands" /\ ApplyTilePlan(points)
      /\ checked' = IF Flying = {} THEN waypoints ELSE {}
  BY Zenon DEF PathCheck
<1>3. points \in SUBSET Vector /\ Positions \subseteq points
  BY WaypointsParse, PositionsAreVectors DEF Interest, TInv
<1>4. Flying = {} => points = waypoints
  BY DEF Interest, Positions
<1>5. cook_pc = "done" /\ UNCHANGED <<cookerVars, fleet>>
  BY <1>2 DEF TInv, LoopInv
<1> HIDE DEF waypoints, points
<1>6. /\ resident' = Desired(points) /\ ResidentInv' /\ PlanInv'
      /\ \A v \in Flying : age'[v] = 0
      /\ age' \in [Vehicles -> Nat] /\ seen_at' \in [Vehicles -> Places \cup {Nowhere}]
      /\ \A v \in Vehicles : fleet[v] = Nowhere => seen_at'[v] = Nowhere
  BY <1>2, <1>3, <1>5, PlanApplied
<1>7. Flying' = Flying
  BY <1>2 DEF Flying
<1>8. LoopInv'
  BY <1>1, <1>2, <1>6, <1>7 DEF TInv, LoopInv
<1>9. AgeInv'
  <2>1. Waited' \in Nat
    BY <1>2, WaitedRange DEF Waited, TInv
  <2> QED
    BY <1>6, <1>7, <2>1 DEF AgeInv
<1>10. ChurnInv'
  <2>1. \A S : Desired(S)' = Desired(S)
    BY <1>1 DEF Desired, InRange, Before, Best, distance_to_tile, Tiles
  <2> QED
    BY <1>2, <1>4, <1>6, <1>7, <2>1 DEF ChurnInv
<1> QED
  BY <1>1, <1>6, <1>8, <1>9, <1>10 DEF TInv

LEMMA StreamTilesKeeps ==
  ASSUME TInv, StreamTiles, UNCHANGED cookerVars PROVE TInv'
<1>1. CookInv' /\ args' = args /\ index' = index /\ cook_pc' = cook_pc
  BY CookInvKept DEF TInv, cookerVars
<1>2. /\ UNCHANGED <<tick, fleet>> /\ last_stream_tick' = tick
      /\ loop = "stream" /\ loop' = "step" /\ ApplyTilePlan(Positions)
      /\ Flying # {} /\ checked' = {}
  BY DEF StreamTiles, StreamDue
<1>3. Positions \in SUBSET Vector /\ cook_pc = "done"
  BY <1>2, PositionsAreVectors DEF TInv, LoopInv
<1>4. /\ ResidentInv' /\ PlanInv'
      /\ \A v \in Flying : age'[v] = 0
      /\ age' \in [Vehicles -> Nat] /\ seen_at' \in [Vehicles -> Places \cup {Nowhere}]
      /\ \A v \in Vehicles : fleet[v] = Nowhere => seen_at'[v] = Nowhere
  BY <1>2, <1>3, PlanApplied
<1>5. Flying' = Flying
  BY <1>2 DEF Flying
<1>6. LoopInv'
  BY <1>1, <1>2, <1>3, <1>4, <1>5 DEF TInv, LoopInv
<1>7. AgeInv' /\ ChurnInv'
  <2>1. Waited' \in Nat
    BY <1>2, NextPlace DEF Waited, TInv, LoopInv
  <2> QED
    BY <1>2, <1>4, <1>5, <2>1 DEF AgeInv, ChurnInv
<1> QED
  BY <1>1, <1>4, <1>6, <1>7 DEF TInv

(* Where the loop is, and nothing else that the tiles depend on. *)
LEMMA LoopKeeps ==
  ASSUME TInv, Drained \/ NothingToStream \/ Stall, UNCHANGED cookerVars PROVE TInv'
<1>1. CookInv' /\ args' = args /\ index' = index /\ cook_pc' = cook_pc
  BY CookInvKept DEF TInv, cookerVars
<1>2. /\ UNCHANGED <<tick, last_stream_tick, fleet, resident, tile_world_ids, nodes>>
      /\ UNCHANGED <<peak, reach, seen_at, age, checked>>
      /\ \/ loop = "commands" /\ loop' = "stream"
         \/ loop = "stream" /\ loop' = "step" /\ ~StreamDue
         \/ loop = "step" /\ loop' = "commands"
  BY DEF Drained, NothingToStream, Stall, history
<1>3. Flying' = Flying
  BY <1>2 DEF Flying
<1>4. LoopInv'
  BY <1>1, <1>2, <1>3 DEF TInv, LoopInv
<1>5. AgeInv'
  <2>1. tick % Period \in 0 .. Period - 1 /\ Period \in Nat
    BY NextPlace DEF TInv, LoopInv
  <2>2. Flying # {} => Waited <= Waited' /\ Waited \in Nat /\ Waited' \in Nat
    BY <1>2, <2>1 DEF Waited, StreamDue
  <2>3. \A v \in Flying : age[v] <= Waited /\ age[v] \in Nat
    BY DEF TInv, AgeInv, LoopInv, Flying
  <2> QED
    BY <1>2, <1>3, <2>2, <2>3 DEF AgeInv
<1>6. ResidentInv' /\ PlanInv' /\ \A points : Desired(points)' = Desired(points)
  BY <1>1, <1>2, TilesKept
<1>7. ChurnInv'
  BY <1>2, <1>3, <1>6 DEF ChurnInv, TInv
<1> QED
  BY <1>1, <1>4, <1>5, <1>6, <1>7 DEF TInv

(* The tick after a period's last one finds the tiles due again. *)
LEMMA StepKeeps == ASSUME TInv, Step, UNCHANGED cookerVars PROVE TInv'
<1>1. CookInv' /\ args' = args /\ index' = index /\ cook_pc' = cook_pc
  BY CookInvKept DEF TInv, cookerVars
<1>2. /\ UNCHANGED <<last_stream_tick, resident, tile_world_ids, peak, reach, seen_at, checked>>
      /\ loop = "step" /\ loop' = "commands" /\ tick' = tick + 1
      /\ nodes' = Cardinality(tile_world_ids)
      /\ age' = [v \in Vehicles |-> IF v \in Flying THEN age[v] + 1 ELSE 0]
  BY DEF Step
<1>3. PICK moved \in [Flying -> Places] :
        fleet' = [v \in Vehicles |-> IF v \in Flying THEN moved[v] ELSE Nowhere]
  BY DEF Step
<1>4. /\ \A v \in Vehicles : fleet'[v] = IF v \in Flying THEN moved[v] ELSE Nowhere
      /\ \A v \in Vehicles : age'[v] = IF v \in Flying THEN age[v] + 1 ELSE 0
      /\ \A v \in Flying : moved[v] \in Places /\ moved[v] # Nowhere
  BY <1>2, <1>3, NowhereIsNoPlace
<1>5. Flying' = Flying
  BY <1>4 DEF Flying
<1>6. LoopInv'
  <2>1. /\ tick' \in Nat /\ last_stream_tick' \in Int /\ last_stream_tick' <= tick'
        /\ cook_pc = "done"
    BY <1>2 DEF TInv, LoopInv
  <2>2. fleet' \in [Vehicles -> Places \cup {Nowhere}]
    BY <1>3, <1>4
  <2>3. age' \in [Vehicles -> Nat]
    BY <1>2 DEF TInv, LoopInv
  <2>4. \A v \in Vehicles : fleet'[v] = Nowhere => seen_at'[v] = Nowhere
    BY <1>2, <1>4 DEF TInv, LoopInv, Flying
  <2> QED
    BY <1>1, <1>2, <2>1, <2>2, <2>3, <2>4 DEF TInv, LoopInv
<1>7. AgeInv'
  <2>1. /\ tick % Period \in 0 .. Period - 1 /\ Period \in Nat
        /\ \/ (tick + 1) % Period = (tick % Period) + 1
           \/ (tick + 1) % Period = 0 /\ tick % Period = Period - 1
    BY NextPlace DEF TInv, LoopInv
  <2>2. Waited = tick % Period
    BY <1>2 DEF Waited
  <2>3. last_stream_tick' # tick'
    BY <1>2 DEF TInv, LoopInv
  <2>4. Waited' = IF (tick + 1) % Period = 0 THEN Period ELSE (tick + 1) % Period
    BY <1>2, <2>3 DEF Waited
  <2>5. Waited' = (tick % Period) + 1
    BY <2>1, <2>4
  <2>6. \A v \in Flying : age[v] <= Waited /\ age[v] \in Nat /\ v \in Vehicles
    BY DEF TInv, AgeInv, LoopInv, Flying
  <2>7. \A v \in Flying : age'[v] = age[v] + 1
    BY <1>4, <2>6
  <2> QED
    BY <1>5, <2>1, <2>2, <2>5, <2>6, <2>7 DEF AgeInv
<1>8. ChurnInv'
  <2>1. \A S : Desired(S)' = Desired(S)
    BY <1>1 DEF Desired, InRange, Before, Best, distance_to_tile, Tiles
  <2> QED
    BY <1>2, <1>5, <2>1 DEF ChurnInv, TInv
<1>9. ResidentInv'
  <2>1. tile_world_ids \in SUBSET resident
    BY DEF TInv, ResidentInv
  <2>2. Cardinality(tile_world_ids) \in 0 .. MaxResident
    BY <2>1, FS_Subset, FS_CardinalityType DEF TInv, ResidentInv
  <2> QED
    BY <1>2, <2>2 DEF TInv, ResidentInv
<1>10. PlanInv'
  <2>1. PICK points \in SUBSET Vector : Planned(points)
    BY DEF TInv, PlanInv
  <2>2. /\ Reach(points, resident)' = Reach(points, resident)
        /\ Desired(points)' = Desired(points)
    BY <1>1, <1>2 DEF Reach, Desired, InRange, Before, Best, distance_to_tile, Tiles
  <2>3. Planned(points)'
    BY <1>2, <2>1, <2>2 DEF Planned
  <2> QED
    BY <2>3 DEF PlanInv
<1> QED
  BY <1>1, <1>6, <1>7, <1>8, <1>9, <1>10 DEF TInv

LEMMA StutterKeeps == ASSUME TInv, UNCHANGED vars PROVE TInv'
<1>1. CookInv' /\ args' = args /\ index' = index /\ cook_pc' = cook_pc
  BY CookInvKept DEF TInv, vars, cookerVars
<1>2. /\ UNCHANGED <<loop, tick, last_stream_tick, fleet, resident, tile_world_ids, nodes>>
      /\ UNCHANGED <<peak, reach, seen_at, age, checked>>
  BY DEF vars, streamVars, history
<1>3. Flying' = Flying /\ Waited' = Waited
  BY <1>2 DEF Flying, Waited
<1>4. LoopInv' /\ AgeInv'
  BY <1>1, <1>2, <1>3 DEF TInv, LoopInv, AgeInv
<1>5. ResidentInv' /\ PlanInv' /\ \A points : Desired(points)' = Desired(points)
  BY <1>1, <1>2, TilesKept
<1>6. ChurnInv'
  BY <1>2, <1>3, <1>5 DEF ChurnInv, TInv
<1> QED
  BY <1>1, <1>4, <1>5, <1>6 DEF TInv

LEMMA NextTInv == ASSUME TInv, [Next]_vars PROVE TInv'
<1>1. CASE Cook /\ UNCHANGED streamVars
  BY <1>1, CookKeepsTInv
<1>2. CASE Simulator /\ UNCHANGED cookerVars
  <2>1. CASE StartStreamer
    BY <1>2, <2>1, StartStreamerKeeps
  <2>2. CASE \E v \in Vehicles : Despawn(v) \/ \E p \in Places : Spawn(v, p)
    BY <1>2, <2>2, DespawnKeeps, SpawnKeeps
  <2>3. CASE \E path \in Paths : PathCheck(path)
    BY <1>2, <2>3, PathCheckKeeps
  <2>4. CASE StreamTiles
    BY <1>2, <2>4, StreamTilesKeeps
  <2>5. CASE Drained \/ NothingToStream \/ Stall
    BY <1>2, <2>5, LoopKeeps
  <2>6. CASE Step
    BY <1>2, <2>6, StepKeeps
  <2> QED
    BY <1>2, <2>1, <2>2, <2>3, <2>4, <2>5, <2>6 DEF Simulator
<1>3. CASE UNCHANGED vars
  BY <1>3, StutterKeeps
<1> QED
  BY <1>1, <1>2, <1>3 DEF Next

LEMMA TInvHolds == Spec => []TInv
<1>1. Init => TInv
  BY InitTInv
<1>2. TInv /\ [Next]_vars => TInv'
  BY NextTInv
<1> QED
  BY <1>1, <1>2, PTL DEF Spec

-----------------------------------------------------------------------------
(* Whenever a vehicle comes, moves or spawns, and wherever the loop        *)
(* stalls, it flies at most a period on tiles that were not chosen for it. *)
THEOREM TilesComeInTime == Spec => []StreamedInTime
<1>1. TInv => StreamedInTime
  <2> SUFFICES ASSUME TInv, NEW v \in Flying PROVE age[v] <= Period
    BY DEF StreamedInTime
  <2>1. age[v] <= Waited /\ age[v] \in Nat
    BY DEF TInv, AgeInv, LoopInv, Flying
  <2>2. Waited \in 0 .. Period
    BY WaitedRange DEF TInv
  <2> QED
    BY <2>1, <2>2
<1> QED
  BY <1>1, TInvHolds, PTL

(* With nobody flying, the tiles of the path that was checked last stay as *)
(* they are: no evaluation of an empty fleet comes between two checks.     *)
THEOREM ChecksDoNotChurn == Spec => []NoChurn
<1>1. TInv => NoChurn
  BY DEF TInv, ChurnInv, NoChurn
<1> QED
  BY <1>1, TInvHolds, PTL

(* The broadphase holds two full sets of tiles at most, however many plans *)
(* are applied between two steps of the world.                             *)
THEOREM PlansFitBroadphase == Spec => []NodesBounded
<1>1. TInv => NodesBounded
  BY DEF TInv, ResidentInv, NodesBounded
<1> QED
  BY <1>1, TInvHolds, PTL

(* What cooks has the extent of its vertices, if it has no spare ones. *)
LEMMA ExtentIsSpan ==
  ASSUME EveryVertexUsed, NEW list \in Inputs, NEW k \in DOMAIN list, Cooks(list[k].obj)
  PROVE  LET obj == list[k].obj
             tris == Mesh(obj).tris
         IN /\ Extent(tris, 1) = Span(obj, 2) /\ Extent(tris, 2) = Span(obj, 3)
            /\ Extent(tris, 3) = Span(obj, 1)
<1> DEFINE obj == list[k].obj
           tris == Mesh(obj).tris
<1>1. Corners(obj) = {enu_to_jolt(obj[n].at) : n \in VertexLines(obj)}
  BY DEF EveryVertexUsed
<1> HIDE DEF obj
<1>2. \A j : Extent(tris, j) = {c[j] : c \in Corners(obj)}
  BY DEF Extent, Corners
<1> HIDE DEF tris
<1>3. \A n : /\ enu_to_jolt(obj[n].at)[1] = obj[n].at[2]
             /\ enu_to_jolt(obj[n].at)[2] = obj[n].at[3]
             /\ enu_to_jolt(obj[n].at)[3] = obj[n].at[1]
  BY DEF enu_to_jolt
<1>4. \A j : Extent(tris, j) = {enu_to_jolt(obj[n].at)[j] : n \in VertexLines(obj)}
  BY <1>1, <1>2
<1>5. /\ Extent(tris, 1) = Span(obj, 2) /\ Extent(tris, 2) = Span(obj, 3)
      /\ Extent(tris, 3) = Span(obj, 1)
  BY <1>3, <1>4 DEF Span
<1> QED
  BY <1>5 DEF obj, tris

LEMMA BoxIsSpan ==
  ASSUME EveryVertexUsed, NEW list \in Inputs, NEW k \in DOMAIN list, Cooks(list[k].obj)
  PROVE  LET obj == list[k].obj
             box == CookResult(Mesh(obj).tris)
         IN /\ box.lo[1] = Min(Span(obj, 2)) /\ box.lo[2] = Min(Span(obj, 1))
            /\ box.hi[1] = Max(Span(obj, 2)) /\ box.hi[2] = Max(Span(obj, 1))
<1> DEFINE obj == list[k].obj
           tris == Mesh(obj).tris
<1>1. IsFiniteSet(tris) /\ tris \in SUBSET (Vector \X Vector \X Vector) /\ tris # {}
  BY InputsAssumption DEF Cooks
<1>2. Extent(tris, 1) = Span(obj, 2) /\ Extent(tris, 3) = Span(obj, 1)
  BY ExtentIsSpan
<1> HIDE DEF obj, tris
<1>3. /\ CookResult(tris).lo[1] = Min(Extent(tris, 1)) /\ CookResult(tris).lo[2] = Min(Extent(tris, 3))
      /\ CookResult(tris).hi[1] = Max(Extent(tris, 1)) /\ CookResult(tris).hi[2] = Max(Extent(tris, 3))
  BY <1>1, BoxInNed
<1> QED
  BY <1>2, <1>3 DEF obj, tris

(* A building of the map has an entry in the index, and is as far from a   *)
(* point as its tile is.                                                   *)
LEMMA TileOfBuilding ==
  ASSUME EveryVertexUsed, CookInv, cook_pc = "done", NEW i \in DOMAIN args
  PROVE  /\ Tiles = DOMAIN args /\ i \in Tiles
         /\ Cooks(args[i].obj) /\ index[i].file = args[i].stem
         /\ \A p : distance_to_tile(p, i) = Away(p, args[i].obj)
<1> DEFINE obj == args[i].obj
           box == CookResult(Mesh(obj).tris)
<1>1. /\ args \in Inputs /\ index = entries /\ Len(entries) = Len(args)
      /\ entries \in Seq(CookedTiles)
  BY DEF CookInv
<1>2. i \in 1 .. Len(entries) /\ i \in Tiles /\ Tiles = DOMAIN args
  BY <1>1, ArgsAreList DEF Tiles
<1>3. Cooks(obj) /\ index[i] = Cooked(args[i])
  BY <1>1, <1>2 DEF CookInv
<1>4. index[i].lo = box.lo /\ index[i].hi = box.hi /\ index[i].file = args[i].stem
  BY <1>3 DEF Cooked
<1>5. /\ box.lo[1] = Min(Span(obj, 2)) /\ box.lo[2] = Min(Span(obj, 1))
      /\ box.hi[1] = Max(Span(obj, 2)) /\ box.hi[2] = Max(Span(obj, 1))
  BY <1>1, <1>3, BoxIsSpan
<1> HIDE DEF obj, box
<1>6. \A p : distance_to_tile(p, i) = Away(p, obj)
  BY <1>4, <1>5 DEF distance_to_tile, Away
<1> QED
  BY <1>2, <1>3, <1>4, <1>6 DEF obj

LEMMA MaxAtMost ==
  ASSUME NEW S \in SUBSET Nat, IsFiniteSet(S), NEW d \in Nat, \A x \in S : x <= d
  PROVE  Max({0} \cup S) <= d
<1>1. IsFiniteSet({0} \cup S)
  BY FS_Singleton, FS_Union
<1>2. {0} \cup S \in SUBSET Int /\ {0} \cup S # {} /\ \A x \in {0} \cup S : x <= d
  OBVIOUS
<1>3. Max({0} \cup S) \in {0} \cup S
  BY <1>1, <1>2, MinAndMax
<1> QED
  BY <1>2, <1>3

(* How far the chosen tiles reach, by the distances they were chosen by. *)
LEMMA ReachOfPlan ==
  ASSUME EveryVertexUsed, CookInv, cook_pc = "done",
         NEW points \in SUBSET Vector, points # {},
         NEW chosen \in SUBSET Tiles, IsFiniteSet(chosen), chosen \in SUBSET DOMAIN args,
         NEW d \in Nat, \A t \in chosen : Best(points, t) <= d
  PROVE  Reach(points, chosen) <= d
<1> DEFINE S == {Best(points, t) : t \in chosen}
           f == [t \in chosen |-> Best(points, t)]
<1>1. IndexOK
  BY CookedIndex
<1>2. S \in SUBSET Nat /\ \A x \in S : x <= d
  BY <1>1, BestIsNearest
<1>3. IsFiniteSet(S)
  <2>1. f \in Surjection(chosen, S)
    BY DEF Surjection
  <2> HIDE DEF f, S
  <2> QED
    BY <2>1, FS_Surjection
<1>4. Reach(points, chosen) = Max({0} \cup S)
  <2>1. \A t \in chosen : \A p : Away(p, args[t].obj) = distance_to_tile(p, t)
    BY TileOfBuilding
  <2>2. \A t \in chosen : {Away(p, args[t].obj) : p \in points}
                         = {distance_to_tile(p, t) : p \in points}
    BY <2>1
  <2>3. \A t \in chosen : Min({Away(p, args[t].obj) : p \in points}) = Best(points, t)
    BY <2>2 DEF Best
  <2> HIDE DEF f
  <2>4. {Min({Away(p, args[t].obj) : p \in points}) : t \in chosen} = S
    BY <2>3, Zenon
  <2> QED
    BY <2>4, Zenon DEF Reach
<1> HIDE DEF S, f
<1> QED
  BY <1>2, <1>3, <1>4, MaxAtMost

(* A building of the map that was near a vehicle when the tiles were last  *)
(* chosen is resident, or the bound is full of others that are no further  *)
(* from what they were chosen for: distances are measured in NED to the    *)
(* box of a mesh that was read in ENU, for maps without vertices that no   *)
(* face names.                                                             *)
THEOREM NearestAreKept == ASSUME EveryVertexUsed PROVE Spec => []NearTilesKept
<1>1. TInv => NearTilesKept
  <2> SUFFICES ASSUME TInv, loop \notin {"cook", "exit"},
                      NEW v \in Vehicles, NEW i \in DOMAIN args,
                      seen_at[v] # Nowhere, Near(seen_at[v], args[i].obj), i \notin resident
               PROVE  CrowdedOut(v, i)
    BY DEF NearTilesKept
  <2>1. CookInv /\ cook_pc = "done" /\ IndexOK
    BY CookedIndex DEF TInv, LoopInv
  <2>2. /\ Tiles = DOMAIN args /\ i \in Tiles
        /\ distance_to_tile(seen_at[v], i) = Away(seen_at[v], args[i].obj)
    BY <2>1, TileOfBuilding
  <2>3. Away(seen_at[v], args[i].obj) <= KeepRadius * KeepRadius
    BY DEF Near
  <2>4. PICK points \in SUBSET Vector :
          /\ resident = Desired(points) /\ reach = Reach(points, resident)
          /\ seen_at[v] \in points
    BY DEF TInv, PlanInv, Planned
  <2>5. /\ Best(points, i) \in Nat /\ distance_to_tile(seen_at[v], i) \in Nat
        /\ Best(points, i) <= distance_to_tile(seen_at[v], i)
    BY <2>1, <2>2, <2>4, BestIsNearest, DistanceIsNat
  <2>6. i \in InRange(points) \ Desired(points)
    <3>1. KeepRadius * KeepRadius \in Nat
      BY SquareIsNat
    <3>2. Best(points, i) <= KeepRadius * KeepRadius
      BY <2>2, <2>3, <2>5, <3>1
    <3> QED
      BY <2>2, <2>4, <3>2 DEF InRange
  <2>7. /\ Cardinality(resident) = MaxResident
        /\ \A t \in resident : Best(points, t) <= Best(points, i)
        /\ IsFiniteSet(resident) /\ resident \in SUBSET Tiles
    BY <2>1, <2>4, <2>6, PlanIsNearest, RangeIsFinite
  <2>8. \A t \in resident : Best(points, t) <= distance_to_tile(seen_at[v], i)
    BY <2>1, <2>4, <2>5, <2>7, BestIsNearest
  <2>9. reach <= distance_to_tile(seen_at[v], i)
    BY <2>1, <2>2, <2>4, <2>5, <2>7, <2>8, ReachOfPlan
  <2> QED
    BY <2>2, <2>7, <2>9 DEF CrowdedOut
<1> QED
  BY <1>1, TInvHolds, PTL

-----------------------------------------------------------------------------
(* What cook_obj_tile reads: Mesh, line by line.                           *)
EmptyMesh == [ok |-> TRUE, verts |-> <<>>, tris |-> {}]

ReadUpTo(read, obj, n) ==
  read = [i \in 0 .. n |-> IF i = 0 THEN EmptyMesh ELSE ReadLine(read[i - 1], obj[i])]

LEMMA ReadExists ==
  ASSUME NEW obj, Len(obj) \in Nat
  PROVE  \E read : ReadUpTo(read, obj, Len(obj))
<1> DEFINE S == {n \in 0 .. Len(obj) : \E read : ReadUpTo(read, obj, n)}
<1>1. 0 \in S
  <2>1. ReadUpTo([i \in 0 .. 0 |-> EmptyMesh], obj, 0)
    BY DEF ReadUpTo
  <2> QED
    BY <2>1
<1>2. ASSUME NEW k \in 0 .. Len(obj) - 1, k \in S PROVE k + 1 \in S
  <2>1. PICK read : ReadUpTo(read, obj, k)
    BY <1>2
  <2> DEFINE more == [i \in 0 .. k + 1 |-> IF i <= k THEN read[i] ELSE ReadLine(read[k], obj[k + 1])]
  <2>2. /\ \A i \in 0 .. k : more[i] = read[i]
        /\ more[k + 1] = ReadLine(read[k], obj[k + 1])
        /\ more = [i \in 0 .. k + 1 |-> more[i]]
    OBVIOUS
  <2>3. /\ read[0] = EmptyMesh
        /\ \A i \in 1 .. k : read[i] = ReadLine(read[i - 1], obj[i])
    BY <2>1 DEF ReadUpTo
  <2> HIDE DEF more
  <2>4. ASSUME NEW i \in 0 .. k + 1
        PROVE  more[i] = IF i = 0 THEN EmptyMesh ELSE ReadLine(more[i - 1], obj[i])
    <3>1. CASE i = 0
      <4>1. 0 \in 0 .. k
        OBVIOUS
      <4>2. more[0] = EmptyMesh
        BY <2>2, <2>3, <4>1
      <4> QED
        BY <3>1, <4>2
    <3>2. CASE i = k + 1
      <4>1. i - 1 = k /\ k \in 0 .. k /\ i # 0
        BY <3>2
      <4> QED
        BY <2>2, <3>2, <4>1
    <3>3. CASE i # k + 1 /\ i # 0
      <4>1. i \in 1 .. k /\ i \in 0 .. k /\ i - 1 \in 0 .. k
        BY <3>3
      <4> QED
        BY <2>2, <2>3, <3>3, <4>1
    <3> QED
      BY <3>1, <3>2, <3>3
  <2>5. ReadUpTo(more, obj, k + 1)
    BY <2>2, <2>4 DEF ReadUpTo
  <2> QED
    BY <2>5
<1>3. \A k \in 0 .. Len(obj) : k \in S
  <2> HIDE DEF S
  <2> QED
    BY <1>1, <1>2, InductionUpTo
<1> QED
  BY <1>3

LEMMA MeshReads ==
  ASSUME NEW obj, Len(obj) \in Nat
  PROVE  \E read : /\ read[0] = EmptyMesh
                   /\ \A k \in 0 .. Len(obj) - 1 : read[k + 1] = ReadLine(read[k], obj[k + 1])
                   /\ Mesh(obj) = read[Len(obj)]
<1> DEFINE read == CHOOSE read : ReadUpTo(read, obj, Len(obj))
<1>1. ReadUpTo(read, obj, Len(obj))
  BY ReadExists
<1>2. Mesh(obj) = read[Len(obj)]
  BY DEF Mesh, ReadUpTo, EmptyMesh
<1> HIDE DEF read
<1>3. read[0] = EmptyMesh
  BY <1>1 DEF ReadUpTo
<1>4. ASSUME NEW k \in 0 .. Len(obj) - 1 PROVE read[k + 1] = ReadLine(read[k], obj[k + 1])
  <2>1. k + 1 \in 0 .. Len(obj) /\ k + 1 # 0 /\ k + 1 - 1 = k
    OBVIOUS
  <2>2. read[k + 1] = ReadLine(read[k + 1 - 1], obj[k + 1])
    BY <1>1, <2>1 DEF ReadUpTo
  <2> QED
    BY <2>1, <2>2
<1> QED
  BY <1>2, <1>3, <1>4

(* A line that is read well is a vertex or a face.                         *)
LEMMA LineRead ==
  ASSUME NEW s, DOMAIN s = {"ok", "verts", "tris"}, NEW line
  PROVE  LET r == ReadLine(s, line)
         IN /\ DOMAIN r = {"ok", "verts", "tris"}
            /\ r.ok => /\ s.ok
                       /\ \/ /\ line.op = "v" /\ r.tris = s.tris
                             /\ r.verts = Append(s.verts, enu_to_jolt(line.at))
                          \/ /\ line.op = "f" /\ r.verts = s.verts
                             /\ IsFace(s.verts, line.idx)
                             /\ r.tris = s.tris \cup Fan(s.verts, line.idx)
<1> DEFINE r == ReadLine(s, line)
<1>1. CASE line.op = "v" /\ s.ok /\ line.at # Bad
  <2>1. r = [s EXCEPT !.verts = Append(@, enu_to_jolt(line.at))]
    BY <1>1 DEF ReadLine
  <2> HIDE DEF r
  <2>2. /\ DOMAIN r = DOMAIN s /\ r.tris = s.tris
        /\ r.verts = Append(s.verts, enu_to_jolt(line.at))
    BY <2>1
  <2> QED
    BY <1>1, <2>2 DEF r
<1>2. CASE line.op = "f" /\ s.ok /\ IsFace(s.verts, line.idx)
  <2>1. r = [s EXCEPT !.tris = @ \cup Fan(s.verts, line.idx)]
    BY <1>2 DEF ReadLine
  <2> HIDE DEF r
  <2>2. /\ DOMAIN r = DOMAIN s /\ r.verts = s.verts
        /\ r.tris = s.tris \cup Fan(s.verts, line.idx)
    BY <2>1
  <2> QED
    BY <1>2, <2>2 DEF r
<1>3. CASE /\ ~(line.op = "v" /\ s.ok /\ line.at # Bad)
           /\ ~(line.op = "f" /\ s.ok /\ IsFace(s.verts, line.idx))
  <2>1. r = [s EXCEPT !.ok = FALSE]
    BY <1>3 DEF ReadLine
  <2> HIDE DEF r
  <2>2. DOMAIN r = DOMAIN s /\ ~r.ok
    BY <2>1
  <2> QED
    BY <2>2 DEF r
<1> QED
  BY <1>1, <1>2, <1>3

(* More vertices do not change a face.                                     *)
LEMMA FanKept ==
  ASSUME NEW S, NEW verts \in Seq(S), NEW x \in S, NEW idx \in Seq(Nat), IsFace(verts, idx)
  PROVE  IsFace(Append(verts, x), idx) /\ Fan(Append(verts, x), idx) = Fan(verts, idx)
<1> DEFINE more == Append(verts, x)
<1>1. /\ Len(verts) \in Nat /\ DOMAIN verts = 1 .. Len(verts)
      /\ Len(more) = Len(verts) + 1 /\ DOMAIN more = 1 .. Len(verts) + 1
      /\ \A i \in 1 .. Len(verts) : more[i] = verts[i]
  OBVIOUS
<1> HIDE DEF more
<1>2. Len(idx) \in Nat /\ DOMAIN idx = 1 .. Len(idx)
  OBVIOUS
<1>3. \A k \in 1 .. Len(idx) : idx[k] \in 1 .. Len(verts)
  BY <1>1, <1>2 DEF IsFace
<1>4. IsFace(more, idx)
  BY <1>1, <1>2, <1>3 DEF IsFace
<1>5. \A k \in 2 .. Len(idx) - 1 : k \in 1 .. Len(idx) /\ k + 1 \in 1 .. Len(idx) /\ 1 \in 1 .. Len(idx)
  BY <1>2
<1> DEFINE Old(k) == <<verts[idx[1]], verts[idx[k]], verts[idx[k + 1]]>>
           New(k) == <<more[idx[1]], more[idx[k]], more[idx[k + 1]]>>
           K == 2 .. Len(idx) - 1
<1>6. \A k \in K : New(k) = Old(k)
  BY <1>1, <1>3, <1>5
<1>7. Fan(more, idx) = Fan(verts, idx)
  <2>1. Fan(verts, idx) = {Old(k) : k \in K} /\ Fan(more, idx) = {New(k) : k \in K}
    BY Zenon DEF Fan
  <2> HIDE DEF Old, New, K
  <2> QED
    BY <1>6, <2>1
<1> QED
  BY <1>4, <1>7 DEF more

(* The vertex lines among the first n; how many there are is the number of *)
(* the last one.                                                           *)
Below(obj, n) == {m \in VertexLines(obj) : m <= n}
VerticesUpTo(obj, n) == Cardinality(Below(obj, n))

LEMMA CountGrows ==
  ASSUME NEW obj, obj \in Seq(Range(obj)), NEW n \in 0 .. Len(obj) - 1
  PROVE  /\ VerticesUpTo(obj, n) \in Nat
         /\ obj[n + 1].op = "v" => /\ Below(obj, n + 1) = Below(obj, n) \cup {n + 1}
                                   /\ VerticesUpTo(obj, n + 1) = VerticesUpTo(obj, n) + 1
         /\ obj[n + 1].op # "v" => Below(obj, n + 1) = Below(obj, n)
<1>1. DOMAIN obj = 1 .. Len(obj) /\ Len(obj) \in Nat
  OBVIOUS
<1>2. VertexLines(obj) \in SUBSET (1 .. Len(obj))
  BY <1>1 DEF VertexLines
<1>3. IsFiniteSet(Below(obj, n))
  <2>1. Below(obj, n) \in SUBSET (1 .. Len(obj)) /\ IsFiniteSet(1 .. Len(obj))
    BY <1>1, <1>2, FS_Interval DEF Below
  <2> QED
    BY <2>1, FS_Subset
<1>4. VerticesUpTo(obj, n) \in Nat
  BY <1>3, FS_CardinalityType DEF VerticesUpTo
<1>5. \A m \in VertexLines(obj) : m <= n + 1 <=> m <= n \/ m = n + 1
  BY <1>2
<1>6. ASSUME obj[n + 1].op = "v"
      PROVE  Below(obj, n + 1) = Below(obj, n) \cup {n + 1} /\ n + 1 \notin Below(obj, n)
  <2>1. n + 1 \in VertexLines(obj)
    BY <1>1, <1>6 DEF VertexLines
  <2> QED
    BY <1>5, <2>1 DEF Below
<1>7. ASSUME obj[n + 1].op # "v" PROVE Below(obj, n + 1) = Below(obj, n)
  <2>1. n + 1 \notin VertexLines(obj)
    BY <1>7 DEF VertexLines
  <2> QED
    BY <1>5, <2>1 DEF Below
<1>8. ASSUME obj[n + 1].op = "v" PROVE VerticesUpTo(obj, n + 1) = VerticesUpTo(obj, n) + 1
  BY <1>3, <1>6, <1>8, FS_AddElement DEF VerticesUpTo
<1> QED
  BY <1>4, <1>6, <1>7, <1>8

(* After n lines: the vertices are in their places, and the faces so far   *)
(* are in the mesh.                                                        *)
ReadSoFar(s, obj, n) ==
  /\ s.verts \in Seq({enu_to_jolt(obj[m].at) : m \in DOMAIN obj})
  /\ Len(s.verts) = VerticesUpTo(obj, n)
  /\ \A m \in Below(obj, n) : /\ VerticesUpTo(obj, m) \in 1 .. VerticesUpTo(obj, n)
                              /\ s.verts[VerticesUpTo(obj, m)] = enu_to_jolt(obj[m].at)
  /\ \A j \in 1 .. VerticesUpTo(obj, n) : \E m \in Below(obj, n) : VerticesUpTo(obj, m) = j
  /\ \A m \in 1 .. n : obj[m].op = "f" => /\ IsFace(s.verts, obj[m].idx)
                                          /\ Fan(s.verts, obj[m].idx) \subseteq s.tris

LEMMA VertexRead ==
  ASSUME NEW obj, obj \in Seq(Range(obj)), NEW n \in 0 .. Len(obj) - 1,
         \A m \in DOMAIN obj : obj[m].op = "f" => obj[m].idx \in Seq(Nat),
         NEW s, NEW r, ReadSoFar(s, obj, n),
         obj[n + 1].op = "v", r.tris = s.tris,
         r.verts = Append(s.verts, enu_to_jolt(obj[n + 1].at))
  PROVE  ReadSoFar(r, obj, n + 1)
<1> DEFINE S == {enu_to_jolt(obj[m].at) : m \in DOMAIN obj}
           x == enu_to_jolt(obj[n + 1].at)
<1>1. DOMAIN obj = 1 .. Len(obj) /\ Len(obj) \in Nat /\ n + 1 \in DOMAIN obj /\ n \in Nat
  OBVIOUS
<1>2. /\ VerticesUpTo(obj, n) \in Nat /\ VerticesUpTo(obj, n + 1) = VerticesUpTo(obj, n) + 1
      /\ Below(obj, n + 1) = Below(obj, n) \cup {n + 1}
  BY CountGrows
<1>3. x \in S /\ s.verts \in Seq(S) /\ Len(s.verts) = VerticesUpTo(obj, n)
  BY <1>1 DEF ReadSoFar
<1> HIDE DEF S
<1>4. /\ r.verts \in Seq(S) /\ Len(r.verts) = VerticesUpTo(obj, n + 1)
      /\ r.verts[VerticesUpTo(obj, n + 1)] = x
      /\ \A j \in 1 .. VerticesUpTo(obj, n) : r.verts[j] = s.verts[j]
  BY <1>2, <1>3
<1> HIDE DEF x
<1>5. ASSUME NEW m \in Below(obj, n + 1)
      PROVE  /\ VerticesUpTo(obj, m) \in 1 .. VerticesUpTo(obj, n + 1)
             /\ r.verts[VerticesUpTo(obj, m)] = enu_to_jolt(obj[m].at)
  <2>1. CASE m = n + 1
    BY <1>2, <1>4, <2>1 DEF x
  <2>2. CASE m \in Below(obj, n)
    <3>1. VerticesUpTo(obj, m) \in 1 .. VerticesUpTo(obj, n) /\ s.verts[VerticesUpTo(obj, m)] = enu_to_jolt(obj[m].at)
      BY <2>2 DEF ReadSoFar
    <3> QED
      BY <1>2, <1>4, <3>1
  <2> QED
    BY <1>2, <2>1, <2>2
<1>6. ASSUME NEW j \in 1 .. VerticesUpTo(obj, n + 1) PROVE \E m \in Below(obj, n + 1) : VerticesUpTo(obj, m) = j
  <2>1. CASE j = VerticesUpTo(obj, n + 1)
    BY <1>2, <2>1
  <2>2. CASE j # VerticesUpTo(obj, n + 1)
    <3>1. j \in 1 .. VerticesUpTo(obj, n)
      BY <1>2, <2>2
    <3> QED
      BY <1>2, <3>1 DEF ReadSoFar
  <2> QED
    BY <2>1, <2>2
<1>7. ASSUME NEW m \in 1 .. n + 1, obj[m].op = "f"
      PROVE  IsFace(r.verts, obj[m].idx) /\ Fan(r.verts, obj[m].idx) \subseteq r.tris
  <2>1. m \in 1 .. n /\ m \in DOMAIN obj
    BY <1>1, <1>7
  <2>2. IsFace(s.verts, obj[m].idx) /\ Fan(s.verts, obj[m].idx) \subseteq r.tris
    BY <1>7, <2>1 DEF ReadSoFar
  <2>3. obj[m].idx \in Seq(Nat)
    BY <1>7, <2>1
  <2>4. /\ IsFace(Append(s.verts, x), obj[m].idx)
        /\ Fan(Append(s.verts, x), obj[m].idx) = Fan(s.verts, obj[m].idx)
    BY <1>3, <2>2, <2>3, FanKept
  <2> QED
    BY <2>2, <2>4 DEF x
<1> QED
  BY <1>4, <1>5, <1>6, <1>7 DEF ReadSoFar, S

LEMMA FaceRead ==
  ASSUME NEW obj, obj \in Seq(Range(obj)), NEW n \in 0 .. Len(obj) - 1,
         NEW s, NEW r, ReadSoFar(s, obj, n),
         obj[n + 1].op = "f", r.verts = s.verts, IsFace(s.verts, obj[n + 1].idx),
         r.tris = s.tris \cup Fan(s.verts, obj[n + 1].idx)
  PROVE  ReadSoFar(r, obj, n + 1)
<1>1. Below(obj, n + 1) = Below(obj, n) /\ VerticesUpTo(obj, n + 1) = VerticesUpTo(obj, n)
  <2>1. obj[n + 1].op # "v"
    OBVIOUS
  <2> QED
    BY <2>1, CountGrows DEF VerticesUpTo
<1>2. ASSUME NEW m \in 1 .. n + 1, obj[m].op = "f"
      PROVE  IsFace(r.verts, obj[m].idx) /\ Fan(r.verts, obj[m].idx) \subseteq r.tris
  <2>1. CASE m = n + 1
    BY <2>1
  <2>2. CASE m # n + 1
    <3>1. m \in 1 .. n
      BY <2>2
    <3> QED
      BY <1>2, <3>1 DEF ReadSoFar
  <2> QED
    BY <2>1, <2>2
<1> QED
  BY <1>1, <1>2 DEF ReadSoFar

(* The mesh of a tile that cooks has its faces, whatever lines come between*)
(* a vertex and the face that names it.                                    *)
LEMMA AllRead ==
  ASSUME NEW list \in Inputs, NEW i \in DOMAIN list, Cooks(list[i].obj)
  PROVE  ReadSoFar(Mesh(list[i].obj), list[i].obj, Len(list[i].obj))
<1> DEFINE obj == list[i].obj
<1>1. /\ obj \in Seq(Range(obj)) /\ Mesh(obj).ok
      /\ \A m \in DOMAIN obj : obj[m].op = "f" => obj[m].idx \in Seq(Nat)
  BY InputsAssumption DEF Cooks
<1> HIDE DEF obj
<1>2. Len(obj) \in Nat /\ DOMAIN obj = 1 .. Len(obj)
  BY <1>1
<1>3. PICK read : /\ read[0] = EmptyMesh
                  /\ \A k \in 0 .. Len(obj) - 1 : read[k + 1] = ReadLine(read[k], obj[k + 1])
                  /\ Mesh(obj) = read[Len(obj)]
  BY <1>2, MeshReads
<1> DEFINE Fields == {"ok", "verts", "tris"}
           S == {n \in 0 .. Len(obj) :
                   DOMAIN read[n] = Fields /\ (read[n].ok => ReadSoFar(read[n], obj, n))}
<1>4. 0 \in S
  <2>1. DOMAIN read[0] = Fields /\ read[0].verts = <<>>
    BY <1>3 DEF EmptyMesh
  <2>2. VertexLines(obj) \in SUBSET Nat /\ \A m \in VertexLines(obj) : m >= 1
    BY <1>2 DEF VertexLines
  <2>3. Below(obj, 0) = {}
    BY <2>2 DEF Below
  <2>4. VerticesUpTo(obj, 0) = 0
    BY <2>3, FS_EmptySet DEF VerticesUpTo
  <2>5. ReadSoFar(read[0], obj, 0)
    BY <2>1, <2>3, <2>4 DEF ReadSoFar
  <2> QED
    BY <1>2, <2>1, <2>5
<1>5. ASSUME NEW k \in 0 .. Len(obj) - 1, k \in S PROVE k + 1 \in S
  <2> DEFINE s == read[k]
             line == obj[k + 1]
             r == read[k + 1]
  <2>1. r = ReadLine(s, line) /\ DOMAIN s = Fields /\ (s.ok => ReadSoFar(s, obj, k))
    BY <1>3, <1>5
  <2> HIDE DEF s, r
  <2>2. /\ DOMAIN r = Fields
        /\ r.ok => /\ s.ok
                   /\ \/ /\ line.op = "v" /\ r.tris = s.tris
                         /\ r.verts = Append(s.verts, enu_to_jolt(line.at))
                      \/ /\ line.op = "f" /\ r.verts = s.verts
                         /\ IsFace(s.verts, line.idx)
                         /\ r.tris = s.tris \cup Fan(s.verts, line.idx)
    BY <2>1, LineRead
  <2>3. ASSUME r.ok PROVE ReadSoFar(r, obj, k + 1)
    <3>1. ReadSoFar(s, obj, k)
      BY <2>1, <2>2, <2>3
    <3>2. CASE /\ line.op = "v" /\ r.tris = s.tris
               /\ r.verts = Append(s.verts, enu_to_jolt(line.at))
      BY <1>1, <3>1, <3>2, VertexRead
    <3>3. CASE /\ line.op = "f" /\ r.verts = s.verts /\ IsFace(s.verts, line.idx)
               /\ r.tris = s.tris \cup Fan(s.verts, line.idx)
      BY <1>1, <3>1, <3>3, FaceRead
    <3> QED
      BY <2>2, <2>3, <3>2, <3>3
  <2>4. k + 1 \in 0 .. Len(obj)
    BY <1>2
  <2> QED
    BY <2>2, <2>3, <2>4 DEF r
<1>6. \A k \in 0 .. Len(obj) : k \in S
  <2> HIDE DEF S
  <2> QED
    BY <1>2, <1>4, <1>5, InductionUpTo
<1> QED
  BY <1>1, <1>2, <1>3, <1>6 DEF obj

LEMMA FacesInMesh ==
  ASSUME NEW list \in Inputs, NEW i \in DOMAIN list, Cooks(list[i].obj),
         NEW n \in DOMAIN list[i].obj, list[i].obj[n].op = "f",
         NEW k \in 2 .. Len(list[i].obj[n].idx) - 1
  PROVE  LET obj == list[i].obj
             Corner(j) == VertexAt(obj, obj[n].idx[j])
         IN <<enu_to_jolt(Corner(1)), enu_to_jolt(Corner(k)), enu_to_jolt(Corner(k + 1))>>
              \in Mesh(obj).tris
<1> DEFINE obj == list[i].obj
           idx == obj[n].idx
           s == Mesh(obj)
<1>1. ReadSoFar(s, obj, Len(obj))
  BY AllRead
<1>2. obj \in Seq(Range(obj)) /\ idx \in Seq(Nat)
  BY InputsAssumption
<1> HIDE DEF s, obj
<1>3. /\ n \in 1 .. Len(obj) /\ obj[n].op = "f" /\ k \in 2 .. Len(idx) - 1 /\ Len(obj) \in Nat
      /\ Len(idx) \in Nat /\ DOMAIN idx = 1 .. Len(idx) /\ DOMAIN obj = 1 .. Len(obj)
  <2>1. n \in DOMAIN obj /\ obj[n].op = "f" /\ k \in 2 .. Len(idx) - 1
    BY Zenon DEF obj
  <2> HIDE DEF idx
  <2> QED
    BY <1>2, <2>1
<1>4. /\ IsFace(s.verts, idx) /\ Fan(s.verts, idx) \subseteq s.tris
      /\ Len(s.verts) = VerticesUpTo(obj, Len(obj)) /\ DOMAIN s.verts = 1 .. Len(s.verts)
  BY <1>1, <1>3 DEF ReadSoFar
<1>5. ASSUME NEW j \in 1 .. Len(s.verts) PROVE s.verts[j] = enu_to_jolt(VertexAt(obj, j))
  <2> DEFINE Is(m) == Cardinality({l \in VertexLines(obj) : l <= m}) = j
             m == CHOOSE m \in VertexLines(obj) : Is(m)
  <2>1. \E l \in VertexLines(obj) : Is(l)
    BY <1>1, <1>4 DEF ReadSoFar, VerticesUpTo, Below
  <2>2. m \in VertexLines(obj) /\ Is(m)
    BY <2>1
  <2>3. VertexAt(obj, j) = obj[m].at
    BY DEF VertexAt
  <2> HIDE DEF m
  <2>4. m \in Below(obj, Len(obj)) /\ VerticesUpTo(obj, m) = j
    BY <1>3, <2>2 DEF Below, VerticesUpTo, VertexLines
  <2> QED
    BY <1>1, <2>3, <2>4 DEF ReadSoFar
<1>6. /\ 1 \in DOMAIN idx /\ k \in DOMAIN idx /\ k + 1 \in DOMAIN idx
      /\ <<s.verts[idx[1]], s.verts[idx[k]], s.verts[idx[k + 1]]>> \in Fan(s.verts, idx)
  BY <1>3 DEF Fan
<1>7. \A j \in DOMAIN idx : idx[j] \in 1 .. Len(s.verts)
  BY <1>4 DEF IsFace
<1>8. <<enu_to_jolt(VertexAt(obj, idx[1])), enu_to_jolt(VertexAt(obj, idx[k])),
        enu_to_jolt(VertexAt(obj, idx[k + 1]))>> \in s.tris
  BY <1>4, <1>5, <1>6, <1>7
<1> QED
  BY <1>8 DEF obj, s

-----------------------------------------------------------------------------
(* What CastRay finds does not depend on the axes it is asked in.          *)
Numeric(p) == \A k \in 1 .. 3 : p[k] \in Int

LEMMA VectorsAreNumeric == \A p \in Vector : Numeric(p)
BY DEF Vector, Numeric

LEMMA TurnedVectors ==
  ASSUME NEW a, NEW b, Numeric(a), Numeric(b)
  PROVE  /\ Minus(a, b) \in Vector /\ Cross(a, b) \in Vector /\ enu_to_jolt(a) \in Vector
         /\ Minus(enu_to_jolt(a), enu_to_jolt(b)) = enu_to_jolt(Minus(a, b))
         /\ Cross(enu_to_jolt(a), enu_to_jolt(b)) = enu_to_jolt(Cross(a, b))
         /\ Dot(enu_to_jolt(a), enu_to_jolt(b)) = Dot(a, b)
<1>1. \A k \in 1 .. 3 : a[k] \in Int /\ b[k] \in Int
  BY DEF Numeric
<1>2. \A k \in 1 .. 3, j \in 1 .. 3 : a[k] * b[j] \in Int
  BY <1>1
<1>3. Minus(a, b) \in Vector
  BY <1>1 DEF Minus, Vector
<1>4. Cross(a, b) \in Vector
  BY <1>2 DEF Cross, Vector
<1>5. enu_to_jolt(a) \in Vector
  BY <1>1 DEF enu_to_jolt, Vector
<1>6. Minus(enu_to_jolt(a), enu_to_jolt(b)) = enu_to_jolt(Minus(a, b))
  BY DEF Minus, enu_to_jolt
<1>7. Cross(enu_to_jolt(a), enu_to_jolt(b)) = enu_to_jolt(Cross(a, b))
  BY DEF Cross, enu_to_jolt
<1>8. Dot(enu_to_jolt(a), enu_to_jolt(b)) = Dot(a, b)
  <2>1. /\ Dot(a, b) = a[1] * b[1] + a[2] * b[2] + a[3] * b[3]
        /\ Dot(enu_to_jolt(a), enu_to_jolt(b)) = a[2] * b[2] + a[3] * b[3] + a[1] * b[1]
    BY DEF Dot, enu_to_jolt
  <2> DEFINE x == a[1] * b[1]
             y == a[2] * b[2]
             z == a[3] * b[3]
  <2>2. x \in Int /\ y \in Int /\ z \in Int
    BY <1>2
  <2> HIDE DEF x, y, z
  <2>3. y + z + x = x + y + z
    BY <2>2
  <2> QED
    BY <2>1, <2>3 DEF x, y, z
<1> QED
  BY <1>3, <1>4, <1>5, <1>6, <1>7, <1>8

LEMMA TurnedHits ==
  ASSUME NEW a, NEW b, NEW c, NEW o \in Vector, NEW v \in Vector,
         Numeric(a), Numeric(b), Numeric(c)
  PROVE  HitsTriangle(<<enu_to_jolt(a), enu_to_jolt(b), enu_to_jolt(c)>>,
                      enu_to_jolt(o), enu_to_jolt(v))
           = HitsTriangle(<<a, b, c>>, o, v)
<1> DEFINE T(p) == enu_to_jolt(p)
           side1 == Minus(b, a)
           side2 == Minus(c, a)
           from == Minus(o, a)
<1>1. /\ side1 \in Vector /\ side2 \in Vector /\ from \in Vector
      /\ Minus(T(b), T(a)) = T(side1) /\ Minus(T(c), T(a)) = T(side2)
      /\ Minus(T(o), T(a)) = T(from)
  BY TurnedVectors, VectorsAreNumeric
<1> DEFINE over == Cross(v, side2)
           up == Cross(from, side1)
<1> HIDE DEF side1, side2, from
<1>2. /\ over \in Vector /\ up \in Vector
      /\ Cross(T(v), T(side2)) = T(over) /\ Cross(T(from), T(side1)) = T(up)
  BY <1>1, TurnedVectors, VectorsAreNumeric
<1> HIDE DEF over, up
<1>3. /\ Dot(T(side1), T(over)) = Dot(side1, over) /\ Dot(T(from), T(over)) = Dot(from, over)
      /\ Dot(T(v), T(up)) = Dot(v, up) /\ Dot(T(side2), T(up)) = Dot(side2, up)
  BY <1>1, <1>2, TurnedVectors, VectorsAreNumeric
<1> DEFINE Found(det, u, w, t) ==
             /\ det > 0 \/ (BackFaces /\ det < 0)
             /\ Sgn(det) * u >= 0 /\ Sgn(det) * w >= 0
             /\ Sgn(det) * u + Sgn(det) * w <= Sgn(det) * det
             /\ Sgn(det) * t \in 0 .. Sgn(det) * det
<1>4. HitsTriangle(<<a, b, c>>, o, v)
        = Found(Dot(side1, over), Dot(from, over), Dot(v, up), Dot(side2, up))
  BY DEF HitsTriangle, side1, side2, from, over, up
<1>5. HitsTriangle(<<T(a), T(b), T(c)>>, T(o), T(v))
        = Found(Dot(T(side1), T(over)), Dot(T(from), T(over)), Dot(T(v), T(up)),
                Dot(T(side2), T(up)))
  BY <1>1, <1>2 DEF HitsTriangle
<1> HIDE DEF Found
<1> QED
  BY <1>3, <1>4, <1>5

-----------------------------------------------------------------------------
(* The legs of a path, and the rays along them.                            *)
LEMMA MaxOfPlusMinus ==
  ASSUME NEW a \in Int
  PROVE  Max({a, -a, 0}) = IF a > 0 THEN a ELSE -a
<1> DEFINE m == IF a > 0 THEN a ELSE -a
<1>1. m \in {a, -a, 0} /\ \A y \in {a, -a, 0} : m >= y
  OBVIOUS
<1>2. \A x \in {a, -a, 0} : (\A y \in {a, -a, 0} : x >= y) => x = m
  OBVIOUS
<1> QED
  BY <1>1, <1>2 DEF Max

(* A leg along one axis is as long as it goes there. *)
LEMMA LengthOfLeg ==
  ASSUME NEW leg \in Vector \X Vector, Straight(leg[1], leg[2])
  PROVE  /\ Length(leg) \in Nat
         /\ \A k \in 1 .. 3 : leg[1][k] + Length(leg) * Direction(leg)[k] = leg[2][k]
<1> DEFINE d == Minus(leg[2], leg[1])
           six == {d[1], -d[1], d[2], -d[2], d[3], -d[3]}
<1>1. /\ leg[1] \in Vector /\ leg[2] \in Vector
      /\ \A k \in 1 .. 3 : leg[1][k] \in Int /\ leg[2][k] \in Int
  BY DEF Vector
<1>2. \A k \in 1 .. 3 : d[k] \in Int /\ d[k] = leg[2][k] - leg[1][k]
  BY <1>1 DEF Minus
<1>3. PICK k \in 1 .. 3 : \A j \in (1 .. 3) \ {k} : leg[1][j] = leg[2][j]
  BY DEF Straight
<1>4. \A j \in (1 .. 3) \ {k} : d[j] = 0
  BY <1>1, <1>2, <1>3
<1>5. /\ Length(leg) = Max(six)
      /\ Direction(leg) = <<Sgn(d[1]), Sgn(d[2]), Sgn(d[3])>>
  BY DEF Length, Direction
<1> HIDE DEF d
<1>6. six = {d[k], -d[k], 0}
  <2>1. CASE k = 1
    BY <1>2, <1>4, <2>1
  <2>2. CASE k = 2
    BY <1>2, <1>4, <2>2
  <2>3. CASE k = 3
    BY <1>2, <1>4, <2>3
  <2> QED
    BY <2>1, <2>2, <2>3
<1> HIDE DEF six
<1>7. Length(leg) = IF d[k] > 0 THEN d[k] ELSE -d[k]
  BY <1>2, <1>5, <1>6, MaxOfPlusMinus
<1>8. Length(leg) \in Nat
  BY <1>2, <1>7
<1> DEFINE L == Length(leg)
<1> HIDE DEF L
<1>9. L * Sgn(d[k]) = d[k]
  <2>1. CASE d[k] > 0
    BY <1>2, <1>7, <2>1 DEF Sgn, L
  <2>2. CASE d[k] = 0
    BY <1>2, <1>7, <2>2 DEF Sgn, L
  <2>3. CASE d[k] < 0
    BY <1>2, <1>7, <2>3 DEF Sgn, L
  <2> QED
    BY <1>2, <2>1, <2>2, <2>3
<1>10. ASSUME NEW j \in 1 .. 3 PROVE leg[1][j] + L * Direction(leg)[j] = leg[2][j]
  <2>1. Direction(leg)[j] = Sgn(d[j])
    BY <1>5
  <2>2. CASE j = k
    BY <1>1, <1>2, <1>9, <2>1, <2>2
  <2>3. CASE j # k
    <3>1. Sgn(d[j]) = 0
      BY <1>4, <2>3 DEF Sgn
    <3>2. L * 0 = 0
      BY <1>8 DEF L
    <3> QED
      BY <1>1, <1>3, <2>1, <2>3, <3>1, <3>2
  <2> QED
    BY <2>2, <2>3
<1> QED
  BY <1>8, <1>10 DEF L

(* A leg that moves is the ray that is cast along it. *)
LEMMA RayIsLeg ==
  ASSUME NEW leg \in Vector \X Vector, Straight(leg[1], leg[2])
  PROVE  /\ ned_to_jolt(Plus(leg[1], Zero)) = enu_to_jolt(ned_to_enu(leg[1]))
         /\ LET L == Length(leg)
            IN Scaled(ned_to_jolt(Direction(leg)), <<L, L, L>>)
                 = enu_to_jolt(ned_to_enu(Minus(leg[2], leg[1])))
<1> DEFINE a == leg[1]
           b == leg[2]
           L == Length(leg)
           d == Direction(leg)
<1>1. /\ L \in Nat /\ \A k \in 1 .. 3 : a[k] + L * d[k] = b[k]
      /\ \A k \in 1 .. 3 : a[k] \in Int /\ b[k] \in Int
  BY LengthOfLeg DEF Vector
<1>2. \A k \in 1 .. 3 : d[k] \in {-1, 0, 1}
  BY DEF Direction, Sgn
<1>3. /\ ned_to_jolt(Plus(a, Zero)) = <<a[1] + 0, -(a[3] + 0), a[2] + 0>>
      /\ enu_to_jolt(ned_to_enu(a)) = <<a[1], -a[3], a[2]>>
      /\ enu_to_jolt(ned_to_enu(Minus(b, a))) = <<b[1] - a[1], -(b[3] - a[3]), b[2] - a[2]>>
  BY DEF ned_to_jolt, enu_to_jolt, ned_to_enu, Plus, Minus, Zero
<1>4. Scaled(ned_to_jolt(d), <<L, L, L>>) = <<d[1] * L, (-d[3]) * L, d[2] * L>>
  BY DEF Scaled, ned_to_jolt
<1> HIDE DEF a, b, L, d
<1>5. \A k \in 1 .. 3 : d[k] * L = b[k] - a[k] /\ (-d[k]) * L = -(b[k] - a[k])
  <2> TAKE k \in 1 .. 3
  <2>1. CASE d[k] = 1
    BY <1>1, <2>1
  <2>2. CASE d[k] = 0
    BY <1>1, <2>2
  <2>3. CASE d[k] = -1
    BY <1>1, <2>3
  <2> QED
    BY <1>2, <2>1, <2>2, <2>3
<1>6. \A k \in 1 .. 3 : a[k] + 0 = a[k]
  BY <1>1
<1> QED
  BY <1>3, <1>4, <1>5, <1>6 DEF a, b, L, d

(* A ray that goes nowhere meets nothing. *)
LEMMA NoRay ==
  ASSUME NEW a, NEW b, NEW c, NEW o, Numeric(a), Numeric(b), Numeric(c)
  PROVE  ~HitsTriangle(<<a, b, c>>, o, Zero)
<1> DEFINE side1 == Minus(b, a)
           side2 == Minus(c, a)
<1>1. side1 \in Vector /\ side2 \in Vector
  BY TurnedVectors
<1>2. HitsTriangle(<<a, b, c>>, o, Zero) => Dot(side1, Cross(Zero, side2)) # 0
  BY DEF HitsTriangle
<1> HIDE DEF side1, side2
<1>3. \A k \in 1 .. 3 : side1[k] \in Int /\ side2[k] \in Int
  BY <1>1 DEF Vector
<1>4. Cross(Zero, side2) = <<0, 0, 0>>
  BY <1>3 DEF Cross, Zero
<1>5. Dot(side1, <<0, 0, 0>>) = 0
  BY <1>3 DEF Dot
<1> QED
  BY <1>2, <1>4, <1>5

(* A leg that passes through a triangle hits it. *)
LEMMA RayHits ==
  ASSUME NEW points, NEW leg \in Vector \X Vector, leg \in Legs(points),
         Straight(leg[1], leg[2]), NEW tris, NEW a, NEW b, NEW c,
         Numeric(a), Numeric(b), Numeric(c),
         <<enu_to_jolt(a), enu_to_jolt(b), enu_to_jolt(c)>> \in tris,
         HitsTriangle(<<a, b, c>>, ned_to_enu(leg[1]), ned_to_enu(Minus(leg[2], leg[1])))
  PROVE  leg \in sweep_path(tris, points)
<1> DEFINE o == ned_to_enu(leg[1])
           v == ned_to_enu(Minus(leg[2], leg[1]))
           tri == <<enu_to_jolt(a), enu_to_jolt(b), enu_to_jolt(c)>>
<1>1. leg[1] \in Vector /\ leg[2] \in Vector /\ o \in Vector /\ v \in Vector
  BY DEF Vector, ned_to_enu, Minus
<1>2. leg[1] # leg[2]
  <2>1. leg[1] = leg[2] => v = Zero
    BY <1>1 DEF ned_to_enu, Minus, Zero, Vector
  <2> QED
    BY <1>1, <2>1, NoRay
<1> HIDE DEF o, v
<1>3. HitsTriangle(tri, enu_to_jolt(o), enu_to_jolt(v))
  BY <1>1, TurnedHits DEF o, v
<1>4. /\ ned_to_jolt(Plus(leg[1], Zero)) = enu_to_jolt(o)
      /\ Scaled(ned_to_jolt(Direction(leg)), <<Length(leg), Length(leg), Length(leg)>>)
           = enu_to_jolt(v)
  BY RayIsLeg DEF o, v
<1> HIDE DEF tri
<1>5. raycast(tris, Plus(leg[1], Zero), Direction(leg), Length(leg))
  BY <1>3, <1>4 DEF raycast, tri
<1>6. Zero \in Offsets(Direction(leg))
  BY DEF Offsets
<1> QED
  BY <1>2, <1>5, <1>6 DEF sweep_path

(* The corners of a face are places. *)
LEMMA CornersAreNumeric ==
  ASSUME NEW list \in Inputs, NEW i \in DOMAIN list, Cooks(list[i].obj), NEW a, NEW b, NEW c,
         <<enu_to_jolt(a), enu_to_jolt(b), enu_to_jolt(c)>> \in Mesh(list[i].obj).tris
  PROVE  Numeric(a) /\ Numeric(b) /\ Numeric(c)
<1>1. enu_to_jolt(a) \in Vector /\ enu_to_jolt(b) \in Vector /\ enu_to_jolt(c) \in Vector
  BY InputsAssumption
<1> QED
  BY <1>1 DEF enu_to_jolt, Vector, Numeric

(* A list without a malformed waypoint is parsed to its end. *)
LEMMA WholePath ==
  ASSUME NEW path \in Paths, Malformed \notin Range(path)
  PROVE  parse_waypoints(path) = path
<1> DEFINE s == Append(path, Malformed)
           I == {i \in 1 .. Len(s) : s[i] = Malformed}
           n == Len(path)
<1>1. path \in Seq(Range(path)) /\ n \in Nat /\ DOMAIN path = 1 .. n
  BY PathsAssumption
<1>2. /\ Len(s) = n + 1 /\ s[n + 1] = Malformed
      /\ \A i \in 1 .. n : s[i] = path[i]
  BY <1>1
<1>3. \A i \in 1 .. n : s[i] # Malformed
  BY <1>1, <1>2 DEF Range
<1>4. I = {n + 1}
  <2> HIDE DEF s
  <2> QED
    BY <1>1, <1>2, <1>3
<1>5. Min(I) = n + 1
  <2> HIDE DEF I, n
  <2>1. I \in SUBSET Nat /\ I # {}
    BY <1>1, <1>4
  <2>2. Min(I) \in I
    BY <2>1, MinOfNats
  <2> QED
    BY <1>4, <2>2
<1>6. parse_waypoints(path) = SubSeq(path, 1, Min(I) - 1)
  BY <1>4 DEF parse_waypoints, SelectInSeq
<1>7. (n + 1) - 1 = n
  BY <1>1
<1>8. SubSeq(path, 1, n) = path
  BY <1>1
<1> QED
  BY <1>5, <1>6, <1>7, <1>8, Zenon

-----------------------------------------------------------------------------
(* A path that is reported clear.                                          *)

(* The last tile of its name has its mesh in the directory. *)
StoredInv ==
  \A i \in 1 .. Len(entries) :
    (\A j \in i + 1 .. Len(entries) : args[j].stem # args[i].stem) =>
      \A p \in out_dir : p.file = args[i].stem => p.tris = Mesh(args[i].obj).tris

(* The world has every resident tile that loads, and no other. *)
LoadedInv ==
  /\ tile_world_ids = resident \cap Loadable
  /\ loop = "cook" => resident = {}

AnswerInv == answer # NoAnswer => loop = "commands"

ClearInv == StoredInv /\ LoadedInv /\ AnswerInv /\ ClearIsClear

LEMMA NextStoredInv == ASSUME CookInv, StoredInv, Cook PROVE StoredInv'
<1>1. /\ Len(args) \in Nat /\ DOMAIN args = 1 .. Len(args) /\ args' = args
      /\ entries \in Seq(CookedTiles) /\ Len(entries) \in Nat
  BY ArgsAreList DEF CookInv, Cook, StartCook, CookTile, CookFails, WriteIndex
<1>2. CASE StartCook
  <2>1. entries' = <<>>
    BY <1>2 DEF StartCook, CookInv
  <2>2. Len(entries') = 0
    BY <2>1
  <2> QED
    BY <2>2 DEF StoredInv
<1>3. CASE CookTile
  <2> DEFINE n == Len(entries) + 1
             tile == args[n]
  <2>1. n \in 1 .. Len(args) /\ entries' = Append(entries, Cooked(tile))
    BY <1>1, <1>3 DEF CookTile, Cooked
  <2>2. \E whole : out_dir' = {p \in out_dir : p.file # tile.stem}
                     \cup {[file |-> tile.stem, tris |-> Mesh(tile.obj).tris, whole |-> whole]}
    BY <1>3, Zenon DEF CookTile
  <2>3. PICK q : /\ q.file = tile.stem /\ q.tris = Mesh(tile.obj).tris
                 /\ out_dir' = {p \in out_dir : p.file # tile.stem} \cup {q}
    BY <2>2
  <2>4. Len(entries') = n
    <3>1. Cooked(tile) \in CookedTiles
      BY <1>1, <2>1 DEF CookedTiles
    <3> QED
      BY <1>1, <2>1, <3>1
  <2> SUFFICES ASSUME NEW i \in 1 .. n, \A j \in i + 1 .. n : args[j].stem # args[i].stem,
                      NEW p \in out_dir', p.file = args[i].stem
               PROVE  p.tris = Mesh(args[i].obj).tris
    BY <1>1, <2>4 DEF StoredInv
  <2>5. CASE i = n
    <3>1. p = q
      BY <2>3, <2>5
    <3> QED
      BY <2>3, <2>5, <3>1
  <2>6. CASE i # n
    <3>1. i \in 1 .. Len(entries) /\ n \in i + 1 .. n
      BY <1>1, <2>6
    <3>2. tile.stem # args[i].stem
      BY <3>1
    <3>3. p \in out_dir
      BY <2>3, <3>2
    <3>4. \A j \in i + 1 .. Len(entries) : args[j].stem # args[i].stem
      BY <1>1
    <3> QED
      BY <3>1, <3>3, <3>4 DEF StoredInv
  <2> QED
    BY <2>5, <2>6
<1>4. CASE CookFails \/ WriteIndex
  <2>1. UNCHANGED <<args, entries, out_dir>>
    BY <1>4 DEF CookFails, WriteIndex
  <2> QED
    BY <2>1 DEF StoredInv
<1> QED
  BY <1>2, <1>3, <1>4 DEF Cook

LEMMA PlanLoads ==
  ASSUME tile_world_ids = resident \cap Loadable, NEW points, ApplyTilePlan(points),
         UNCHANGED cookerVars
  PROVE  /\ resident' = Desired(points) /\ tile_world_ids' = resident' \cap Loadable
         /\ Loadable' = Loadable
<1> DEFINE wanted == Desired(points)
<1>1. /\ resident' = wanted
      /\ tile_world_ids' = (tile_world_ids \ (resident \ wanted))
                             \cup ((wanted \ resident) \cap Loadable)
  BY Zenon DEF ApplyTilePlan
<1>2. Loadable' = Loadable
  BY DEF Loadable, Tiles, cookerVars
<1> HIDE DEF wanted
<1>3. tile_world_ids' = wanted \cap Loadable
  BY <1>1
<1> QED
  BY <1>1, <1>2, <1>3 DEF wanted

(* The geometry of the check: a building near a waypoint is in the world   *)
(* by then, unless it was left out, with every face of its file; the ray   *)
(* along a leg that passes through one of them hits it.                    *)
LEMMA PathCheckIsClear ==
  ASSUME EveryVertexUsed, TInv, StoredInv, LoadedInv, NEW path \in Paths, PathCheck(path),
         UNCHANGED cookerVars
  PROVE  ClearIsClear'
<1> DEFINE points == parse_waypoints(path)
           interest == Interest(Range(points))
           tris == UNION {Shape(t) : t \in tile_world_ids'}
<1>1. /\ loop = "commands" /\ UNCHANGED <<loop, fleet>> /\ ApplyTilePlan(interest)
      /\ answer' = [path |-> path, checked |-> resident' # {},
                    clear |-> resident' # {} /\ sweep_path(tris, points) = {}]
  BY Zenon DEF PathCheck
<1>2. answer'.path = path /\ (answer'.clear => sweep_path(tris, points) = {})
  BY <1>1
<1>3. /\ CookInv /\ cook_pc = "done" /\ IndexOK
      /\ UNCHANGED <<cook_pc, args, entries, out_dir, index>>
  BY <1>1, CookedIndex DEF TInv, LoopInv, cookerVars
<1>4. interest \in SUBSET Vector /\ Positions \subseteq interest
  BY WaypointsParse, PositionsAreVectors DEF Interest, TInv
<1>5. /\ resident' = Desired(interest) /\ tile_world_ids' = resident' \cap Loadable
  BY <1>1, PlanLoads DEF LoadedInv
<1> SUFFICES ASSUME answer'.clear, Malformed \notin Range(path),
                    NEW i \in DOMAIN args, NEW leg \in Legs(path),
                    Crosses(leg, args[i].obj), ~LeftOut(i)'
             PROVE  FALSE
  BY <1>2, <1>3 DEF ClearIsClear
<1> DEFINE obj == args[i].obj
<1>6. /\ points = path /\ path \in Seq(Range(path)) /\ Range(path) \in SUBSET Vector
      /\ \A k \in 1 .. Len(path) - 1 : Straight(path[k], path[k + 1])
  <2>1. points = path
    BY WholePath
  <2>2. /\ path \in Seq(Range(path))
        /\ \A k \in 1 .. Len(path) - 1 :
             Malformed \notin {path[k], path[k + 1]} => Straight(path[k], path[k + 1])
    BY PathsAssumption
  <2>3. \A k \in 1 .. Len(path) - 1 : path[k] \in Range(path) /\ path[k + 1] \in Range(path)
    BY <2>2 DEF Range
  <2>4. Range(points) \in SUBSET Vector
    BY WaypointsParse
  <2> QED
    BY <2>1, <2>2, <2>3, <2>4
<1>7. /\ \A p \in out_dir : p.file = args[i].stem => p.whole
      /\ \A j \in DOMAIN args : j > i => args[j].stem # args[i].stem
      /\ i \in resident' \/ Cardinality(resident') # MaxResident
      /\ \E w \in Range(path) : Near(w, obj)
  BY <1>2, <1>3 DEF LeftOut
<1>8. /\ i \in Tiles /\ Cooks(obj) /\ index[i].file = args[i].stem
      /\ \A p : distance_to_tile(p, i) = Away(p, obj)
  BY <1>3, TileOfBuilding
<1>9. i \in resident'
  <2>1. PICK w \in Range(path) : Near(w, obj)
    BY <1>7
  <2>2. w \in interest /\ w \in Vector
    BY <1>6, <2>1 DEF Interest
  <2> HIDE DEF interest, obj
  <2>3. Best(interest, i) \in Nat /\ Best(interest, i) <= distance_to_tile(w, i)
    BY <1>3, <1>4, <1>8, <2>2, BestIsNearest
  <2>4. distance_to_tile(w, i) \in Nat /\ KeepRadius * KeepRadius \in Nat
    BY <1>3, <1>8, <2>2, DistanceIsNat, SquareIsNat
  <2>5. distance_to_tile(w, i) <= KeepRadius * KeepRadius
    BY <1>8, <2>1 DEF Near
  <2>6. Best(interest, i) <= KeepRadius * KeepRadius
    BY <2>3, <2>4, <2>5
  <2>7. i \in InRange(interest)
    BY <1>8, <2>2, <2>6 DEF InRange
  <2> QED
    BY <1>3, <1>4, <1>5, <1>7, <2>7, PlanIsNearest
<1>10. \E p \in out_dir : p.file = args[i].stem
  <2>1. index = entries /\ Files = Names(entries)
    BY <1>3 DEF CookInv
  <2>2. args[i].stem \in Names(entries)
    BY <1>8, <2>1 DEF Names, Range, Tiles
  <2> QED
    BY <2>1, <2>2 DEF Files
<1>11. i \in tile_world_ids'
  BY <1>5, <1>7, <1>8, <1>9, <1>10 DEF Loadable
<1>12. Shape(i) = Mesh(obj).tris
  <2> DEFINE p == CHOOSE p \in out_dir : p.file = index[i].file
  <2>1. p \in out_dir /\ p.file = args[i].stem
    BY <1>8, <1>10
  <2> HIDE DEF p
  <2>2. /\ Len(entries) = Len(args) /\ args \in Inputs /\ Len(args) \in Nat
        /\ DOMAIN args = 1 .. Len(args)
    BY <1>3, ArgsAreList DEF CookInv
  <2>3. i \in 1 .. Len(entries) /\ \A j \in i + 1 .. Len(entries) : args[j].stem # args[i].stem
    BY <1>7, <2>2
  <2>4. p.tris = Mesh(obj).tris
    BY <2>1, <2>3 DEF StoredInv
  <2> QED
    BY <2>4 DEF Shape, p
<1>13. leg \in Vector \X Vector /\ Straight(leg[1], leg[2])
  <2>1. PICK k \in 1 .. Len(path) - 1 : leg = <<path[k], path[k + 1]>>
    BY DEF Legs
  <2>2. path[k] \in Range(path) /\ path[k + 1] \in Range(path)
    BY <1>6 DEF Range
  <2> QED
    BY <1>6, <2>1, <2>2
<1> DEFINE Corner(n, j) == VertexAt(obj, obj[n].idx[j])
<1>14. PICK n \in DOMAIN obj :
         /\ obj[n].op = "f"
         /\ \E k \in 2 .. Len(obj[n].idx) - 1 :
              HitsTriangle(<<Corner(n, 1), Corner(n, k), Corner(n, k + 1)>>,
                           ned_to_enu(leg[1]), ned_to_enu(Minus(leg[2], leg[1])))
  BY DEF Crosses
<1>15. PICK k \in 2 .. Len(obj[n].idx) - 1 :
         HitsTriangle(<<Corner(n, 1), Corner(n, k), Corner(n, k + 1)>>,
                      ned_to_enu(leg[1]), ned_to_enu(Minus(leg[2], leg[1])))
  BY <1>14
<1>16. args \in Inputs
  BY <1>3 DEF CookInv
<1>17. <<enu_to_jolt(Corner(n, 1)), enu_to_jolt(Corner(n, k)), enu_to_jolt(Corner(n, k + 1))>>
         \in Mesh(obj).tris
  BY <1>8, <1>14, <1>16, FacesInMesh
<1>18. Numeric(Corner(n, 1)) /\ Numeric(Corner(n, k)) /\ Numeric(Corner(n, k + 1))
  BY <1>8, <1>16, <1>17, CornersAreNumeric
<1>19. Mesh(obj).tris \subseteq tris
  BY <1>11, <1>12
<1> HIDE DEF tris, Corner
<1>20. leg \in sweep_path(tris, path)
  BY <1>13, <1>15, <1>17, <1>18, <1>19, RayHits
<1> QED
  BY <1>2, <1>6, <1>20

LEMMA InitClearInv == Init => ClearInv
<1> SUFFICES ASSUME Init PROVE ClearInv
  OBVIOUS
<1>1. StoredInv
  BY DEF Init, CookerInit, StoredInv
<1>2. LoadedInv /\ AnswerInv /\ ClearIsClear
  BY DEF Init, LoadedInv, AnswerInv, ClearIsClear
<1> QED
  BY <1>1, <1>2 DEF ClearInv

LEMMA NextClearInv ==
  ASSUME EveryVertexUsed, TInv, ClearInv, [Next]_vars PROVE ClearInv'
<1>1. StoredInv /\ LoadedInv /\ AnswerInv /\ ClearIsClear
  BY DEF ClearInv
<1>2. CASE Cook /\ UNCHANGED streamVars
  <2>1. cook_pc \notin {"done", "failed"}
    BY <1>2 DEF Cook, StartCook, CookTile, CookFails, WriteIndex
  <2>2. loop = "cook" /\ UNCHANGED <<loop, resident, tile_world_ids, answer>>
    BY <1>2, <2>1 DEF TInv, LoopInv, streamVars, history
  <2>3. StoredInv'
    BY <1>1, <1>2, NextStoredInv DEF TInv
  <2>4. LoadedInv'
    BY <1>1, <2>2 DEF LoadedInv
  <2>5. AnswerInv' /\ ClearIsClear'
    BY <1>1, <2>2 DEF AnswerInv, ClearIsClear
  <2> QED
    BY <2>3, <2>4, <2>5 DEF ClearInv
<1>3. CASE Simulator /\ UNCHANGED cookerVars
  <2>1. StoredInv' /\ Loadable' = Loadable
    BY <1>1, <1>3 DEF StoredInv, Loadable, Tiles, cookerVars
  <2>2. CASE \E path \in Paths : PathCheck(path)
    <3>1. PICK path \in Paths : PathCheck(path)
      BY <2>2
    <3>2. ClearIsClear'
      BY <1>1, <1>3, <3>1, PathCheckIsClear
    <3>3. loop' = "commands" /\ ApplyTilePlan(Interest(Range(parse_waypoints(path))))
      BY <3>1, Zenon DEF PathCheck
    <3>4. LoadedInv' /\ AnswerInv'
      BY <1>1, <1>3, <3>3, PlanLoads DEF LoadedInv, AnswerInv
    <3> QED
      BY <2>1, <3>2, <3>4 DEF ClearInv
  <2>3. CASE StreamTiles
    <3>1. /\ loop = "stream" /\ loop' = "step" /\ ApplyTilePlan(Positions)
          /\ answer' = answer
      BY <2>3 DEF StreamTiles
    <3>2. LoadedInv'
      BY <1>1, <1>3, <3>1, PlanLoads DEF LoadedInv
    <3>3. AnswerInv' /\ ClearIsClear'
      BY <1>1, <3>1 DEF AnswerInv, ClearIsClear
    <3> QED
      BY <2>1, <3>2, <3>3 DEF ClearInv
  <2>4. CASE \/ StartStreamer \/ Drained \/ NothingToStream \/ Step \/ Stall
             \/ \E v \in Vehicles : Despawn(v) \/ \E p \in Places : Spawn(v, p)
    <3>1. /\ UNCHANGED <<resident, tile_world_ids>>
          /\ loop' = "cook" => loop = "cook"
          /\ answer' = NoAnswer \/ (answer' = answer /\ loop # "commands")
      BY <2>4 DEF StartStreamer, Drained, NothingToStream, Step, Stall, Despawn, Spawn, history
    <3>2. answer' = NoAnswer
      BY <1>1, <3>1 DEF AnswerInv
    <3>3. LoadedInv' /\ AnswerInv' /\ ClearIsClear'
      BY <1>1, <2>1, <3>1, <3>2 DEF LoadedInv, AnswerInv, ClearIsClear
    <3> QED
      BY <2>1, <3>3 DEF ClearInv
  <2> QED
    BY <1>3, <2>2, <2>3, <2>4 DEF Simulator
<1>4. CASE UNCHANGED vars
  <2>1. StoredInv' /\ Loadable' = Loadable
    BY <1>1, <1>4 DEF StoredInv, Loadable, Tiles, vars, cookerVars
  <2>2. UNCHANGED <<loop, resident, tile_world_ids, answer, args, out_dir>>
    BY <1>4 DEF vars, cookerVars, streamVars, history
  <2>3. LoadedInv' /\ AnswerInv' /\ ClearIsClear'
    BY <1>1, <2>1, <2>2 DEF LoadedInv, AnswerInv, ClearIsClear, LeftOut
  <2> QED
    BY <2>1, <2>3 DEF ClearInv
<1> QED
  BY <1>2, <1>3, <1>4 DEF Next

(* A path that is reported clear passes through no wall, roof or floor of  *)
(* the map, but of buildings that were left out, for maps without vertices *)
(* that no face names: of the way from a face of the OBJ file to the ray,  *)
(* nothing turns it over, moves it or drops it.  Meshes are hollow: a leg  *)
(* that stays inside a building passes through no face.                    *)
THEOREM ClearPathsAreClear == ASSUME EveryVertexUsed PROVE Spec => []ClearIsClear
<1>1. Init => ClearInv
  BY InitClearInv
<1>2. TInv /\ ClearInv /\ [Next]_vars => ClearInv'
  BY NextClearInv
<1>3. ClearInv => ClearIsClear
  BY DEF ClearInv
<1> QED
  BY <1>1, <1>2, <1>3, TInvHolds, PTL DEF Spec
=============================================================================
