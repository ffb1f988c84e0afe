--------------------------- MODULE BookSideProofs ---------------------------
(***************************************************************************)
(* Facts about one side of a book (BookSide.tla), for any prices, grid and   *)
(* slab size: what its operations return, which levels they leave, and the   *)
(* best price they cache.                                                  *)
(***************************************************************************)
EXTENDS BookSide, FiniteSetTheorems, TLAPS

----------------------------------------------------------------------------
(***************************************************************************)
(* The best price of a side.                                               *)
(***************************************************************************)
\* Of two prices one is no worse than the other, and no worse is transitive.
LEMMA BetterOrder ==
  ASSUME NEW side \in Sides, NEW p \in Int, NEW q \in Int, NEW r \in Int
  PROVE  /\ ~Better(side, p, p)
         /\ Better(side, p, q) => ~Better(side, q, p)
         /\ ~Better(side, p, q) /\ ~Better(side, q, p) => p = q
         /\ ~Better(side, p, q) /\ ~Better(side, q, r) => ~Better(side, p, r)
BY DEF Better, Sides

\* A finite set of prices has a best one, by induction on the set: the candidates of
\* the grid scan and of the overflow map in recompute_best_after_removal exist.
LEMMA BestExists ==
  ASSUME NEW side \in Sides, NEW S, S \subseteq Int, IsFiniteSet(S), S # {}
  PROVE  \E m \in S : \A q \in S : ~Better(side, q, m)
<1> DEFINE HasBest(U) == \E m \in U : \A q \in U : ~Better(side, q, m)
           T == {U \in FiniteSubsetsOf(S) : U # {} /\ ~HasBest(U)}
<1> SUFFICES ASSUME ~HasBest(S) PROVE FALSE
    OBVIOUS
<1>1. T \subseteq FiniteSubsetsOf(S) /\ S \in T
  BY DEF FiniteSubsetsOf
<1>2. PICK U \in T : \A V \in T : <<V, U>> \notin StrictSubsetOrdering(S)
  <2> HIDE DEF T
  <2> QED BY <1>1, FS_StrictSubsetOrderingWellFounded, WFMin
<1>3. U \subseteq S /\ IsFiniteSet(U) /\ U # {} /\ ~HasBest(U)
  BY <1>2 DEF FiniteSubsetsOf
<1>4. PICK x \in U : TRUE
  BY <1>3
<1> DEFINE V == U \ {x}
<1>5. IsFiniteSet(V) /\ V \subseteq S
  BY <1>3, FS_RemoveElement
<1>6. V \notin T
  <2>1. <<V, U>> \in StrictSubsetOrdering(S)
    BY <1>3, <1>4 DEF StrictSubsetOrdering
  <2> QED BY <2>1, <1>2
<1>7. CASE V = {}
  <2>1. U = {x} /\ x \in Int
    BY <1>7, <1>3, <1>4
  <2>2. ~Better(side, x, x)
    BY <2>1, BetterOrder
  <2> QED BY <2>1, <2>2, <1>3
<1>8. CASE HasBest(V)
  <2>1. PICK m \in V : \A q \in V : ~Better(side, q, m)
    BY <1>8
  <2>2. U \subseteq Int /\ m \in Int /\ x \in Int
    BY <1>3, <1>4, <2>1
  <2>3. ~Better(side, x, x) /\ ~Better(side, m, m)
    BY <2>2, BetterOrder
  <2>4. CASE ~Better(side, x, m)
    BY <2>1, <2>4, <1>3
  <2>5. CASE Better(side, x, m)
    <3>1. ~Better(side, m, x)
      BY <2>2, <2>5, BetterOrder
    <3>2. \A q \in V : ~Better(side, q, x)
      BY <2>1, <2>2, <3>1, BetterOrder
    <3> QED BY <3>2, <2>3, <1>3, <1>4
  <2> QED BY <2>4, <2>5
<1> QED BY <1>5, <1>6, <1>7, <1>8 DEF FiniteSubsetsOf

\* BestOf is a best price, and the only one.
LEMMA BestOfProperties ==
  ASSUME NEW side \in Sides, NEW S, S \subseteq Int, IsFiniteSet(S), S # {}
  PROVE  /\ BestOf(side, S) \in S
         /\ \A q \in S : ~Better(side, q, BestOf(side, S))
BY BestExists DEF BestOf

LEMMA BestOfUnique ==
  ASSUME NEW side \in Sides, NEW S, S \subseteq Int, NEW m \in S,
         \A q \in S : ~Better(side, q, m)
  PROVE  BestOf(side, S) = m
<1>1. /\ BestOf(side, S) \in S
      /\ \A q \in S : ~Better(side, q, BestOf(side, S))
  BY DEF BestOf
<1> QED BY <1>1, BetterOrder

----------------------------------------------------------------------------
(***************************************************************************)
(* The types of a book's parts.                                            *)
(***************************************************************************)
Handles == 1 .. MaxOrders
LevelType == [head : 0 .. MaxOrders, tail : 0 .. MaxOrders, count : Nat, total_qty : Int]
LevelMaps == UNION {[P -> LevelType] : P \in FiniteSubsetsOf(Prices)}
SideType == [initialized : BOOLEAN, start_price : Int, grid : LevelMaps, overflow : LevelMaps,
             best : Seq(Prices), best_qty : Int]
NodeType == [price : Prices, qty : Nat \ {0}, side : Sides,
             prev : 0 .. MaxOrders, next : 0 .. MaxOrders]

\* What membership in LevelMaps means.
LEMMA LevelMapFacts ==
  ASSUME NEW f \in LevelMaps
  PROVE  /\ DOMAIN f \subseteq Prices /\ IsFiniteSet(DOMAIN f)
         /\ \A x \in DOMAIN f : f[x] \in LevelType
         /\ f = [x \in DOMAIN f |-> f[x]]
BY DEF LevelMaps, FiniteSubsetsOf

LEMMA LevelMapIntro ==
  ASSUME NEW P, P \subseteq Prices, IsFiniteSet(P), NEW f \in [P -> LevelType]
  PROVE  f \in LevelMaps
BY DEF LevelMaps, FiniteSubsetsOf

\* Level maps are closed under the ways the book changes them.
LEMMA LevelMapWith ==
  ASSUME NEW f \in LevelMaps, NEW p \in Prices, NEW l \in LevelType
  PROVE  With(f, p, l) \in LevelMaps
<1>1. IsFiniteSet(DOMAIN f \cup {p})
  BY LevelMapFacts, FS_AddElement
<1>2. With(f, p, l) \in [DOMAIN f \cup {p} -> LevelType]
  BY LevelMapFacts DEF With
<1> QED BY <1>1, <1>2, LevelMapFacts, LevelMapIntro

LEMMA LevelMapWithout ==
  ASSUME NEW f \in LevelMaps, NEW p
  PROVE  Without(f, p) \in LevelMaps
<1>1. IsFiniteSet(DOMAIN f \ {p})
  BY LevelMapFacts, FS_RemoveElement
<1>2. Without(f, p) \in [DOMAIN f \ {p} -> LevelType]
  BY LevelMapFacts DEF Without
<1> QED BY <1>1, <1>2, LevelMapFacts, LevelMapIntro

LEMMA LevelMapExcept ==
  ASSUME NEW f \in LevelMaps, NEW p, NEW l \in LevelType
  PROVE  [f EXCEPT ![p] = l] \in LevelMaps
<1>1. [f EXCEPT ![p] = l] \in [DOMAIN f -> LevelType]
  BY LevelMapFacts
<1> QED BY <1>1, LevelMapFacts, LevelMapIntro

LEMMA LevelMapMerge ==
  ASSUME NEW f \in LevelMaps, NEW g \in LevelMaps
  PROVE  [x \in DOMAIN f \cup NonEmpty(g) |-> IF x \in DOMAIN f THEN f[x] ELSE g[x]] \in LevelMaps
<1> DEFINE P == DOMAIN f \cup NonEmpty(g)
           m == [x \in P |-> IF x \in DOMAIN f THEN f[x] ELSE g[x]]
<1>1. NonEmpty(g) \subseteq DOMAIN g
  BY DEF NonEmpty
<1>2. IsFiniteSet(NonEmpty(g))
  BY <1>1, LevelMapFacts, FS_Subset
<1>3. IsFiniteSet(P) /\ P \subseteq Prices
  BY <1>1, <1>2, LevelMapFacts, FS_Union
<1>4. m \in [P -> LevelType]
  BY <1>1, LevelMapFacts
<1> HIDE DEF P, m
<1>5. m \in LevelMaps
  BY <1>3, <1>4, LevelMapIntro
<1> QED BY <1>5 DEF m, P

LEMMA EmptyMapType == EmptyMap \in LevelMaps /\ DOMAIN EmptyMap = {}
<1>1. DOMAIN EmptyMap = {} /\ EmptyMap \in [{} -> LevelType]
  BY DEF EmptyMap
<1> QED BY <1>1, FS_EmptySet, LevelMapIntro

LEMMA EmptyLevelType == EmptyLevel \in LevelType
BY SideAssumption DEF EmptyLevel, LevelType, Nil

----------------------------------------------------------------------------
(***************************************************************************)
(* What the operations on a side do to the map from prices to levels that   *)
(* the grid and overflow make up together.                                 *)
(***************************************************************************)
LEMMA InitAroundType == ASSUME NEW p \in Prices PROVE InitAround(p) \in Int
BY SideAssumption DEF InitAround

LEMMA RecenterFields ==
  ASSUME NEW s \in SideType, NEW p \in Prices
  PROVE  /\ Recenter(s, p) \in SideType
         /\ Recenter(s, p).grid = EmptyMap
         /\ Recenter(s, p).overflow = [x \in DOMAIN s.overflow \cup NonEmpty(s.grid) |->
                               IF x \in DOMAIN s.overflow THEN s.overflow[x] ELSE s.grid[x]]
         /\ Recenter(s, p).initialized /\ Recenter(s, p).start_price = InitAround(p)
         /\ Recenter(s, p).best = s.best /\ Recenter(s, p).best_qty = s.best_qty
<1> DEFINE o == [x \in DOMAIN s.overflow \cup NonEmpty(s.grid) |->
                               IF x \in DOMAIN s.overflow THEN s.overflow[x] ELSE s.grid[x]]
<1>1. o \in LevelMaps
  BY LevelMapMerge DEF SideType
<1>2. Recenter(s, p) = [s EXCEPT !.overflow = o, !.grid = EmptyMap, !.initialized = TRUE,
                                 !.start_price = InitAround(p)]
  BY DEF Recenter, SideType
<1> HIDE DEF o
<1>3. Recenter(s, p) = [initialized |-> TRUE, start_price |-> InitAround(p), grid |-> EmptyMap,
                        overflow |-> o, best |-> s.best, best_qty |-> s.best_qty]
  BY <1>2 DEF SideType
<1>4. Recenter(s, p) \in SideType
  BY <1>1, <1>3, InitAroundType, EmptyMapType DEF SideType
<1> QED BY <1>3, <1>4 DEF o

\* The field that InGrid and InOverflow change.
LEMMA InGridFields ==
  ASSUME NEW s \in SideType, NEW p \in Prices
  PROVE  LET e == InGrid(s, p)
         IN  /\ e \in SideType
             /\ DOMAIN e.grid = DOMAIN s.grid \cup {p}
             /\ \A x \in DOMAIN s.grid : e.grid[x] = s.grid[x]
             /\ p \notin DOMAIN s.grid => e.grid[p] = EmptyLevel
             /\ e.overflow = s.overflow /\ e.initialized = s.initialized
             /\ e.start_price = s.start_price /\ e.best = s.best /\ e.best_qty = s.best_qty
<1> DEFINE g == OrDefault(s.grid, p, EmptyLevel)
<1>1. g \in LevelMaps
  BY LevelMapWith, EmptyLevelType DEF SideType, OrDefault
<1>2. /\ DOMAIN g = DOMAIN s.grid \cup {p}
      /\ \A x \in DOMAIN s.grid : g[x] = s.grid[x]
      /\ p \notin DOMAIN s.grid => g[p] = EmptyLevel
  BY DEF OrDefault, With
<1>3. InGrid(s, p) = [s EXCEPT !.grid = g]
  BY DEF InGrid
<1> HIDE DEF g
<1>4. InGrid(s, p) = [initialized |-> s.initialized, start_price |-> s.start_price, grid |-> g,
                      overflow |-> s.overflow, best |-> s.best, best_qty |-> s.best_qty]
  BY <1>3 DEF SideType
<1>5. InGrid(s, p) \in SideType
  BY <1>1, <1>4 DEF SideType
<1> QED BY <1>2, <1>4, <1>5

LEMMA InOverflowFields ==
  ASSUME NEW s \in SideType, NEW p \in Prices
  PROVE  LET e == InOverflow(s, p)
         IN  /\ e \in SideType
             /\ DOMAIN e.overflow = DOMAIN s.overflow \cup {p}
             /\ \A x \in DOMAIN s.overflow : e.overflow[x] = s.overflow[x]
             /\ p \notin DOMAIN s.overflow => e.overflow[p] = EmptyLevel
             /\ e.grid = s.grid /\ e.initialized = s.initialized
             /\ e.start_price = s.start_price /\ e.best = s.best /\ e.best_qty = s.best_qty
<1> DEFINE g == OrDefault(s.overflow, p, EmptyLevel)
<1>1. g \in LevelMaps
  BY LevelMapWith, EmptyLevelType DEF SideType, OrDefault
<1>2. /\ DOMAIN g = DOMAIN s.overflow \cup {p}
      /\ \A x \in DOMAIN s.overflow : g[x] = s.overflow[x]
      /\ p \notin DOMAIN s.overflow => g[p] = EmptyLevel
  BY DEF OrDefault, With
<1>3. InOverflow(s, p) = [s EXCEPT !.overflow = g]
  BY DEF InOverflow
<1> HIDE DEF g
<1>4. InOverflow(s, p) = [initialized |-> s.initialized, start_price |-> s.start_price,
                          grid |-> s.grid, overflow |-> g, best |-> s.best, best_qty |-> s.best_qty]
  BY <1>3 DEF SideType
<1>5. InOverflow(s, p) \in SideType
  BY <1>1, <1>4 DEF SideType
<1> QED BY <1>2, <1>4, <1>5

\* ensure_level_mut ends in one of three ways.
LEMMA EnsureLevelCases ==
  ASSUME NEW s, NEW p
  PROVE  \/ InWindow(s, p) /\ EnsureLevel(s, p) = InGrid(s, p)
         \/ ~InWindow(s, p) /\ p % Tick # 0 /\ EnsureLevel(s, p) = InOverflow(s, p)
         \/ /\ ~InWindow(s, p) /\ p % Tick = 0
            /\ \/ InWindow(Recenter(s, p), p) /\ EnsureLevel(s, p) = InGrid(Recenter(s, p), p)
               \/ EnsureLevel(s, p) = InOverflow(Recenter(s, p), p)
BY DEF EnsureLevel

LEMMA EnsureLevelType ==
  ASSUME NEW s \in SideType, NEW p \in Prices
  PROVE  /\ EnsureLevel(s, p) \in SideType
         /\ HasLevel(EnsureLevel(s, p), p)
         /\ EnsureLevel(s, p).best = s.best /\ EnsureLevel(s, p).best_qty = s.best_qty
<1> DEFINE r == Recenter(s, p)
<1>1. r \in SideType /\ r.best = s.best /\ r.best_qty = s.best_qty
  BY RecenterFields
<1>2. CASE EnsureLevel(s, p) = InGrid(s, p)
  BY <1>2, InGridFields DEF HasLevel
<1>3. CASE EnsureLevel(s, p) = InOverflow(s, p)
  BY <1>3, InOverflowFields DEF HasLevel
<1> HIDE DEF r
<1>4. CASE EnsureLevel(s, p) = InGrid(r, p)
  BY <1>1, <1>4, InGridFields DEF HasLevel
<1>5. CASE EnsureLevel(s, p) = InOverflow(r, p)
  BY <1>1, <1>5, InOverflowFields DEF HasLevel
<1> QED BY <1>2, <1>3, <1>4, <1>5, EnsureLevelCases DEF r

\* The level at a price has the type of a level.
LEMMA LevelAtType ==
  ASSUME NEW s \in SideType, NEW p, HasLevel(s, p)
  PROVE  LevelAt(s, p) \in LevelType /\ p \in Prices
BY LevelMapFacts DEF SideType, HasLevel, LevelAt

\* SetLevel replaces the level at a price and nothing else.
LEMMA SetLevelFields ==
  ASSUME NEW s \in SideType, NEW p, HasLevel(s, p), NEW l \in LevelType
  PROVE  LET t == SetLevel(s, p, l)
         IN  /\ t \in SideType
             /\ DOMAIN t.grid = DOMAIN s.grid /\ DOMAIN t.overflow = DOMAIN s.overflow
             /\ LevelAt(t, p) = l
             /\ \A x : HasLevel(s, x) /\ x # p => LevelAt(t, x) = LevelAt(s, x)
             /\ \A x \in DOMAIN s.grid : x # p => t.grid[x] = s.grid[x]
             /\ p \in DOMAIN s.grid => t.grid[p] = l
             /\ t.initialized = s.initialized /\ t.start_price = s.start_price
             /\ t.best = s.best /\ t.best_qty = s.best_qty
<1> DEFINE t == SetLevel(s, p, l)
           g == IF p \in DOMAIN s.grid THEN [s.grid EXCEPT ![p] = l] ELSE s.grid
           o == IF p \in DOMAIN s.grid THEN s.overflow ELSE [s.overflow EXCEPT ![p] = l]
<1>1. g \in LevelMaps /\ o \in LevelMaps
  BY LevelMapExcept DEF SideType
<1>2. /\ DOMAIN g = DOMAIN s.grid /\ DOMAIN o = DOMAIN s.overflow
      /\ \A x \in DOMAIN s.grid : g[x] = IF x = p THEN l ELSE s.grid[x]
      /\ \A x \in DOMAIN s.overflow :
           o[x] = IF x = p /\ p \notin DOMAIN s.grid THEN l ELSE s.overflow[x]
  OBVIOUS
<1>3. t = IF p \in DOMAIN s.grid THEN [s EXCEPT !.grid = g] ELSE [s EXCEPT !.overflow = o]
  BY DEF SetLevel, SideType
<1>4. t = [initialized |-> s.initialized, start_price |-> s.start_price, grid |-> g,
           overflow |-> o, best |-> s.best, best_qty |-> s.best_qty]
  <2>1. p \in DOMAIN s.grid => o = s.overflow
    OBVIOUS
  <2>2. p \notin DOMAIN s.grid => g = s.grid
    OBVIOUS
  <2> HIDE DEF g, o, t
  <2> QED BY <1>3, <2>1, <2>2 DEF SideType
<1> HIDE DEF g, o, t
<1>5. t \in SideType
  BY <1>1, <1>4 DEF SideType
<1>6. LevelAt(t, p) = l
  BY <1>2, <1>4 DEF LevelAt, HasLevel
<1>7. \A x : HasLevel(s, x) /\ x # p => LevelAt(t, x) = LevelAt(s, x)
  BY <1>2, <1>4 DEF LevelAt, HasLevel
<1> QED BY <1>2, <1>4, <1>5, <1>6, <1>7 DEF t

LEMMA SetLevelRest ==
  ASSUME NEW s \in SideType, NEW p, HasLevel(s, p), NEW l \in LevelType
  PROVE  /\ SetLevel(s, p, l) \in SideType
         /\ SetLevel(s, p, l).initialized = s.initialized
         /\ SetLevel(s, p, l).start_price = s.start_price
         /\ SetLevel(s, p, l).best = s.best /\ SetLevel(s, p, l).best_qty = s.best_qty
BY SetLevelFields

\* remove_level_if_empty takes a price with an empty level away, where the price has
\* one level.
LEMMA RemoveIfEmptyFields ==
  ASSUME NEW s \in SideType, NEW p
  PROVE  LET r == RemoveIfEmpty(s, p)
         IN  /\ r \in SideType
             /\ r.initialized = s.initialized /\ r.start_price = s.start_price
             /\ r.best = s.best /\ r.best_qty = s.best_qty
             /\ DOMAIN r.grid \subseteq DOMAIN s.grid
             /\ DOMAIN r.overflow \subseteq DOMAIN s.overflow
             /\ \A x \in DOMAIN r.grid : r.grid[x] = s.grid[x]
             /\ \A x : HasLevel(s, x) /\ x # p
                         => HasLevel(r, x) /\ LevelAt(r, x) = LevelAt(s, x)
             /\ (HasLevel(s, p) /\ LevelAt(s, p).count = 0
                 /\ DOMAIN s.grid \cap DOMAIN s.overflow = {}) => ~HasLevel(r, p)
<1> DEFINE r == RemoveIfEmpty(s, p)
<1>1. CASE r = s /\ ~(p \in DOMAIN s.grid \ NonEmpty(s.grid))
           /\ ~(p \notin DOMAIN s.grid /\ p \in DOMAIN s.overflow \ NonEmpty(s.overflow))
  BY <1>1 DEF HasLevel, LevelAt, NonEmpty
<1>2. CASE p \in DOMAIN s.grid \ NonEmpty(s.grid) /\ r = [s EXCEPT !.grid = Without(s.grid, p)]
  <2> DEFINE g == Without(s.grid, p)
  <2>1. g \in LevelMaps
    BY LevelMapWithout DEF SideType
  <2>2. DOMAIN g = DOMAIN s.grid \ {p} /\ \A x \in DOMAIN g : g[x] = s.grid[x]
    BY DEF Without
  <2> HIDE DEF g
  <2>3. r = [initialized |-> s.initialized, start_price |-> s.start_price, grid |-> g,
             overflow |-> s.overflow, best |-> s.best, best_qty |-> s.best_qty]
    <3> HIDE DEF r
    <3> QED BY <1>2 DEF SideType, g
  <2>4. r \in SideType
    BY <2>1, <2>3 DEF SideType
  <2> HIDE DEF r
  <2>5. \A x : HasLevel(s, x) /\ x # p => HasLevel(r, x) /\ LevelAt(r, x) = LevelAt(s, x)
    BY <2>2, <2>3 DEF HasLevel, LevelAt
  <2>6. DOMAIN s.grid \cap DOMAIN s.overflow = {} => ~HasLevel(r, p)
    BY <1>2, <2>2, <2>3 DEF HasLevel
  <2> QED BY <2>2, <2>3, <2>4, <2>5, <2>6 DEF r
<1>3. CASE /\ p \notin DOMAIN s.grid /\ p \in DOMAIN s.overflow \ NonEmpty(s.overflow)
           /\ r = [s EXCEPT !.overflow = Without(s.overflow, p)]
  <2> DEFINE g == Without(s.overflow, p)
  <2>1. g \in LevelMaps
    BY LevelMapWithout DEF SideType
  <2>2. DOMAIN g = DOMAIN s.overflow \ {p} /\ \A x \in DOMAIN g : g[x] = s.overflow[x]
    BY DEF Without
  <2> HIDE DEF g
  <2>3. r = [initialized |-> s.initialized, start_price |-> s.start_price, grid |-> s.grid,
             overflow |-> g, best |-> s.best, best_qty |-> s.best_qty]
    <3> HIDE DEF r
    <3> QED BY <1>3 DEF SideType, g
  <2>4. r \in SideType
    BY <2>1, <2>3 DEF SideType
  <2> HIDE DEF r
  <2>5. \A x : HasLevel(s, x) /\ x # p => HasLevel(r, x) /\ LevelAt(r, x) = LevelAt(s, x)
    BY <2>2, <2>3 DEF HasLevel, LevelAt
  <2>6. ~HasLevel(r, p)
    BY <1>3, <2>2, <2>3 DEF HasLevel
  <2> QED BY <2>2, <2>3, <2>4, <2>5, <2>6 DEF r
<1>4. \/ r = s /\ ~(p \in DOMAIN s.grid \ NonEmpty(s.grid))
           /\ ~(p \notin DOMAIN s.grid /\ p \in DOMAIN s.overflow \ NonEmpty(s.overflow))
      \/ p \in DOMAIN s.grid \ NonEmpty(s.grid) /\ r = [s EXCEPT !.grid = Without(s.grid, p)]
      \/ /\ p \notin DOMAIN s.grid /\ p \in DOMAIN s.overflow \ NonEmpty(s.overflow)
         /\ r = [s EXCEPT !.overflow = Without(s.overflow, p)]
  BY DEF RemoveIfEmpty, NonEmpty
<1> QED BY <1>1, <1>2, <1>3, <1>4

\* The two fields that change when the best price is set.
LEMMA SetBestFields ==
  ASSUME NEW s \in SideType, NEW b \in Seq(Prices), NEW q \in Int
  PROVE  /\ [s EXCEPT !.best = b, !.best_qty = q] \in SideType
         /\ [s EXCEPT !.best = b, !.best_qty = q]
              = [initialized |-> s.initialized, start_price |-> s.start_price, grid |-> s.grid,
                 overflow |-> s.overflow, best |-> b, best_qty |-> q]
<1> DEFINE t == [s EXCEPT !.best = b]
<1>1. t = [initialized |-> s.initialized, start_price |-> s.start_price, grid |-> s.grid,
           overflow |-> s.overflow, best |-> b, best_qty |-> s.best_qty]
  BY DEF SideType
<1>2. [s EXCEPT !.best = b, !.best_qty = q] = [t EXCEPT !.best_qty = q]
  OBVIOUS
<1> HIDE DEF t
<1>3. [t EXCEPT !.best_qty = q]
        = [initialized |-> s.initialized, start_price |-> s.start_price, grid |-> s.grid,
           overflow |-> s.overflow, best |-> b, best_qty |-> q]
  BY <1>1
<1> QED BY <1>2, <1>3 DEF SideType

LEMMA SetBestQtyFields ==
  ASSUME NEW s \in SideType, NEW q \in Int
  PROVE  /\ [s EXCEPT !.best_qty = q] \in SideType
         /\ [s EXCEPT !.best_qty = q]
              = [initialized |-> s.initialized, start_price |-> s.start_price, grid |-> s.grid,
                 overflow |-> s.overflow, best |-> s.best, best_qty |-> q]
<1>1. [s EXCEPT !.best_qty = q]
              = [initialized |-> s.initialized, start_price |-> s.start_price, grid |-> s.grid,
                 overflow |-> s.overflow, best |-> s.best, best_qty |-> q]
  BY DEF SideType
<1> QED BY <1>1 DEF SideType

\* recompute_best_after_removal takes the best price that has a level, where no grid
\* level is empty.
BestRecomputed(s, r, side, ps, p) ==
  /\ r \in SideType
  /\ r.grid = s.grid /\ r.overflow = s.overflow
  /\ r.initialized = s.initialized /\ r.start_price = s.start_price
  /\ ps = {} => r.best = <<>>
  /\ ps # {} => /\ p \in ps /\ r.best = <<p>>
                /\ \A q \in ps : ~Better(side, q, p)
                /\ NonEmpty(s.grid) = DOMAIN s.grid => r.best_qty = LevelAt(s, p).total_qty

LEMMA RecomputeBestFields ==
  ASSUME NEW s \in SideType, NEW side \in Sides
  PROVE  LET ps == NonEmpty(s.grid) \cup DOMAIN s.overflow
         IN  BestRecomputed(s, RecomputeBest(s, side), side, ps, BestOf(side, ps))
<1> DEFINE r == RecomputeBest(s, side)
           ps == NonEmpty(s.grid) \cup DOMAIN s.overflow
           p == BestOf(side, ps)
           l == IF p \in NonEmpty(s.grid) THEN s.grid[p] ELSE s.overflow[p]
<1>1. NonEmpty(s.grid) \subseteq DOMAIN s.grid
  BY DEF NonEmpty
<1>2. ps \subseteq Prices /\ IsFiniteSet(ps)
  <2>1. IsFiniteSet(NonEmpty(s.grid)) /\ IsFiniteSet(DOMAIN s.overflow)
    BY <1>1, LevelMapFacts, FS_Subset DEF SideType
  <2>2. IsFiniteSet(ps)
    BY <2>1, FS_Union
  <2> QED BY <1>1, <2>2, LevelMapFacts DEF SideType
<1>3. CASE ps = {}
  <2>1. r = [s EXCEPT !.best = <<>>, !.best_qty = 0]
    BY <1>3 DEF RecomputeBest
  <2> HIDE DEF r, ps
  <2>2. /\ r \in SideType /\ r.grid = s.grid /\ r.overflow = s.overflow
        /\ r.initialized = s.initialized /\ r.start_price = s.start_price /\ r.best = <<>>
    <3>1. <<>> \in Seq(Prices) /\ 0 \in Int
      OBVIOUS
    <3>2. /\ r \in SideType
          /\ r = [initialized |-> s.initialized, start_price |-> s.start_price, grid |-> s.grid,
                  overflow |-> s.overflow, best |-> <<>>, best_qty |-> 0]
      BY <2>1, <3>1, SetBestFields, Zenon
    <3> QED BY <3>2
  <2>3. BestRecomputed(s, r, side, ps, p)
    BY <2>2, <1>3, Zenon DEF BestRecomputed
  <2> QED BY <2>3 DEF r, ps
<1>4. CASE ps # {}
  <2>1. r = [s EXCEPT !.best = <<p>>, !.best_qty = l.total_qty]
    BY <1>4 DEF RecomputeBest
  <2>2. p \in ps /\ \A q \in ps : ~Better(side, q, p)
    <3> HIDE DEF ps
    <3> QED BY <1>2, <1>4, BestOfProperties, SideAssumption
  <2>3. p \in Prices
    <3> HIDE DEF ps
    <3> QED BY <1>2, <2>2
  <2>4. l \in LevelType
    <3> HIDE DEF p
    <3> QED BY <1>1, <2>2, LevelMapFacts DEF SideType
  <2>5. l.total_qty \in Int
    <3> HIDE DEF l
    <3> QED BY <2>4 DEF LevelType
  <2>6. NonEmpty(s.grid) = DOMAIN s.grid => l = LevelAt(s, p)
    <3> HIDE DEF p
    <3> QED BY DEF LevelAt
  <2> HIDE DEF r, p, l, ps
  <2>7. /\ r \in SideType /\ r.grid = s.grid /\ r.overflow = s.overflow
        /\ r.initialized = s.initialized /\ r.start_price = s.start_price
        /\ r.best = <<p>> /\ r.best_qty = l.total_qty
    <3>1. <<p>> \in Seq(Prices)
      BY <2>3
    <3>2. /\ r \in SideType
          /\ r = [initialized |-> s.initialized, start_price |-> s.start_price, grid |-> s.grid,
                  overflow |-> s.overflow, best |-> <<p>>, best_qty |-> l.total_qty]
      BY <2>1, <2>5, <3>1, SetBestFields, Zenon
    <3> QED BY <3>2
  <2>8. NonEmpty(s.grid) = DOMAIN s.grid => r.best_qty = LevelAt(s, p).total_qty
    BY <2>6, <2>7
  <2>9. BestRecomputed(s, r, side, ps, p)
    BY <1>4, <2>2, <2>7, <2>8, Zenon DEF BestRecomputed
  <2> QED BY <2>9 DEF r, p, ps
<1> QED BY <1>3, <1>4

----------------------------------------------------------------------------
(***************************************************************************)
(* Where a side's levels are.                                              *)
(***************************************************************************)
\* A price has at most one level.  The grid's levels lie in its window and are not
\* empty, and the window starts at a multiple of the tick.
SideShape(s) ==
  /\ DOMAIN s.grid \cap DOMAIN s.overflow = {}
  /\ \A x \in DOMAIN s.grid : InWindow(s, x) /\ s.grid[x].count # 0
  /\ s.initialized => s.start_price % Tick = 0

\* Division with remainder by the tick.
LEMMA TickDivision ==
  ASSUME NEW x \in Int
  PROVE  /\ x \div Tick \in Int /\ x % Tick \in 0 .. Tick - 1
         /\ x = Tick * (x \div Tick) + (x % Tick)
BY SideAssumption

LEMMA MultipleOfTick ==
  ASSUME NEW k \in Int
  PROVE  (Tick * k) % Tick = 0
<1> DEFINE x == Tick * k
<1>1. x \in Int
  BY SideAssumption
<1>2. PICK d \in Int, r \in 0 .. Tick - 1 : d = x \div Tick /\ r = x % Tick /\ x = Tick * d + r
  BY <1>1, TickDivision
<1>3. Tick * (k - d) = r
  BY <1>2, SideAssumption
<1>4. k - d = 0
  <2>1. CASE k - d >= 1
    <3>1. Tick * (k - d) >= Tick
      BY <2>1, SideAssumption
    <3> QED BY <3>1, <1>2, <1>3, SideAssumption
  <2>2. CASE k - d <= 0 - 1
    <3>1. Tick * (k - d) <= 0 - Tick
      BY <2>2, SideAssumption
    <3> QED BY <3>1, <1>2, <1>3, SideAssumption
  <2> QED BY <2>1, <2>2
<1> QED BY <1>2, <1>3, <1>4, SideAssumption

\* The window starts at a multiple of the tick, so it holds only such prices.
LEMMA InitAroundAligned ==
  ASSUME NEW p \in Int
  PROVE  InitAround(p) % Tick = 0
<1> DEFINE d == p \div Tick
           c == Span \div 2
<1>1. d \in Int /\ c \in Int /\ p - (p % Tick) = Tick * d
  BY TickDivision, SideAssumption
<1> HIDE DEF d, c
<1>2. InitAround(p) = Tick * (d - c)
  BY <1>1, SideAssumption DEF InitAround, c
<1> QED BY <1>1, <1>2, MultipleOfTick

LEMMA AlignedIsMultiple ==
  ASSUME NEW x \in Int, x % Tick = 0
  PROVE  \E k \in Int : x = Tick * k
<1>1. PICK d \in Int, r \in 0 .. Tick - 1 : d = x \div Tick /\ r = x % Tick /\ x = Tick * d + r
  BY TickDivision
<1>2. Tick * d \in Int
  BY SideAssumption
<1>3. x = Tick * d
  <2> DEFINE y == Tick * d
  <2>1. r = 0 /\ x = y + r /\ y \in Int
    BY <1>1, <1>2
  <2> HIDE DEF y
  <2>2. x = y
    BY <2>1
  <2> QED BY <2>2 DEF y
<1> QED BY <1>3

LEMMA WindowAligned ==
  ASSUME NEW s, NEW p \in Int, InWindow(s, p), s.start_price \in Int, s.start_price % Tick = 0
  PROVE  p % Tick = 0
<1> DEFINE a == s.start_price
<1>1. a \in Int /\ a % Tick = 0 /\ p - a \in Int /\ (p - a) % Tick = 0
  BY DEF InWindow
<1> HIDE DEF a
<1>2. PICK k \in Int : a = Tick * k
  BY <1>1, AlignedIsMultiple
<1>3. PICK c \in Int : p - a = Tick * c
  BY <1>1, AlignedIsMultiple
<1>4. p = Tick * (k + c)
  BY <1>1, <1>2, <1>3, SideAssumption
<1> QED BY <1>4, MultipleOfTick

\* The window depends on two fields.
LEMMA SameWindow ==
  ASSUME NEW s, NEW t, NEW x, t.initialized = s.initialized, t.start_price = s.start_price,
         InWindow(s, x)
  PROVE  InWindow(t, x)
BY Zenon DEF InWindow

\* A level at p, empty if it is new; the other levels are untouched.  (The level at p is
\* about to get an order, so the grid's level at p is not asked to be filled.)
LevelAdded(s, e, p) ==
  /\ DOMAIN e.grid \cap DOMAIN e.overflow = {}
  /\ \A x \in DOMAIN e.grid : InWindow(e, x) /\ (x # p => e.grid[x].count # 0)
  /\ e.initialized => e.start_price % Tick = 0
  /\ \A x : HasLevel(e, x) <=> HasLevel(s, x) \/ x = p
  /\ \A x : HasLevel(s, x) => LevelAt(e, x) = LevelAt(s, x)
  /\ ~HasLevel(s, p) => LevelAt(e, p) = EmptyLevel

LEMMA InGridAdds ==
  ASSUME NEW s \in SideType, SideShape(s), NEW p \in Prices, InWindow(s, p),
         p \notin DOMAIN s.overflow
  PROVE  LevelAdded(s, InGrid(s, p), p)
<1> DEFINE e == InGrid(s, p)
<1>1. /\ e \in SideType
      /\ DOMAIN e.grid = DOMAIN s.grid \cup {p}
      /\ \A x \in DOMAIN s.grid : e.grid[x] = s.grid[x]
      /\ p \notin DOMAIN s.grid => e.grid[p] = EmptyLevel
      /\ e.overflow = s.overflow /\ e.initialized = s.initialized
      /\ e.start_price = s.start_price
  BY InGridFields, Zenon
<1> HIDE DEF e
<1>2. \A x \in DOMAIN e.grid : InWindow(e, x)
  <2> SUFFICES ASSUME NEW x \in DOMAIN e.grid PROVE InWindow(e, x)
      OBVIOUS
  <2>1. InWindow(s, x)
    BY <1>1 DEF SideShape
  <2> QED BY <1>1, <2>1, SameWindow, Zenon
<1>3. \A x \in DOMAIN e.grid : x # p => e.grid[x].count # 0
  BY <1>1 DEF SideShape
<1>4. e.initialized => e.start_price % Tick = 0
  BY <1>1, Zenon DEF SideShape
<1>5. DOMAIN e.grid \cap DOMAIN e.overflow = {}
  BY <1>1 DEF SideShape
<1>6. \A x : HasLevel(e, x) <=> HasLevel(s, x) \/ x = p
  BY <1>1 DEF HasLevel
<1>7. \A x : HasLevel(s, x) => LevelAt(e, x) = LevelAt(s, x)
  BY <1>1 DEF HasLevel, LevelAt
<1>8. ~HasLevel(s, p) => LevelAt(e, p) = EmptyLevel
  BY <1>1 DEF HasLevel, LevelAt
<1>9. LevelAdded(s, e, p)
  BY <1>2, <1>3, <1>4, <1>5, <1>6, <1>7, <1>8, Zenon DEF LevelAdded
<1> QED BY <1>9 DEF e

LEMMA InOverflowAdds ==
  ASSUME NEW s \in SideType, SideShape(s), NEW p \in Prices, p \notin DOMAIN s.grid
  PROVE  LevelAdded(s, InOverflow(s, p), p)
<1> DEFINE e == InOverflow(s, p)
<1>1. /\ e \in SideType
      /\ DOMAIN e.overflow = DOMAIN s.overflow \cup {p}
      /\ \A x \in DOMAIN s.overflow : e.overflow[x] = s.overflow[x]
      /\ p \notin DOMAIN s.overflow => e.overflow[p] = EmptyLevel
      /\ e.grid = s.grid /\ e.initialized = s.initialized
      /\ e.start_price = s.start_price
  BY InOverflowFields, Zenon
<1> HIDE DEF e
<1>2. \A x \in DOMAIN e.grid : InWindow(e, x)
  <2> SUFFICES ASSUME NEW x \in DOMAIN e.grid PROVE InWindow(e, x)
      OBVIOUS
  <2>1. InWindow(s, x)
    BY <1>1 DEF SideShape
  <2> QED BY <1>1, <2>1, SameWindow, Zenon
<1>3. \A x \in DOMAIN e.grid : x # p => e.grid[x].count # 0
  BY <1>1 DEF SideShape
<1>4. e.initialized => e.start_price % Tick = 0
  BY <1>1, Zenon DEF SideShape
<1>5. DOMAIN e.grid \cap DOMAIN e.overflow = {}
  BY <1>1 DEF SideShape
<1>6. \A x : HasLevel(e, x) <=> HasLevel(s, x) \/ x = p
  BY <1>1 DEF HasLevel
<1>7. \A x : HasLevel(s, x) => LevelAt(e, x) = LevelAt(s, x)
  BY <1>1 DEF HasLevel, LevelAt
<1>8. ~HasLevel(s, p) => LevelAt(e, p) = EmptyLevel
  BY <1>1 DEF HasLevel, LevelAt
<1>9. LevelAdded(s, e, p)
  BY <1>2, <1>3, <1>4, <1>5, <1>6, <1>7, <1>8, Zenon DEF LevelAdded
<1> QED BY <1>9 DEF e

\* Recentering moves every level to overflow: the map from prices to levels stays.
LEMMA RecenterKeepsLevels ==
  ASSUME NEW s \in SideType, SideShape(s), NEW p \in Prices
  PROVE  LET r == Recenter(s, p)
         IN  /\ SideShape(r) /\ DOMAIN r.grid = {}
             /\ DOMAIN r.overflow = DOMAIN s.overflow \cup DOMAIN s.grid
             /\ \A x : HasLevel(r, x) <=> HasLevel(s, x)
             /\ \A x : HasLevel(s, x) => LevelAt(r, x) = LevelAt(s, x)
<1> DEFINE r == Recenter(s, p)
<1>1. /\ r.grid = EmptyMap
      /\ r.overflow = [x \in DOMAIN s.overflow \cup NonEmpty(s.grid) |->
                         IF x \in DOMAIN s.overflow THEN s.overflow[x] ELSE s.grid[x]]
      /\ r.start_price = InitAround(p)
  BY RecenterFields
<1> HIDE DEF r
<1>2. DOMAIN r.grid = {} /\ NonEmpty(s.grid) = DOMAIN s.grid
  BY <1>1, EmptyMapType DEF SideShape, NonEmpty
<1>3. r.start_price % Tick = 0
  BY <1>1, InitAroundAligned, SideAssumption
<1>4. SideShape(r)
  BY <1>2, <1>3 DEF SideShape
<1>5. \A x : HasLevel(r, x) <=> HasLevel(s, x)
  BY <1>1, <1>2 DEF HasLevel
<1>6. \A x : HasLevel(s, x) => LevelAt(r, x) = LevelAt(s, x)
  BY <1>1, <1>2 DEF HasLevel, LevelAt, SideShape
<1>7. DOMAIN r.overflow = DOMAIN s.overflow \cup DOMAIN s.grid
  BY <1>1, <1>2
<1> QED BY <1>2, <1>4, <1>5, <1>6, <1>7 DEF r

\* ensure_level_mut adds a level, where the price does not lie in overflow while it
\* belongs in the grid.
LEMMA EnsureLevelAdds ==
  ASSUME NEW s \in SideType, SideShape(s), NEW p \in Prices,
         p % Tick # 0 \/ p \notin DOMAIN s.overflow
  PROVE  LevelAdded(s, EnsureLevel(s, p), p)
<1> DEFINE r == Recenter(s, p)
<1>1. CASE InWindow(s, p) /\ EnsureLevel(s, p) = InGrid(s, p)
  <2>1. s.initialized /\ s.start_price \in Int
    BY <1>1 DEF InWindow, SideType
  <2>2. p % Tick = 0
    BY <1>1, <2>1, WindowAligned, SideAssumption DEF SideShape
  <2> QED BY <1>1, <2>2, InGridAdds
<1>2. CASE ~InWindow(s, p) /\ EnsureLevel(s, p) = InOverflow(s, p)
  <2>1. p \notin DOMAIN s.grid
    BY <1>2 DEF SideShape
  <2> QED BY <1>2, <2>1, InOverflowAdds
<1>3. CASE /\ ~InWindow(s, p) /\ p % Tick = 0
           /\ \/ InWindow(r, p) /\ EnsureLevel(s, p) = InGrid(r, p)
              \/ EnsureLevel(s, p) = InOverflow(r, p)
  <2>1. /\ r \in SideType /\ SideShape(r) /\ DOMAIN r.grid = {}
        /\ DOMAIN r.overflow = DOMAIN s.overflow \cup DOMAIN s.grid
        /\ \A x : HasLevel(r, x) <=> HasLevel(s, x)
        /\ \A x : HasLevel(s, x) => LevelAt(r, x) = LevelAt(s, x)
    BY RecenterFields, RecenterKeepsLevels
  <2> HIDE DEF r
  <2>2. p \notin DOMAIN r.overflow /\ p \notin DOMAIN r.grid
    BY <1>3, <2>1 DEF SideShape
  <2>3. LevelAdded(r, EnsureLevel(s, p), p)
    BY <1>3, <2>1, <2>2, InGridAdds, InOverflowAdds
  <2> QED BY <2>1, <2>3 DEF LevelAdded
<1> QED BY <1>1, <1>2, <1>3, EnsureLevelCases

----------------------------------------------------------------------------
(***************************************************************************)
(* What add, set_qty and cancel do to a side.                              *)
(***************************************************************************)
\* A level that an order joins is not empty.
LEMMA JoinedType ==
  ASSUME NEW l \in LevelType, NEW h \in Handles, NEW q \in Int
  PROVE  Joined(l, h, q) \in LevelType /\ Joined(l, h, q).count # 0
BY SideAssumption DEF Joined, LevelType, Handles

\* add: the level gets the order and the best price is the better of the two.
LEMMA AddInSideEffect ==
  ASSUME NEW s \in SideType, NEW h \in Handles, NEW p \in Prices, NEW q \in Nat, NEW side \in Sides
  PROVE  LET e == EnsureLevel(s, p)
             m == Joined(LevelAt(e, p), h, q)
             t == SetLevel(e, p, m)
             a == AddInSide(s, h, p, q, side)
         IN  /\ a \in SideType
             /\ a.grid = t.grid /\ a.overflow = t.overflow
             /\ a.initialized = e.initialized /\ a.start_price = e.start_price
             /\ IF s.best \in {<<>>, <<p>>} \/ Better(side, p, s.best[1])
                THEN a.best = <<p>> /\ a.best_qty = m.total_qty
                ELSE a.best = s.best /\ a.best_qty = s.best_qty
<1> DEFINE e == EnsureLevel(s, p)
           m == Joined(LevelAt(e, p), h, q)
           t == SetLevel(e, p, m)
           a == AddInSide(s, h, p, q, side)
           first == t.best \in {<<>>, <<p>>} \/ Better(side, p, t.best[1])
<1>1. e \in SideType /\ HasLevel(e, p) /\ e.best = s.best /\ e.best_qty = s.best_qty
  BY EnsureLevelType
<1>2. m \in LevelType
  <2> HIDE DEF e
  <2> QED BY <1>1, LevelAtType, JoinedType
<1>3. /\ t \in SideType /\ t.best = e.best /\ t.best_qty = e.best_qty
      /\ t.initialized = e.initialized /\ t.start_price = e.start_price
  <2> HIDE DEF e, m
  <2> QED BY <1>1, <1>2, SetLevelRest, Zenon
<1>4. m.total_qty \in Int
  <2> HIDE DEF m
  <2> QED BY <1>2 DEF LevelType
<1>5. a = IF first THEN [t EXCEPT !.best = <<p>>, !.best_qty = m.total_qty] ELSE t
  BY Zenon DEF AddInSide
<1> HIDE DEF e, m, t, a
<1>6. first <=> (s.best \in {<<>>, <<p>>} \/ Better(side, p, s.best[1]))
  BY <1>1, <1>3, Zenon
<1>7. CASE first
  <2> DEFINE u == [t EXCEPT !.best = <<p>>, !.best_qty = m.total_qty]
  <2>1. a = u
    BY <1>5, <1>7, Zenon
  <2>2. <<p>> \in Seq(Prices)
    OBVIOUS
  <2>3. /\ u \in SideType
        /\ u = [initialized |-> t.initialized, start_price |-> t.start_price, grid |-> t.grid,
                overflow |-> t.overflow, best |-> <<p>>, best_qty |-> m.total_qty]
    BY <1>3, <1>4, <2>2, SetBestFields, Zenon
  <2> HIDE DEF u
  <2>4. /\ u.grid = t.grid /\ u.overflow = t.overflow /\ u.best = <<p>> /\ u.best_qty = m.total_qty
        /\ u.initialized = t.initialized /\ u.start_price = t.start_price
    BY <2>3
  <2> QED BY <1>3, <1>6, <1>7, <2>1, <2>3, <2>4, Zenon DEF e, m, t, a
<1>8. CASE ~first
  <2>1. a = t
    BY <1>5, <1>8, Zenon
  <2> QED BY <1>1, <1>3, <1>6, <1>8, <2>1, Zenon DEF e, m, t, a
<1> QED BY <1>7, <1>8, Zenon

LEMMA ResizedFields ==
  ASSUME NEW l \in LevelType, NEW d \in Int
  PROVE  /\ Resized(l, d) \in LevelType
         /\ Resized(l, d) = [head |-> l.head, tail |-> l.tail, count |-> l.count,
                             total_qty |-> l.total_qty + d]
BY DEF Resized, LevelType

\* set_qty: the level's total changes with the quantity.
LEMMA SetQtyInSideEffect ==
  ASSUME NEW s \in SideType, NEW n \in NodeType, NEW q \in Nat, HasLevel(s, n.price)
  PROVE  LET m == Resized(LevelAt(s, n.price), q - n.qty)
             t == SetLevel(s, n.price, m)
             a == SetQtyInSide(s, n, q)
         IN  /\ a \in SideType /\ m \in LevelType
             /\ a.grid = t.grid /\ a.overflow = t.overflow
             /\ a.initialized = s.initialized /\ a.start_price = s.start_price
             /\ a.best = s.best
             /\ a.best_qty = IF s.best = <<n.price>> THEN m.total_qty ELSE s.best_qty
<1> DEFINE l == LevelAt(s, n.price)
           m == Resized(l, q - n.qty)
           t == SetLevel(s, n.price, m)
           a == SetQtyInSide(s, n, q)
           u == [t EXCEPT !.best_qty = m.total_qty]
<1>1. l \in LevelType /\ n.qty \in Nat
  BY LevelAtType DEF NodeType
<1>2. m \in LevelType
  <2> HIDE DEF l
  <2> QED BY <1>1, ResizedFields
<1>3. m.total_qty \in Int
  <2> HIDE DEF m
  <2> QED BY <1>2 DEF LevelType
<1>4. a = IF s.best = <<n.price>> THEN u ELSE t
  BY DEF SetQtyInSide
<1> HIDE DEF l, m, a
<1>5. /\ t \in SideType /\ t.best = s.best /\ t.best_qty = s.best_qty
      /\ t.initialized = s.initialized /\ t.start_price = s.start_price
  BY <1>2, SetLevelRest, Zenon
<1> HIDE DEF t
<1>6. /\ u \in SideType
      /\ u = [initialized |-> t.initialized, start_price |-> t.start_price, grid |-> t.grid,
              overflow |-> t.overflow, best |-> t.best, best_qty |-> m.total_qty]
  BY <1>3, <1>5, SetBestQtyFields, Zenon
<1> HIDE DEF u
<1>7. /\ u.grid = t.grid /\ u.overflow = t.overflow /\ u.best = t.best /\ u.best_qty = m.total_qty
      /\ u.initialized = t.initialized /\ u.start_price = t.start_price
  BY <1>6
<1> QED BY <1>2, <1>4, <1>5, <1>6, <1>7, Zenon DEF a, t, m, l

LEMMA LeftType ==
  ASSUME NEW l \in LevelType, NEW n \in NodeType
  PROVE  Left(l, n) \in LevelType /\ Left(l, n).total_qty \in Int
BY DEF Left, LevelType, NodeType

\* cancel: the level loses the order; with its last order it goes and the best price
\* is computed anew.
LEMMA CancelInSideCases ==
  ASSUME NEW s \in SideType, NEW n \in NodeType, HasLevel(s, n.price)
  PROVE  LET m == Left(LevelAt(s, n.price), n)
             t == SetLevel(s, n.price, m)
             r == RemoveIfEmpty(t, n.price)
             a == CancelInSide(s, n)
         IN  /\ m \in LevelType /\ t \in SideType /\ r \in SideType
             /\ a = IF m.count = 0
                    THEN IF s.best = <<n.price>> THEN RecomputeBest(r, n.side) ELSE r
                    ELSE IF s.best = <<n.price>> THEN [t EXCEPT !.best_qty = m.total_qty] ELSE t
<1> DEFINE m == Left(LevelAt(s, n.price), n)
           t == SetLevel(s, n.price, m)
           r == RemoveIfEmpty(t, n.price)
           a == CancelInSide(s, n)
<1>1. m \in LevelType
  BY LevelAtType, LeftType
<1>2. a = IF m.count = 0
          THEN IF s.best = <<n.price>> THEN RecomputeBest(r, n.side) ELSE r
          ELSE IF s.best = <<n.price>> THEN [t EXCEPT !.best_qty = m.total_qty] ELSE t
  BY DEF CancelInSide
<1> HIDE DEF m
<1>3. t \in SideType
  BY <1>1, SetLevelRest, Zenon
<1> HIDE DEF t
<1>4. r \in SideType
  BY <1>3, RemoveIfEmptyFields, Zenon
<1> QED BY <1>1, <1>2, <1>3, <1>4, Zenon DEF t, m

\* The operations keep the type of a side.
LEMMA SideTypeKept ==
  ASSUME NEW s \in SideType
  PROVE  /\ \A h \in Handles, p \in Prices, q \in Nat, side \in Sides :
              AddInSide(s, h, p, q, side) \in SideType
         /\ \A n \in NodeType, q \in Nat : SetQtyInSide(s, n, q) \in SideType
         /\ \A n \in NodeType : CancelInSide(s, n) \in SideType
<1>1. \A h \in Handles, p \in Prices, q \in Nat, side \in Sides :
        AddInSide(s, h, p, q, side) \in SideType
  BY AddInSideEffect, Zenon
<1>2. ASSUME NEW n \in NodeType, NEW q \in Nat PROVE SetQtyInSide(s, n, q) \in SideType
  <2>1. CASE HasLevel(s, n.price)
    BY <2>1, SetQtyInSideEffect, Zenon
  <2>2. CASE ~HasLevel(s, n.price)
    <3>1. SetQtyInSide(s, n, q) = s
      BY <2>2 DEF SetQtyInSide
    <3> QED BY <3>1
  <2> QED BY <2>1, <2>2
<1>3. ASSUME NEW n \in NodeType PROVE CancelInSide(s, n) \in SideType
  <2>1. CASE ~HasLevel(s, n.price)
    <3>1. CancelInSide(s, n) = s
      BY <2>1 DEF CancelInSide
    <3> QED BY <3>1
  <2>2. CASE HasLevel(s, n.price)
    <3> DEFINE m == Left(LevelAt(s, n.price), n)
               t == SetLevel(s, n.price, m)
               r == RemoveIfEmpty(t, n.price)
    <3>1. /\ m \in LevelType /\ t \in SideType /\ r \in SideType
          /\ CancelInSide(s, n) \in {RecomputeBest(r, n.side), r, t,
                                     [t EXCEPT !.best_qty = m.total_qty]}
      BY <2>2, CancelInSideCases
    <3> HIDE DEF m, t, r
    <3>2. m.total_qty \in Int /\ n.side \in Sides
      BY <3>1 DEF LevelType, NodeType
    <3>3. RecomputeBest(r, n.side) \in SideType
      BY <3>1, <3>2, RecomputeBestFields, Zenon DEF BestRecomputed
    <3>4. [t EXCEPT !.best_qty = m.total_qty] \in SideType
      BY <3>1, <3>2, SetBestQtyFields, Zenon
    <3> QED BY <3>1, <3>3, <3>4, Zenon
  <2> QED BY <2>1, <2>2
<1> QED BY <1>1, <1>2, <1>3

----------------------------------------------------------------------------
(***************************************************************************)
(* The levels of a side after each operation, where no price has two.      *)
(***************************************************************************)
\* The level at p becomes l, and the other levels stay.
LevelBecomes(s, a, p, l) ==
  /\ SideShape(a) /\ HasLevel(a, p) /\ LevelAt(a, p) = l
  /\ \A x : x # p => (HasLevel(a, x) <=> HasLevel(s, x))
  /\ \A x : x # p /\ HasLevel(s, x) => LevelAt(a, x) = LevelAt(s, x)

\* The level at p goes, and the other levels stay.
LevelGoes(s, a, p) ==
  /\ SideShape(a) /\ ~HasLevel(a, p)
  /\ \A x : x # p => (HasLevel(a, x) <=> HasLevel(s, x))
  /\ \A x : x # p /\ HasLevel(s, x) => LevelAt(a, x) = LevelAt(s, x)

\* The level's best price is that of its levels.
BestOK(s, side) ==
  \/ s.best = <<>> /\ \A x : ~HasLevel(s, x)
  \/ \E m \in Prices : /\ s.best = <<m>> /\ HasLevel(s, m)
                       /\ \A x : HasLevel(s, x) => ~Better(side, x, m)
                       /\ s.best_qty = LevelAt(s, m).total_qty

\* A side that shares its levels with t after SetLevel(e, p, l).
LEMMA SetLevelShape ==
  ASSUME NEW s, NEW e \in SideType, NEW p \in Prices, LevelAdded(s, e, p),
         NEW l \in LevelType, l.count # 0,
         NEW a, a.grid = SetLevel(e, p, l).grid, a.overflow = SetLevel(e, p, l).overflow,
         a.initialized = e.initialized, a.start_price = e.start_price
  PROVE  LevelBecomes(s, a, p, l)
<1> DEFINE t == SetLevel(e, p, l)
<1>1. HasLevel(e, p)
  BY DEF LevelAdded
<1>2. /\ DOMAIN t.grid = DOMAIN e.grid /\ DOMAIN t.overflow = DOMAIN e.overflow
      /\ LevelAt(t, p) = l
      /\ \A x : HasLevel(e, x) /\ x # p => LevelAt(t, x) = LevelAt(e, x)
      /\ \A x \in DOMAIN e.grid : x # p => t.grid[x] = e.grid[x]
      /\ p \in DOMAIN e.grid => t.grid[p] = l
  BY <1>1, SetLevelFields
<1> HIDE DEF t
<1>3. a.grid = t.grid /\ a.overflow = t.overflow
  BY DEF t
<1>4. \A x : HasLevel(a, x) <=> HasLevel(e, x)
  BY <1>2, <1>3 DEF HasLevel
<1>5. \A x : HasLevel(e, x) => LevelAt(a, x) = LevelAt(t, x)
  BY <1>2, <1>3 DEF HasLevel, LevelAt
<1>6. SideShape(a)
  <2>1. DOMAIN a.grid \cap DOMAIN a.overflow = {}
    BY <1>2, <1>3 DEF LevelAdded
  <2>2. ASSUME NEW x \in DOMAIN a.grid PROVE InWindow(a, x) /\ a.grid[x].count # 0
    <3>1. x \in DOMAIN e.grid
      BY <1>2, <1>3
    <3>2. InWindow(e, x) /\ (x # p => e.grid[x].count # 0)
      BY <3>1 DEF LevelAdded
    <3>3. InWindow(a, x)
      BY <3>2, SameWindow
    <3>4. a.grid[x].count # 0
      BY <1>2, <1>3, <3>1, <3>2
    <3> QED BY <3>3, <3>4
  <2>3. a.initialized => a.start_price % Tick = 0
    BY Zenon DEF LevelAdded
  <2> QED BY <2>1, <2>2, <2>3, Zenon DEF SideShape
<1>7. LevelAt(a, p) = l /\ HasLevel(a, p)
  BY <1>1, <1>2, <1>4, <1>5
<1>8. \A x : x # p => (HasLevel(a, x) <=> HasLevel(s, x))
  BY <1>4 DEF LevelAdded
<1>9. \A x : x # p /\ HasLevel(s, x) => LevelAt(a, x) = LevelAt(s, x)
  BY <1>2, <1>4, <1>5 DEF LevelAdded
<1> QED BY <1>6, <1>7, <1>8, <1>9, Zenon DEF LevelBecomes

\* A side with a level at p has it added already.
LEMMA LevelThere ==
  ASSUME NEW s, SideShape(s), NEW p, HasLevel(s, p)
  PROVE  LevelAdded(s, s, p)
<1>1. \A x \in DOMAIN s.grid : InWindow(s, x) /\ (x # p => s.grid[x].count # 0)
  BY Zenon DEF SideShape
<1>2. s.initialized => s.start_price % Tick = 0
  BY Zenon DEF SideShape
<1>3. DOMAIN s.grid \cap DOMAIN s.overflow = {}
  BY Zenon DEF SideShape
<1>4. \A x : HasLevel(s, x) <=> HasLevel(s, x) \/ x = p
  BY Zenon
<1> QED BY <1>1, <1>2, <1>3, <1>4, Zenon DEF LevelAdded

\* add
LevelOr(s, p) == IF HasLevel(s, p) THEN LevelAt(s, p) ELSE EmptyLevel

LEMMA AddSide ==
  ASSUME NEW s \in SideType, SideShape(s), NEW h \in Handles, NEW p \in Prices, NEW q \in Nat,
         NEW side \in Sides, p % Tick # 0 \/ p \notin DOMAIN s.overflow, BestOK(s, side)
  PROVE  /\ LevelBecomes(s, AddInSide(s, h, p, q, side), p, Joined(LevelOr(s, p), h, q))
         /\ BestOK(AddInSide(s, h, p, q, side), side)
<1> DEFINE e == EnsureLevel(s, p)
           m == Joined(LevelAt(e, p), h, q)
           a == AddInSide(s, h, p, q, side)
           first == s.best \in {<<>>, <<p>>} \/ Better(side, p, s.best[1])
<1>1. e \in SideType /\ HasLevel(e, p) /\ LevelAdded(s, e, p)
  BY EnsureLevelType, EnsureLevelAdds
<1>2. LevelAt(e, p) = LevelOr(s, p)
  <2> HIDE DEF e
  <2> QED BY <1>1 DEF LevelAdded, LevelOr
<1>3. m \in LevelType /\ m.count # 0
  <2> HIDE DEF e
  <2> QED BY <1>1, LevelAtType, JoinedType
<1>4. /\ a.grid = SetLevel(e, p, m).grid /\ a.overflow = SetLevel(e, p, m).overflow
      /\ a.initialized = e.initialized /\ a.start_price = e.start_price
      /\ IF first THEN a.best = <<p>> /\ a.best_qty = m.total_qty
                  ELSE a.best = s.best /\ a.best_qty = s.best_qty
  BY AddInSideEffect, Zenon
<1> HIDE DEF e, m, a, first
<1>5. LevelBecomes(s, a, p, m)
  BY <1>1, <1>3, <1>4, SetLevelShape, Zenon
<1>6. BestOK(a, side)
  <2>1. \A x : HasLevel(s, x) => x \in Int
    BY LevelAtType, SideAssumption
  <2>2. CASE first
    <3>1. \A x : HasLevel(s, x) => ~Better(side, x, p)
      <4>1. CASE s.best = <<>>
        BY <4>1 DEF BestOK
      <4>2. CASE s.best # <<>>
        <5>1. PICK b \in Prices : /\ s.best = <<b>>
                                  /\ \A x : HasLevel(s, x) => ~Better(side, x, b)
          BY <4>2 DEF BestOK
        <5>2. s.best[1] = b
          BY <5>1
        <5>3. p = b \/ Better(side, p, b)
          BY <2>2, <5>1, <5>2 DEF first
        <5>4. ~Better(side, b, p)
          BY <5>3, BetterOrder, SideAssumption
        <5> QED BY <2>1, <5>1, <5>4, BetterOrder, SideAssumption
      <4> QED BY <4>1, <4>2
    <3>2. ~Better(side, p, p)
      BY BetterOrder, SideAssumption
    <3>3. \A x : HasLevel(a, x) => ~Better(side, x, p)
      BY <1>5, <3>1, <3>2 DEF LevelBecomes
    <3>4. a.best = <<p>> /\ a.best_qty = m.total_qty /\ HasLevel(a, p) /\ LevelAt(a, p) = m
      BY <1>4, <1>5, <2>2 DEF LevelBecomes
    <3> QED BY <3>3, <3>4 DEF BestOK
  <2>3. CASE ~first
    <3>1. PICK b \in Prices : /\ s.best = <<b>> /\ HasLevel(s, b)
                              /\ \A x : HasLevel(s, x) => ~Better(side, x, b)
                              /\ s.best_qty = LevelAt(s, b).total_qty
      BY <2>3 DEF BestOK, first
    <3>2. s.best[1] = b
      BY <3>1
    <3>3. b # p /\ ~Better(side, p, b)
      BY <2>3, <3>1, <3>2 DEF first
    <3>4. a.best = <<b>> /\ a.best_qty = s.best_qty
      BY <1>4, <2>3, <3>1
    <3>5. HasLevel(a, b) /\ LevelAt(a, b) = LevelAt(s, b)
      BY <1>5, <3>1, <3>3 DEF LevelBecomes
    <3>6. \A x : HasLevel(a, x) => ~Better(side, x, b)
      BY <1>5, <3>1, <3>3 DEF LevelBecomes
    <3> QED BY <3>1, <3>4, <3>5, <3>6 DEF BestOK
  <2> QED BY <2>2, <2>3
<1> QED BY <1>2, <1>5, <1>6, Zenon DEF a, m

\* A change of the level at p that keeps the best price and refreshes its quantity.
LEMMA BestKept ==
  ASSUME NEW s, NEW a, NEW p, NEW m, NEW side, BestOK(s, side), HasLevel(s, p),
         LevelBecomes(s, a, p, m), a.best = s.best,
         a.best_qty = IF s.best = <<p>> THEN m.total_qty ELSE s.best_qty
  PROVE  BestOK(a, side)
<1>1. PICK b \in Prices : /\ s.best = <<b>> /\ HasLevel(s, b)
                          /\ \A x : HasLevel(s, x) => ~Better(side, x, b)
                          /\ s.best_qty = LevelAt(s, b).total_qty
  BY DEF BestOK
<1>2. s.best = <<p>> <=> p = b
  BY <1>1
<1>3. HasLevel(a, b) /\ \A x : HasLevel(a, x) => ~Better(side, x, b)
  BY <1>1 DEF LevelBecomes
<1>4. a.best_qty = LevelAt(a, b).total_qty
  BY <1>1, <1>2 DEF LevelBecomes
<1> QED BY <1>1, <1>3, <1>4 DEF BestOK

\* set_qty
LEMMA SetQtySide ==
  ASSUME NEW s \in SideType, SideShape(s), NEW n \in NodeType, NEW q \in Nat, NEW side,
         HasLevel(s, n.price), LevelAt(s, n.price).count # 0, BestOK(s, side)
  PROVE  /\ LevelBecomes(s, SetQtyInSide(s, n, q), n.price,
                         Resized(LevelAt(s, n.price), q - n.qty))
         /\ BestOK(SetQtyInSide(s, n, q), side)
<1> DEFINE p == n.price
           m == Resized(LevelAt(s, p), q - n.qty)
           a == SetQtyInSide(s, n, q)
<1>1. /\ a \in SideType /\ m \in LevelType
      /\ a.grid = SetLevel(s, p, m).grid /\ a.overflow = SetLevel(s, p, m).overflow
      /\ a.initialized = s.initialized /\ a.start_price = s.start_price
      /\ a.best = s.best
      /\ a.best_qty = IF s.best = <<p>> THEN m.total_qty ELSE s.best_qty
  BY SetQtyInSideEffect, Zenon
<1>2. m.count # 0
  <2>1. LevelAt(s, p) \in LevelType /\ q - n.qty \in Int
    BY LevelAtType DEF NodeType
  <2>2. m = [head |-> LevelAt(s, p).head, tail |-> LevelAt(s, p).tail,
             count |-> LevelAt(s, p).count, total_qty |-> LevelAt(s, p).total_qty + (q - n.qty)]
    BY <2>1, ResizedFields, Zenon
  <2> HIDE DEF m
  <2> QED BY <2>2
<1>3. p \in Prices /\ HasLevel(s, p) /\ LevelAdded(s, s, p)
  BY LevelThere DEF NodeType
<1> HIDE DEF p, m, a
<1>4. LevelBecomes(s, a, p, m)
  BY <1>1, <1>2, <1>3, SetLevelShape, Zenon
<1>5. BestOK(a, side)
  BY <1>1, <1>3, <1>4, BestKept, Zenon
<1> QED BY <1>4, <1>5 DEF a, m, p

\* cancel of an order that is not the last at its price
LEMMA CancelSome ==
  ASSUME NEW s \in SideType, SideShape(s), NEW n \in NodeType, NEW side,
         HasLevel(s, n.price), BestOK(s, side),
         Left(LevelAt(s, n.price), n).count # 0
  PROVE  /\ LevelBecomes(s, CancelInSide(s, n), n.price, Left(LevelAt(s, n.price), n))
         /\ BestOK(CancelInSide(s, n), side)
<1> DEFINE p == n.price
           m == Left(LevelAt(s, p), n)
           t == SetLevel(s, p, m)
           a == CancelInSide(s, n)
           u == [t EXCEPT !.best_qty = m.total_qty]
<1>1. /\ m \in LevelType /\ t \in SideType
      /\ a = IF s.best = <<p>> THEN u ELSE t
  <2>1. /\ m \in LevelType /\ t \in SideType
        /\ a = IF m.count = 0
               THEN IF s.best = <<p>> THEN RecomputeBest(RemoveIfEmpty(t, p), n.side)
                                      ELSE RemoveIfEmpty(t, p)
               ELSE IF s.best = <<p>> THEN u ELSE t
    BY CancelInSideCases, Zenon
  <2>2. m.count # 0
    OBVIOUS
  <2> HIDE DEF m, t, a, u
  <2> QED BY <2>1, <2>2, Zenon
<1>2. p \in Prices /\ HasLevel(s, p) /\ LevelAdded(s, s, p)
  BY LevelThere DEF NodeType
<1>3. m.count # 0
  OBVIOUS
<1> HIDE DEF p, m, a
<1>4. /\ t.initialized = s.initialized /\ t.start_price = s.start_price
      /\ t.best = s.best /\ t.best_qty = s.best_qty
  BY <1>1, <1>2, SetLevelRest, Zenon
<1>5. m.total_qty \in Int
  BY <1>1 DEF LevelType
<1>6. u = [initialized |-> t.initialized, start_price |-> t.start_price, grid |-> t.grid,
           overflow |-> t.overflow, best |-> t.best, best_qty |-> m.total_qty]
  <2> HIDE DEF t
  <2> QED BY <1>1, <1>5, SetBestQtyFields, Zenon
<1>7. /\ u.grid = t.grid /\ u.overflow = t.overflow /\ u.best = t.best /\ u.best_qty = m.total_qty
      /\ u.initialized = t.initialized /\ u.start_price = t.start_price
  <2> HIDE DEF t, u
  <2> QED BY <1>6
<1>8. /\ a.grid = t.grid /\ a.overflow = t.overflow /\ a.best = s.best
      /\ a.initialized = s.initialized /\ a.start_price = s.start_price
      /\ a.best_qty = IF s.best = <<p>> THEN m.total_qty ELSE s.best_qty
  <2> HIDE DEF t, u
  <2> QED BY <1>1, <1>4, <1>7, Zenon
<1>9. LevelBecomes(s, a, p, m)
  BY <1>1, <1>2, <1>3, <1>8, SetLevelShape, Zenon
<1>10. BestOK(a, side)
  BY <1>2, <1>8, <1>9, BestKept, Zenon
<1> QED BY <1>9, <1>10 DEF a, m, p

\* cancel of the last order at its price
LEMMA CancelLast ==
  ASSUME NEW s \in SideType, SideShape(s), NEW n \in NodeType, HasLevel(s, n.price),
         BestOK(s, n.side), Left(LevelAt(s, n.price), n).count = 0
  PROVE  /\ LevelGoes(s, CancelInSide(s, n), n.price)
         /\ BestOK(CancelInSide(s, n), n.side)
<1> DEFINE p == n.price
           m == Left(LevelAt(s, p), n)
           t == SetLevel(s, p, m)
           r == RemoveIfEmpty(t, p)
           a == CancelInSide(s, n)
           side == n.side
<1>1. /\ m \in LevelType /\ t \in SideType /\ r \in SideType
      /\ a = IF s.best = <<p>> THEN RecomputeBest(r, side) ELSE r
  <2>1. /\ m \in LevelType /\ t \in SideType /\ r \in SideType
        /\ a = IF m.count = 0
               THEN IF s.best = <<p>> THEN RecomputeBest(r, side) ELSE r
               ELSE IF s.best = <<p>> THEN [t EXCEPT !.best_qty = m.total_qty] ELSE t
    BY CancelInSideCases, Zenon
  <2>2. m.count = 0
    OBVIOUS
  <2> HIDE DEF m, t, a, r
  <2> QED BY <2>1, <2>2, Zenon
<1>2. HasLevel(s, p) /\ m.count = 0 /\ side \in Sides /\ p \in Prices
  BY DEF NodeType
<1> HIDE DEF p, m, a, side
<1>3. /\ t.initialized = s.initialized /\ t.start_price = s.start_price
      /\ t.best = s.best /\ t.best_qty = s.best_qty
  BY <1>1, <1>2, SetLevelRest, Zenon
<1>4. /\ DOMAIN t.grid = DOMAIN s.grid /\ DOMAIN t.overflow = DOMAIN s.overflow
      /\ LevelAt(t, p) = m
      /\ \A x : HasLevel(s, x) /\ x # p => LevelAt(t, x) = LevelAt(s, x)
      /\ \A x \in DOMAIN s.grid : x # p => t.grid[x] = s.grid[x]
  BY <1>1, <1>2, SetLevelFields, SMTT(30)
<1> HIDE DEF t
<1>5. DOMAIN t.grid \cap DOMAIN t.overflow = {} /\ HasLevel(t, p)
  BY <1>2, <1>4 DEF SideShape, HasLevel
<1>6. /\ r.initialized = t.initialized /\ r.start_price = t.start_price
      /\ r.best = t.best /\ r.best_qty = t.best_qty
      /\ DOMAIN r.grid \subseteq DOMAIN t.grid /\ DOMAIN r.overflow \subseteq DOMAIN t.overflow
      /\ \A x \in DOMAIN r.grid : r.grid[x] = t.grid[x]
      /\ \A x : HasLevel(t, x) /\ x # p => HasLevel(r, x) /\ LevelAt(r, x) = LevelAt(t, x)
      /\ ~HasLevel(r, p)
  BY <1>1, <1>2, <1>4, <1>5, RemoveIfEmptyFields, Zenon
<1> HIDE DEF r
<1>7. \A x : x # p => (HasLevel(r, x) <=> HasLevel(s, x))
  BY <1>4, <1>6 DEF HasLevel
<1>8. \A x : x # p /\ HasLevel(s, x) => LevelAt(r, x) = LevelAt(s, x)
  BY <1>4, <1>6 DEF HasLevel
<1>9. SideShape(r)
  <2>1. DOMAIN r.grid \cap DOMAIN r.overflow = {}
    BY <1>5, <1>6
  <2>2. ASSUME NEW x \in DOMAIN r.grid PROVE InWindow(r, x) /\ r.grid[x].count # 0
    <3>1. x \in DOMAIN s.grid /\ x # p /\ r.grid[x] = s.grid[x]
      BY <1>4, <1>6 DEF HasLevel
    <3>2. InWindow(s, x) /\ s.grid[x].count # 0
      BY <3>1 DEF SideShape
    <3>3. InWindow(r, x)
      BY <1>3, <1>6, <3>2, SameWindow, Zenon
    <3> QED BY <3>1, <3>2, <3>3
  <2>3. r.initialized => r.start_price % Tick = 0
    BY <1>3, <1>6, Zenon DEF SideShape
  <2> QED BY <2>1, <2>2, <2>3, Zenon DEF SideShape
<1>10. LevelGoes(s, r, p)
  BY <1>6, <1>7, <1>8, <1>9, Zenon DEF LevelGoes
<1>11. CASE s.best # <<p>>
  <2>1. a = r
    BY <1>1, <1>11
  <2>2. PICK b \in Prices : /\ s.best = <<b>> /\ HasLevel(s, b)
                            /\ \A x : HasLevel(s, x) => ~Better(side, x, b)
                            /\ s.best_qty = LevelAt(s, b).total_qty
    BY <1>2 DEF BestOK, side
  <2>3. b # p
    BY <1>11, <2>2
  <2>4. r.best = <<b>> /\ r.best_qty = LevelAt(r, b).total_qty /\ HasLevel(r, b)
    BY <1>3, <1>6, <1>7, <1>8, <2>2, <2>3
  <2>5. \A x : HasLevel(r, x) => ~Better(side, x, b)
    BY <1>6, <1>7, <2>2
  <2>6. BestOK(r, side)
    BY <2>4, <2>5 DEF BestOK
  <2> QED BY <1>10, <2>1, <2>6 DEF a, p, side
<1>12. CASE s.best = <<p>>
  <2> DEFINE ps == NonEmpty(r.grid) \cup DOMAIN r.overflow
             b == BestOf(side, ps)
  <2>1. a = RecomputeBest(r, side)
    BY <1>1, <1>12
  <2>2. NonEmpty(r.grid) = DOMAIN r.grid
    BY <1>9 DEF SideShape, NonEmpty
  <2>3. /\ a.grid = r.grid /\ a.overflow = r.overflow
        /\ a.initialized = r.initialized /\ a.start_price = r.start_price
        /\ ps = {} => a.best = <<>>
        /\ ps # {} => /\ b \in ps /\ a.best = <<b>>
                      /\ \A q \in ps : ~Better(side, q, b)
                      /\ NonEmpty(r.grid) = DOMAIN r.grid => a.best_qty = LevelAt(r, b).total_qty
    <3>1. BestRecomputed(r, a, side, ps, b)
      BY <1>1, <1>2, <2>1, RecomputeBestFields
    <3> HIDE DEF ps, b
    <3> QED BY <3>1, Zenon DEF BestRecomputed
  <2>4. \A x : HasLevel(r, x) <=> x \in ps
    BY <2>2 DEF HasLevel
  <2> HIDE DEF ps, b
  <2>5. \A x : (HasLevel(a, x) <=> HasLevel(r, x)) /\ LevelAt(a, x) = LevelAt(r, x)
    BY <2>3 DEF HasLevel, LevelAt
  <2>6. SideShape(a)
    <3>1. \A x \in DOMAIN a.grid : InWindow(a, x) /\ a.grid[x].count # 0
      BY <1>9, <2>3, SameWindow, Zenon DEF SideShape
    <3>2. a.initialized => a.start_price % Tick = 0
      BY <1>9, <2>3, Zenon DEF SideShape
    <3>3. DOMAIN a.grid \cap DOMAIN a.overflow = {}
      BY <1>9, <2>3, Zenon DEF SideShape
    <3> QED BY <3>1, <3>2, <3>3, Zenon DEF SideShape
  <2>7. LevelGoes(s, a, p)
    BY <1>10, <2>5, <2>6 DEF LevelGoes
  <2>8. CASE ps = {}
    <3>1. a.best = <<>> /\ \A x : ~HasLevel(a, x)
      BY <2>3, <2>4, <2>5, <2>8
    <3>2. BestOK(a, side)
      BY <3>1 DEF BestOK
    <3> QED BY <2>7, <3>2 DEF a, p, side
  <2>9. CASE ps # {}
    <3>1. /\ a.best = <<b>> /\ HasLevel(a, b) /\ \A x : HasLevel(a, x) => ~Better(side, x, b)
          /\ a.best_qty = LevelAt(a, b).total_qty
      BY <2>2, <2>3, <2>4, <2>5, <2>9
    <3>2. b \in Prices
      BY <1>1, <2>5, <3>1, LevelAtType
    <3>3. BestOK(a, side)
      BY <3>1, <3>2 DEF BestOK
    <3> QED BY <2>7, <3>3 DEF a, p, side
  <2> QED BY <2>8, <2>9
<1> QED BY <1>11, <1>12
=============================================================================
