---------------------------- MODULE MappersProofs ----------------------------
(***************************************************************************)
(* What the mappers make of any equipment, with any number of commands.    *)
(* Each mapper is shown to keep a promise about its entities (Made), then  *)
(* the registry that chooses among their answers, or puts those of several *)
(* domains together (WellMade).  The proofs about the decisions rest on it. *)
(***************************************************************************)
EXTENDS Mappers, Decision, SequenceTheorems, FiniteSetTheorems, TLAPS

----------------------------------------------------------------------------
\* Sets of naturals in increasing order.

\* A set of naturals that is not empty has a first, and a bounded one a last.
LEMMA MinIsIn ==
  ASSUME NEW S \in SUBSET Nat, S # {}
  PROVE  Min(S) \in S /\ \A y \in S : Min(S) <= y
  <1>. DEFINE R == OpToRel(<, Nat)
  <1>1. IsWellFoundedOn(R, Nat)
    BY NatLessThanWellFounded, Zenon
  <1>2. PICK x \in S : \A y \in S : ~(<<y, x>> \in R)
    BY <1>1, WFMin, Zenon
  <1>3. \A y \in S : ~(y < x)
    BY <1>2, Zenon DEF OpToRel
  <1>4. \A y \in S : x <= y
    BY <1>3
  <1>. QED  BY <1>4 DEF Min

LEMMA MaxIsIn ==
  ASSUME NEW n \in Nat, NEW S \in SUBSET (1 .. n), S # {}
  PROVE  Max(S) \in S /\ \A y \in S : y <= Max(S)
  <1>. DEFINE D == {n - x : x \in S}
  <1>1. D \in SUBSET Nat /\ D # {}
    <2>1. \A x \in S : n - x \in Nat
      OBVIOUS
    <2>. QED  BY <2>1
  <1>2. Min(D) \in D /\ \A y \in D : Min(D) <= y
    BY <1>1, MinIsIn
  <1>3. PICK x \in S : Min(D) = n - x
    BY <1>2
  <1>4. \A y \in S : y <= x
    <2>. SUFFICES ASSUME NEW y \in S PROVE y <= x
      OBVIOUS
    <2>1. n - x <= n - y
      BY <1>2, <1>3
    <2>. QED  BY <2>1
  <1>. QED  BY <1>4 DEF Max

\* A finite set of naturals in increasing order: each of its members once, and the
\* first of them first.
LEMMA IncTypes ==
  ASSUME NEW S \in SUBSET Nat, IsFiniteSet(S)
  PROVE  /\ Cardinality(S) \in Nat
         /\ Inc(S) \in [1 .. Cardinality(S) -> S]
         /\ \A i \in S : \E n \in DOMAIN Inc(S) : Inc(S)[n] = i
         /\ \A n, m \in DOMAIN Inc(S) : Inc(S)[n] = Inc(S)[m] => n = m
         /\ S # {} => 1 \in DOMAIN Inc(S) /\ Inc(S)[1] = Min(S)
  <1>. DEFINE f == [i \in S |-> Cardinality({j \in S : j < i})]
              N == Cardinality(S)
  <1>0. N \in Nat
    BY FS_CardinalityType
  <1>1. ASSUME NEW i \in S PROVE f[i] \in 0 .. N - 1
    <2>1. IsFiniteSet(S \ {i}) /\ Cardinality(S \ {i}) = N - 1
      BY FS_RemoveElement
    <2>2. {j \in S : j < i} \in SUBSET (S \ {i})
      OBVIOUS
    <2>3. IsFiniteSet({j \in S : j < i}) /\ Cardinality({j \in S : j < i}) <= N - 1
      BY <2>1, <2>2, FS_Subset
    <2>4. Cardinality({j \in S : j < i}) \in Nat
      BY <2>3, FS_CardinalityType
    <2>. QED  BY <1>0, <2>3, <2>4
  <1>2. ASSUME NEW i \in S, NEW k \in S, i < k PROVE f[i] < f[k]
    <2>. DEFINE A == {j \in S : j < i}
                B == {j \in S : j < k}
    <2>1. IsFiniteSet(B) /\ IsFiniteSet(A)
      BY FS_Subset
    <2>2. IsFiniteSet(A \cup {i}) /\ Cardinality(A \cup {i}) = Cardinality(A) + 1
      <3>1. i \notin A
        OBVIOUS
      <3>. QED  BY <2>1, <3>1, FS_AddElement
    <2>3. A \cup {i} \in SUBSET B
      <3>1. ASSUME NEW j \in S, j < i PROVE j < k
        <4>1. i \in Nat /\ j \in Nat /\ k \in Nat
          OBVIOUS
        <4>. QED  BY <1>2, <3>1, <4>1
      <3>. QED  BY <1>2, <3>1
    <2>4. Cardinality(A \cup {i}) <= Cardinality(B)
      BY <2>1, <2>3, FS_Subset
    <2>5. Cardinality(A) \in Nat /\ Cardinality(B) \in Nat
      BY <2>1, FS_CardinalityType
    <2>. QED  BY <2>2, <2>4, <2>5
  <1>3. f \in Injection(S, 0 .. N - 1)
    <2>1. f \in [S -> 0 .. N - 1]
      BY <1>1
    <2>2. ASSUME NEW i \in S, NEW k \in S, f[i] = f[k] PROVE i = k
      <3>1. f[i] \in Int /\ f[k] \in Int
        BY <1>1
      <3>. HIDE DEF f
      <3>. QED  BY <1>2, <2>2, <3>1
    <2>. HIDE DEF f
    <2>. QED  BY <2>1, <2>2 DEF Injection, IsInjective
  <1>4. f \in Surjection(S, 0 .. N - 1)
    <2>1. IsFiniteSet(0 .. N - 1) /\ Cardinality(0 .. N - 1) = N
      <3>1. 0 \in Int /\ N - 1 \in Int /\ N \in Nat
        BY <1>0
      <3>. HIDE DEF N
      <3>2. IsFiniteSet(0 .. N - 1)
            /\ Cardinality(0 .. N - 1) = IF 0 > N - 1 THEN 0 ELSE (N - 1) - 0 + 1
        BY <3>1, FS_Interval
      <3>. QED  BY <3>1, <3>2
    <2>. HIDE DEF f, N
    <2>. QED  BY <1>3, <2>1, FS_Injection DEF N
  <1>5. ASSUME NEW n \in 1 .. N
        PROVE  Inc(S)[n] \in S /\ f[Inc(S)[n]] = n - 1
    <2>1. PICK i \in S : f[i] = n - 1
      <3>1. n - 1 \in 0 .. N - 1
        BY <1>0
      <3>. HIDE DEF f
      <3>. QED  BY <1>4, <3>1 DEF Surjection
    <2>2. Cardinality({j \in S : j < i}) = n - 1
      BY <2>1
    <2>3. Inc(S)[n] = CHOOSE k \in S : Cardinality({j \in S : j < k}) = n - 1
      BY <1>5 DEF Inc
    <2>4. Inc(S)[n] \in S /\ Cardinality({j \in S : j < Inc(S)[n]}) = n - 1
      BY <2>2, <2>3
    <2>. QED  BY <2>4
  <1>6. Inc(S) \in [1 .. N -> S]
    BY <1>5 DEF Inc
  <1>7. ASSUME NEW i \in S PROVE \E n \in 1 .. N : Inc(S)[n] = i
    <2>1. f[i] + 1 \in 1 .. N /\ (f[i] + 1) - 1 = f[i]
      BY <1>0, <1>1
    <2>2. Inc(S)[f[i] + 1] \in S /\ f[Inc(S)[f[i] + 1]] = f[i]
      BY <1>5, <2>1
    <2>. HIDE DEF f
    <2>3. Inc(S)[f[i] + 1] = i
      BY <1>3, <2>2 DEF Injection, IsInjective
    <2>. QED  BY <2>1, <2>3
  <1>8. ASSUME NEW n \in 1 .. N, NEW m \in 1 .. N, Inc(S)[n] = Inc(S)[m] PROVE n = m
    <2>1. n - 1 = m - 1
      BY <1>5, <1>8
    <2>. QED  BY <2>1
  <1>9. ASSUME S # {} PROVE 1 \in 1 .. N /\ Inc(S)[1] = Min(S)
    <2>1. Min(S) \in S /\ \A y \in S : Min(S) <= y
      BY <1>9, MinIsIn
    <2>2. {j \in S : j < Min(S)} = {}
      <3>1. ASSUME NEW y \in S PROVE ~(y < Min(S))
        <4>1. y \in Nat /\ Min(S) \in Nat /\ Min(S) <= y
          BY <2>1
        <4>. HIDE DEF f, N
        <4>. QED  BY <4>1
      <3>. QED  BY <3>1
    <2>3. f[Min(S)] = 0
      BY <2>1, <2>2, FS_EmptySet
    <2>4. 1 \in 1 .. N
      <3>1. 0 \in 0 .. N - 1
        BY <1>1, <2>1, <2>3
      <3>. QED  BY <1>0, <3>1
    <2>5. Inc(S)[1] \in S /\ f[Inc(S)[1]] = 0
      BY <1>5, <2>4
    <2>. HIDE DEF f
    <2>. QED  BY <1>3, <2>1, <2>3, <2>4, <2>5 DEF Injection, IsInjective
  <1>10. DOMAIN Inc(S) = 1 .. N
    BY DEF Inc
  <1>. HIDE DEF N, f
  <1>. QED  BY <1>0, <1>6, <1>7, <1>8, <1>9, <1>10 DEF N

\* What a function makes of the members of a set, in their order.
Row(S, G) == [n \in DOMAIN Inc(S) |-> G[Inc(S)[n]]]
LinesUp(q, S, G) ==
  /\ q = <<>> <=> S = {}
  /\ \A n \in DOMAIN q : \E i \in S : q[n] = G[i]
  /\ \A i \in S : \E n \in DOMAIN q : q[n] = G[i]
  /\ \A n, m \in DOMAIN q : n # m => \E i, j \in S : i # j /\ q[n] = G[i] /\ q[m] = G[j]
  /\ S # {} => Head(q) = G[Min(S)]

\* The row has what the members of the set are given, and nothing else.
LEMMA InOrder ==
  ASSUME NEW S \in SUBSET Nat, IsFiniteSet(S), NEW T, NEW G \in [S -> T]
  PROVE  Row(S, G) \in Seq(T) /\ LinesUp(Row(S, G), S, G)
  <1>. DEFINE q == Row(S, G)
              N == Cardinality(S)
              I == Inc(S)
  <1>1. /\ N \in Nat /\ I \in [1 .. N -> S]
        /\ \A i \in S : \E n \in DOMAIN I : I[n] = i
        /\ \A n, m \in DOMAIN I : I[n] = I[m] => n = m
        /\ S # {} => 1 \in DOMAIN I /\ I[1] = Min(S)
    BY IncTypes, Zenon
  <1>2. q = [n \in 1 .. N |-> G[I[n]]]
    BY <1>1 DEF Row
  <1>. HIDE DEF N, I, q
  <1>3. q \in Seq(T) /\ DOMAIN q = 1 .. N
    <2>1. \A n \in 1 .. N : G[I[n]] \in T
      BY <1>1
    <2>. QED  BY <1>1, <1>2, <2>1, IsASeq
  <1>4. \A n \in 1 .. N : I[n] \in S /\ q[n] = G[I[n]]
    BY <1>1, <1>2
  <1>5. q = <<>> <=> S = {}
    <2>1. CASE S = {}
      <3>1. N = 0
        BY <2>1, FS_EmptySet DEF N
      <3>2. Len(q) = 0
        BY <1>3, <3>1
      <3>. QED  BY <1>3, <2>1, <3>2, EmptySeq
    <2>2. CASE S # {}
      <3>1. N # 0
        BY <1>1, <1>3, <2>2
      <3>2. Len(q) # 0
        BY <1>1, <1>3, <3>1
      <3>. QED  BY <1>3, <2>2, <3>2, EmptySeq
    <2>. QED  BY <2>1, <2>2
  <1>6. S # {} => Head(q) = G[Min(S)]
    <2>. SUFFICES ASSUME S # {} PROVE Head(q) = G[Min(S)]
      OBVIOUS
    <2>1. q # <<>>
      BY <1>5
    <2>2. Head(q) = q[1]
      BY <1>3, <2>1
    <2>. QED  BY <1>1, <1>4, <2>2
  <1>7. ASSUME NEW n \in 1 .. N, NEW m \in 1 .. N, n # m
        PROVE  \E i, j \in S : i # j /\ q[n] = G[i] /\ q[m] = G[j]
    <2>1. I[n] \in S /\ I[m] \in S /\ I[n] # I[m]
      BY <1>1, <1>7
    <2>2. q[n] = G[I[n]] /\ q[m] = G[I[m]]
      BY <1>4
    <2>. QED  BY <2>1, <2>2
  <1>8. \A i \in S : \E n \in DOMAIN q : q[n] = G[i]
    BY <1>1, <1>3, <1>4
  <1>9. \A n \in DOMAIN q : \E i \in S : q[n] = G[i]
    BY <1>3, <1>4
  <1>10. \A n, m \in DOMAIN q : n # m => \E i, j \in S : i # j /\ q[n] = G[i] /\ q[m] = G[j]
    <2>. SUFFICES ASSUME NEW n \in DOMAIN q, NEW m \in DOMAIN q, n # m
                  PROVE  \E i, j \in S : i # j /\ q[n] = G[i] /\ q[m] = G[j]
      OBVIOUS
    <2>1. n \in 1 .. N /\ m \in 1 .. N
      BY <1>3
    <2>. QED  BY <1>7, <2>1
  <1>. QED  BY <1>3, <1>5, <1>6, <1>8, <1>9, <1>10, Zenon DEF q, LinesUp

LEMMA IncIsIn ==
  ASSUME NEW S \in SUBSET Nat, IsFiniteSet(S), NEW n \in DOMAIN Inc(S)
  PROVE  Inc(S)[n] \in S
  BY IncTypes

\* The ids of an equipment are positions, so that any set of them is finite.
LEMMA IdsAreFinite ==
  ASSUME NEW eq, Len(eq.cmds) \in Nat, NEW S \in SUBSET Ids(eq)
  PROVE  S \in SUBSET Nat /\ IsFiniteSet(S) /\ 0 \notin S
  <1>1. IsFiniteSet(1 .. Len(eq.cmds))
    BY FS_Interval
  <1>2. IsFiniteSet(S)
    BY <1>1, FS_Subset DEF Ids
  <1>. QED  BY <1>2 DEF Ids

LEMMA Singleton ==
  ASSUME NEW T, NEW x \in T
  PROVE  <<x>> \in Seq(T) /\ <<x>> # <<>> /\ DOMAIN <<x>> = {1} /\ <<x>>[1] = x
  OBVIOUS

\* The members of a set in order make a sequence, empty only when the set is.
LEMMA IncSeq ==
  ASSUME NEW T \in SUBSET Nat, NEW S \in SUBSET T, IsFiniteSet(S)
  PROVE  Inc(S) \in Seq(T) /\ (Inc(S) = <<>> <=> S = {})
  <1>. DEFINE N == Cardinality(S)
  <1>1. N \in Nat /\ Inc(S) \in [1 .. N -> S] /\ (N = 0 <=> S = {})
    BY IncTypes, FS_EmptySet
  <1>2. Inc(S) \in [1 .. N -> T]
    BY <1>1
  <1>. HIDE DEF N
  <1>3. Inc(S) \in Seq(T) /\ Len(Inc(S)) = N
    BY <1>1, <1>2
  <1>. QED  BY <1>1, <1>3, EmptySeq

----------------------------------------------------------------------------
\* What a mapper promises of its entities, and how an entity keeps it.

\* What every mapper promises of an entity: its commands are those of the equipment,
\* only a light dims and only a cover has a position, and an entity that has topics of
\* its own has none of the states the lights and the covers are read from.
ReadKeys == {"LIGHT_STATE", "FLAP_STATE", "FLAP_BSO_STATE", "BARRIER_STATE", "GARAGE_STATE"}
Tag(eq) == {"own"} \cup {eq.cmds[i].gt : i \in Ids(eq)}
Modes == {"none", "direct", "toggle"}
Measures(eq) == {"", "power", "energy"} \cup {eq.cmds[i].unit : i \in Ids(eq)}
Dictionary(eq) == Seq([key : Tag(eq), id : Ids(eq)]) \ {<<>>}
Entities(eq) ==
  [type : ProductScope, native : ProductScope, conf : Confidence,
   scope : {0} \cup Ids(eq), dict : Dictionary(eq), caps : SUBSET Capability,
   measure : Measures(eq),
   mode : Modes]
Made(eq, native) ==
  {e \in Entities(eq) :
     /\ e.native = native /\ e.type = native
     /\ e.scope # 0 \/ native = "alarm_control_panel" => Keys(e.dict) \cap ReadKeys = {}
     /\ native \in {"light", "cover"} => e.scope = 0
     /\ "brightness" \in e.caps => native = "light"
     /\ "position" \in e.caps => native = "cover"}
\* An answer of one entity, named after the equipment, or none.
One(eq, native) == {<<>>} \cup {<<e>> : e \in {x \in Made(eq, native) : x.scope = 0}}

\* An entity named after its equipment keeps the promise when its dictionary does.
LEMMA EntityMade ==
  ASSUME NEW eq, NEW type \in ProductScope, NEW conf \in Confidence,
         NEW dict \in Dictionary(eq), NEW caps \in SUBSET Capability,
         type = "alarm_control_panel" => Keys(dict) \cap ReadKeys = {},
         "brightness" \in caps => type = "light", "position" \in caps => type = "cover"
  PROVE  /\ Entity(type, conf, dict, caps) \in Made(eq, type)
         /\ Entity(type, conf, dict, caps).scope = 0
  <1>. DEFINE e == Entity(type, conf, dict, caps)
  <1>1. e = [type |-> type, native |-> type, conf |-> conf, scope |-> 0, dict |-> dict,
             caps |-> caps, measure |-> "", mode |-> "none"]
    BY DEF Entity
  <1>. HIDE DEF e
  <1>2. e \in Entities(eq)
    BY <1>1 DEF Entities, Measures, Modes
  <1>3. e \in Made(eq, type)
    BY <1>1, <1>2 DEF Made
  <1>4. e.scope = 0
    BY <1>1
  <1>. QED  BY <1>3, <1>4 DEF e

LEMMA OneEntity ==
  ASSUME NEW eq, NEW type \in ProductScope, NEW conf \in Confidence,
         NEW dict \in Dictionary(eq), NEW caps \in SUBSET Capability,
         type = "alarm_control_panel" => Keys(dict) \cap ReadKeys = {},
         "brightness" \in caps => type = "light", "position" \in caps => type = "cover"
  PROVE  <<Entity(type, conf, dict, caps)>> \in One(eq, type)
  <1>1. Entity(type, conf, dict, caps) \in Made(eq, type)
        /\ Entity(type, conf, dict, caps).scope = 0
    BY EntityMade
  <1>. QED  BY <1>1, Zenon DEF One

\* An entity named after a command is made of that command alone.
LEMMA CommandEntityMade ==
  ASSUME NEW eq, Len(eq.cmds) \in Nat, NEW type \in {"sensor", "binary_sensor"},
         NEW i \in Ids(eq),
         NEW measure \in Measures(eq)
  PROVE  /\ CommandEntity(type, "sure", i, measure) \in Made(eq, type)
         /\ CommandEntity(type, "sure", i, measure).scope = i
         /\ \A n \in DOMAIN CommandEntity(type, "sure", i, measure).dict :
              CommandEntity(type, "sure", i, measure).dict[n].id = i
  <1>. DEFINE own == [key |-> "own", id |-> i]
              dict == <<own>>
              named == Entity(type, "sure", dict, {"state"})
              e == CommandEntity(type, "sure", i, measure)
  <1>0. own \in [key : Tag(eq), id : Ids(eq)] /\ own.key = "own" /\ own.id = i
    BY DEF Tag
  <1>. HIDE DEF own
  <1>1. /\ dict \in Seq([key : Tag(eq), id : Ids(eq)]) /\ dict # <<>>
        /\ DOMAIN dict = {1} /\ dict[1] = own
    BY <1>0, Singleton
  <1>2. Keys(dict) \cap ReadKeys = {}
    <2>1. \A k \in Keys(dict) : k = "own"
      BY <1>0, <1>1 DEF Keys
    <2>. QED  BY <2>1 DEF ReadKeys
  <1>3. \A n \in DOMAIN dict : dict[n].id = i
    BY <1>0, <1>1
  <1>. HIDE DEF dict
  <1>4. named = [type |-> type, native |-> type, conf |-> "sure", scope |-> 0, dict |-> dict,
                 caps |-> {"state"}, measure |-> "", mode |-> "none"]
    BY DEF Entity
  <1>. HIDE DEF named
  <1>5. named \in Entities(eq)
    BY <1>1, <1>4 DEF Entities, Measures, Modes, Confidence, Capability, ProductScope, ComponentTypes, Dictionary
  <1>6. e = [named EXCEPT !.scope = i, !.measure = measure]
    BY DEF CommandEntity, named, dict, own
  <1>7. e \in Entities(eq) /\ e.scope = i /\ e.dict = dict /\ e.caps = {"state"}
        /\ e.type = type /\ e.native = type
    <2>. HIDE DEF e
    <2>. QED  BY <1>4, <1>5, <1>6 DEF Entities
  <1>. HIDE DEF e
  <1>8. e \in Made(eq, type)
    BY <1>2, <1>7 DEF Made
  <1>. QED  BY <1>3, <1>7, <1>8 DEF e

\* A dictionary of given commands, each under its own type.
LEMMA JustDictionary ==
  ASSUME NEW eq, NEW ids \in Seq(Ids(eq)), ids # <<>>
  PROVE  /\ Just(eq, ids) \in Dictionary(eq)
         /\ \A n \in DOMAIN Just(eq, ids) :
              /\ n \in DOMAIN ids /\ Just(eq, ids)[n].id = ids[n]
              /\ Just(eq, ids)[n].key = eq.cmds[ids[n]].gt
  <1>. DEFINE d == Just(eq, ids)
  <1>1. d = [n \in DOMAIN ids |-> [key |-> eq.cmds[ids[n]].gt, id |-> ids[n]]]
    BY DEF Just, Mapped, Entry
  <1>3. Len(ids) \in Nat /\ DOMAIN ids = 1 .. Len(ids) /\ \A n \in 1 .. Len(ids) : ids[n] \in Ids(eq)
    BY LenProperties, ElementOfSeq
  <1>4. d \in Seq([key : Tag(eq), id : Ids(eq)]) /\ DOMAIN d = DOMAIN ids
    <2>1. \A n \in 1 .. Len(ids) :
            [key |-> eq.cmds[ids[n]].gt, id |-> ids[n]] \in [key : Tag(eq), id : Ids(eq)]
      BY <1>3 DEF Tag
    <2>. QED  BY <1>1, <1>3, <2>1, IsASeq
  <1>5. d # <<>>
    <2>1. Len(ids) # 0
      BY EmptySeq
    <2>2. Len(d) # 0
      BY <1>3, <1>4, <2>1
    <2>. QED  BY <1>4, <2>2, EmptySeq
  <1>. HIDE DEF d
  <1>. QED  BY <1>1, <1>4, <1>5 DEF Dictionary, d

\* The commands that have entries are the first of their types.
Firsts(eq, P) == {i \in P : i = Min(Like(eq, P, i))}
EntryOf(eq, P, pick) == [i \in Firsts(eq, P) |-> Entry(eq, i, pick[i])]

\* A dictionary with one entry for each type, of any of the commands that have it.
LEMMA EntriesDictionary ==
  ASSUME NEW eq, Len(eq.cmds) \in Nat, NEW P \in SUBSET Ids(eq), NEW pick,
         \A i \in P : pick[i] \in Like(eq, P, i)
  PROVE  /\ Row(Firsts(eq, P), EntryOf(eq, P, pick)) \in Seq([key : Tag(eq), id : Ids(eq)])
         /\ Row(Firsts(eq, P), EntryOf(eq, P, pick)) = <<>> <=> P = {}
  <1>. DEFINE firsts == Firsts(eq, P)
              T == [key : Tag(eq), id : Ids(eq)]
              G == EntryOf(eq, P, pick)
  <1>1. firsts \in SUBSET Nat /\ IsFiniteSet(firsts) /\ P \in SUBSET Nat
    <2>1. firsts \in SUBSET Ids(eq)
      BY DEF Firsts
    <2>. QED  BY <2>1, IdsAreFinite
  <1>2. G \in [firsts -> T]
    <2>1. ASSUME NEW i \in firsts PROVE Entry(eq, i, pick[i]) \in T
      <3>1. i \in Ids(eq) /\ pick[i] \in Ids(eq)
        BY DEF Like, Firsts
      <3>. QED  BY <3>1 DEF Entry, Tag
    <2>. QED  BY <2>1 DEF EntryOf
  <1>3. Row(firsts, G) \in Seq(T) /\ (Row(firsts, G) = <<>> <=> firsts = {})
    <2>. HIDE DEF firsts, T, G
    <2>. QED  BY <1>1, <1>2, InOrder DEF LinesUp
  <1>4. ASSUME P # {} PROVE firsts # {}
    <2>1. Min(P) \in P /\ \A y \in P : Min(P) <= y
      BY <1>1, <1>4, MinIsIn
    <2>. DEFINE S == Like(eq, P, Min(P))
    <2>2. S \in SUBSET Nat /\ Min(P) \in S /\ S \subseteq P
      BY <1>1, <2>1 DEF Like
    <2>3. Min(S) \in S /\ Min(S) <= Min(P)
      BY <2>2, MinIsIn
    <2>4. Min(S) = Min(P)
      <3>1. Min(P) <= Min(S) /\ Min(S) \in Nat /\ Min(P) \in Nat
        BY <1>1, <2>1, <2>2, <2>3
      <3>. HIDE DEF S
      <3>. QED  BY <2>3, <3>1
    <2>. QED  BY <2>1, <2>4 DEF Firsts
  <1>5. P = {} => firsts = {}
    BY DEF Firsts
  <1>. HIDE DEF firsts
  <1>. QED  BY <1>3, <1>4, <1>5 DEF firsts

\* The last command of each type makes a dictionary (switch.py:88-99).
LEMMA LastWinsDictionary ==
  ASSUME NEW eq, Len(eq.cmds) \in Nat, NEW P \in SUBSET Ids(eq)
  PROVE  /\ LastWins(eq, P) \in Seq([key : Tag(eq), id : Ids(eq)])
         /\ LastWins(eq, P) = <<>> <=> P = {}
  <1>. DEFINE pick == [i \in P |-> Max(Like(eq, P, i))]
              I == Inc(Firsts(eq, P))
  <1>1. ASSUME NEW i \in P PROVE pick[i] \in Like(eq, P, i)
    <2>1. Like(eq, P, i) \in SUBSET (1 .. Len(eq.cmds)) /\ i \in Like(eq, P, i)
      BY DEF Like, Ids
    <2>. QED  BY <2>1, MaxIsIn
  <1>2. LastWins(eq, P) = [n \in DOMAIN I |-> Entry(eq, I[n], Max(Like(eq, P, I[n])))]
    BY DEF LastWins, Entries, Mapped, Firsts
  <1>3. \A n \in DOMAIN I : I[n] \in Firsts(eq, P)
    <2>1. Firsts(eq, P) \in SUBSET Ids(eq)
      BY DEF Firsts
    <2>. QED  BY <2>1, IdsAreFinite, IncIsIn
  <1>4. LastWins(eq, P) = Row(Firsts(eq, P), EntryOf(eq, P, pick))
    <2>1. \A i \in Firsts(eq, P) :
            EntryOf(eq, P, pick)[i] = Entry(eq, i, Max(Like(eq, P, i)))
      BY DEF EntryOf, Firsts
    <2>. HIDE DEF I, pick
    <2>. QED  BY <1>2, <1>3, <2>1 DEF Row, I
  <1>. HIDE DEF pick
  <1>. QED  BY <1>1, <1>4, EntriesDictionary

\* The command that is kept for a type is one of those that have it.
LEMMA KeeperIsIn ==
  ASSUME NEW eq, NEW pref, NEW S \in SUBSET Nat, S # {}
  PROVE  Keeper(eq, S, pref) \in S
  <1>. DEFINE liked == {i \in S : /\ eq.cmds[i].gt \in DOMAIN pref
                                  /\ eq.cmds[i].sub = pref[eq.cmds[i].gt]}
              from == IF liked = {} THEN S ELSE liked
  <1>1. from \in SUBSET Nat /\ from # {} /\ from \subseteq S
    OBVIOUS
  <1>2. Keeper(eq, S, pref) = Min(from)
    BY DEF Keeper
  <1>. HIDE DEF from
  <1>. QED  BY <1>1, <1>2, MinIsIn

\* What is collected before a clash, which is never nothing.
LEMMA CollectDictionary ==
  ASSUME NEW eq, Len(eq.cmds) \in Nat, NEW T, NEW pref
  PROVE  /\ Collect(eq, T, pref).dict \in Seq([key : Tag(eq), id : Ids(eq)])
         /\ Collect(eq, T, pref).clash \in BOOLEAN
         /\ Collect(eq, T, pref).dict = <<>> => Collect(eq, T, pref).clash = FALSE
         /\ Tagged(eq, T) = {} => Collect(eq, T, pref).dict = <<>>
  <1>. DEFINE clashes == {i \in Tagged(eq, T) : Clash(eq, i, pref)}
              P == BeforeClash(Tagged(eq, T), clashes)
              pick == [i \in P |-> Keeper(eq, Like(eq, P, i), pref)]
              d == Collect(eq, T, pref).dict
              I == Inc(Firsts(eq, P))
  <1>1. Tagged(eq, T) \subseteq Ids(eq) /\ P \subseteq Tagged(eq, T) /\ P \subseteq Ids(eq)
    BY DEF Tagged, BeforeClash
  <1>2. d = [n \in DOMAIN I |-> Entry(eq, I[n], Keeper(eq, Like(eq, P, I[n]), pref))]
        /\ Collect(eq, T, pref).clash = (clashes # {})
    BY DEF Collect, CollectFrom, Collected, Entries, Mapped, Firsts
  <1>. HIDE DEF P, clashes, d
  <1>3. ASSUME NEW i \in P PROVE pick[i] \in Like(eq, P, i)
    <2>1. Like(eq, P, i) \in SUBSET Nat /\ i \in Like(eq, P, i)
      BY <1>1, IdsAreFinite DEF Like
    <2>. QED  BY <2>1, KeeperIsIn
  <1>4. d = Row(Firsts(eq, P), EntryOf(eq, P, pick))
    <2>1. \A n \in DOMAIN I : I[n] \in Firsts(eq, P)
      <3>1. Firsts(eq, P) \in SUBSET Ids(eq)
        BY <1>1 DEF Firsts
      <3>. QED  BY <3>1, IdsAreFinite, IncIsIn
    <2>2. \A i \in Firsts(eq, P) :
            EntryOf(eq, P, pick)[i] = Entry(eq, i, Keeper(eq, Like(eq, P, i), pref))
      BY DEF EntryOf, Firsts
    <2>. HIDE DEF I, pick
    <2>. QED  BY <1>2, <2>1, <2>2 DEF Row, I
  <1>5. d \in Seq([key : Tag(eq), id : Ids(eq)]) /\ (d = <<>> <=> P = {})
    <2>. HIDE DEF pick
    <2>. QED  BY <1>1, <1>3, <1>4, EntriesDictionary
  <1>6. ASSUME clashes # {} PROVE P # {}
    <2>1. clashes \in SUBSET Nat /\ clashes \subseteq Ids(eq)
      BY <1>1, IdsAreFinite DEF clashes
    <2>2. Min(clashes) \in clashes
      BY <1>6, <2>1, MinIsIn
    <2>3. PICK j \in 1 .. Min(clashes) - 1 : eq.cmds[j].gt = eq.cmds[Min(clashes)].gt
      <3>1. Clash(eq, Min(clashes), pref)
        BY <2>2 DEF clashes
      <3>. QED  BY <3>1 DEF Clash
    <2>4. j \in Ids(eq) /\ j < Min(clashes)
      <3>1. Min(clashes) \in 1 .. Len(eq.cmds)
        BY <2>1, <2>2 DEF Ids
      <3>. HIDE DEF clashes
      <3>. QED  BY <2>3, <3>1 DEF Ids
    <2>5. j \in Tagged(eq, T)
      BY <2>2, <2>3, <2>4 DEF clashes, Tagged
    <2>. QED  BY <1>6, <2>4, <2>5 DEF P, BeforeClash
  <1>7. Tagged(eq, T) = {} => P = {} /\ clashes = {}
    BY <1>1 DEF clashes
  <1>. QED  BY <1>2, <1>5, <1>6, <1>7 DEF d

\* The least sure of some grades is a confidence.
LEMMA WorstIsConfidence ==
  ASSUME NEW S \in SUBSET Confidence, S # {}
  PROVE  Worst(S) \in Confidence
  <1>. DEFINE at(c) == CHOOSE n \in 1 .. 3 : Order[n] = c
              rank == {at(c) : c \in S}
  <1>1. \A c \in Confidence : \E n \in 1 .. 3 : Order[n] = c
    BY DEF Confidence, Order
  <1>2. \A c \in S : at(c) \in 1 .. 3
    BY <1>1
  <1>3. rank \in SUBSET (1 .. 3) /\ rank # {}
    <2>. HIDE DEF at
    <2>. QED  BY <1>2
  <1>4. Max(rank) \in 1 .. 3
    <2>. HIDE DEF rank
    <2>. QED  BY <1>3, MaxIsIn
  <1>5. \A n \in 1 .. 3 : Order[n] \in Confidence
    BY DEF Confidence, Order
  <1>6. Worst(S) = Order[Max(rank)]
    BY DEF Worst
  <1>. HIDE DEF rank
  <1>. QED  BY <1>4, <1>5, <1>6

\* An entity of graded capabilities, however sure of them the mapper is.
LEMMA GradedOne ==
  ASSUME NEW eq, NEW type \in {"light", "cover"}, NEW col, col.dict \in Dictionary(eq),
         NEW grades, \A c \in DOMAIN grades : grades[c] \in {"sure", "probable", "no"},
         NEW extra \in SUBSET Capability, DOMAIN grades \in SUBSET Capability,
         "brightness" \in DOMAIN grades \cup extra => type = "light",
         "position" \in DOMAIN grades \cup extra => type = "cover", NEW warned
  PROVE  <<Graded(type, col, grades, extra, warned)>> \in One(eq, type)
  <1>. DEFINE caps  == {c \in DOMAIN grades : grades[c] # "no"}
              confs == {grades[c] : c \in caps} \cup (IF col.merged THEN {"probable"} ELSE {})
              conf == IF warned THEN "ambiguous" ELSE Worst(confs)
  <1>1. type \in ProductScope /\ type # "alarm_control_panel"
    BY DEF ProductScope, ComponentTypes
  <1>2. CASE caps = {}
    <2>1. Graded(type, col, grades, extra, warned) = Entity(type, "ambiguous", col.dict, {})
      BY <1>2 DEF Graded
    <2>2. "ambiguous" \in Confidence /\ {} \in SUBSET Capability
      BY DEF Confidence
    <2>. QED  BY <1>1, <2>1, <2>2, OneEntity
  <1>3. CASE caps # {}
    <2>1. Graded(type, col, grades, extra, warned) = Entity(type, conf, col.dict, caps \cup extra)
      BY <1>3 DEF Graded
    <2>2. confs \in SUBSET Confidence /\ confs # {}
      <3>1. \A c \in caps : grades[c] \in Confidence
        BY DEF Confidence
      <3>2. "probable" \in Confidence
        BY DEF Confidence
      <3>. QED  BY <1>3, <3>1, <3>2
    <2>3. conf \in Confidence
      <3>. HIDE DEF confs
      <3>. QED  BY <2>2, WorstIsConfidence DEF Confidence
    <2>4. caps \cup extra \in SUBSET Capability
          /\ ("brightness" \in caps \cup extra => type = "light")
          /\ ("position" \in caps \cup extra => type = "cover")
      OBVIOUS
    <2>. HIDE DEF caps, conf
    <2>. QED  BY <1>1, <2>1, <2>3, <2>4, OneEntity
  <1>. QED  BY <1>2, <1>3

LEMMA GradesOfLight ==
  ASSUME NEW k, NEW b
  PROVE  OnOff(k) \in {"sure", "probable", "no"} /\ Brightness(k, b) \in {"sure", "probable", "no"}
  BY DEF OnOff, Brightness

\* The light mapper answers at most one light, that of the equipment (light.py).
LEMMA LightOne ==
  ASSUME NEW eq, Len(eq.cmds) \in Nat
  PROVE  LightMapper(eq) \in One(eq, "light")
  <1>. DEFINE col == Collect(eq, LightTypes, LightPreference)
              k == Keys(col.dict)
              grades == [onOff |-> OnOff(k),
                         brightness |-> Brightness(k, NumericEntry(eq, col.dict, "LIGHT_STATE"))]
              vague == <<Entity("light", "ambiguous", col.dict, {})>>
              graded == <<Graded("light", col, grades, {}, "light" \in eq.keywords)>>
  <1>1. LightMapper(eq) \in {<<>>, vague, graded}
        /\ (LightMapper(eq) # <<>> => col.clash # FALSE \/ k # {})
    BY DEF LightMapper, LightOf
  <1>2. ASSUME col.clash # FALSE \/ k # {} PROVE col.dict \in Dictionary(eq)
    <2>1. col.dict \in Seq([key : Tag(eq), id : Ids(eq)])
          /\ (col.dict = <<>> => col.clash = FALSE)
      BY CollectDictionary
    <2>2. k # {} => col.dict # <<>>
      BY DEF Keys
    <2>. HIDE DEF col, k
    <2>. QED  BY <1>2, <2>1, <2>2 DEF Dictionary
  <1>3. \A c \in DOMAIN grades : grades[c] \in {"sure", "probable", "no"}
    BY GradesOfLight
  <1>4. DOMAIN grades = {"onOff", "brightness"}
    OBVIOUS
  <1>. HIDE DEF grades, col, k
  <1>5. ASSUME col.dict \in Dictionary(eq) PROVE vague \in One(eq, "light") /\ graded \in One(eq, "light")
    <2>1. "light" \in ProductScope /\ "ambiguous" \in Confidence /\ {} \in SUBSET Capability
      BY DEF ProductScope, ComponentTypes, Confidence
    <2>2. vague \in One(eq, "light")
      BY <1>5, <2>1, OneEntity
    <2>3. DOMAIN grades \in SUBSET Capability /\ "position" \notin DOMAIN grades \cup {}
      BY <1>4 DEF Capability
    <2>4. graded \in One(eq, "light")
      BY <1>3, <1>5, <2>1, <2>3, GradedOne
    <2>. QED  BY <2>2, <2>4
  <1>6. <<>> \in One(eq, "light")
    BY DEF One
  <1>. HIDE DEF vague, graded
  <1>. QED  BY <1>1, <1>2, <1>5, <1>6

----------------------------------------------------------------------------
\* The covers, with the barriers.

\* Neither the mode of a barrier nor the measure of a sensor changes the rest.
LEMMA ModeMade ==
  ASSUME NEW eq, NEW native, NEW e \in Made(eq, native),
         NEW mode \in Modes
  PROVE  /\ [e EXCEPT !.mode = mode] \in Made(eq, native)
         /\ [e EXCEPT !.mode = mode].scope = e.scope
  <1>. DEFINE f == [e EXCEPT !.mode = mode]
  <1>1. e \in Entities(eq)
    BY DEF Made
  <1>2. f \in Entities(eq) /\ f.scope = e.scope /\ f.native = e.native /\ f.type = e.type
        /\ f.dict = e.dict /\ f.caps = e.caps
    BY <1>1 DEF Entities
  <1>. HIDE DEF f
  <1>3. f \in Made(eq, native)
    BY <1>2 DEF Made
  <1>. QED  BY <1>2, <1>3 DEF f

LEMMA MeasureMade ==
  ASSUME NEW eq, NEW native, NEW e \in Made(eq, native), NEW i \in Ids(eq)
  PROVE  /\ [e EXCEPT !.measure = Measure(eq.cmds[i])] \in Made(eq, native)
         /\ [e EXCEPT !.measure = Measure(eq.cmds[i])].scope = e.scope
  <1>. DEFINE f == [e EXCEPT !.measure = Measure(eq.cmds[i])]
  <1>1. e \in Entities(eq) /\ Measure(eq.cmds[i]) \in Measures(eq)
    BY DEF Made, Measure, Measures
  <1>2. f \in Entities(eq) /\ f.scope = e.scope /\ f.native = e.native /\ f.type = e.type
        /\ f.dict = e.dict /\ f.caps = e.caps
    BY <1>1 DEF Entities
  <1>. HIDE DEF f
  <1>3. f \in Made(eq, native)
    BY <1>2 DEF Made
  <1>. QED  BY <1>2, <1>3 DEF f

\* A barrier is one cover, that takes at least one order (cover.py).
LEMMA BarrierOne ==
  ASSUME NEW eq, Len(eq.cmds) \in Nat
  PROVE  Barrier(eq) \in One(eq, "cover")
  <1>. DEFINE actions == Actions(eq, {"GB_OPEN", "GB_CLOSE", "GB_TOGGLE"})
              states  == Infos(eq, {"BARRIER_STATE", "GARAGE_STATE"})
              orders  == {eq.cmds[i].gt : i \in actions}
              mode    == IF "GB_TOGGLE" \in orders THEN "toggle"
                         ELSE IF {"GB_OPEN", "GB_CLOSE"} \subseteq orders THEN "direct" ELSE "none"
              ids     == Inc(actions) \o Inc(states)
              plain   == Entity("cover", "sure", Just(eq, ids), {"openClose"})
  <1>1. Barrier(eq) \in {<<>>, <<[plain EXCEPT !.mode = mode]>>}
        /\ (Barrier(eq) # <<>> => mode # "none")
    BY DEF Barrier
  <1>2. CASE Barrier(eq) = <<>>
    BY <1>2 DEF One
  <1>3. CASE mode # "none"
    <2>1. actions # {} /\ actions \in SUBSET Ids(eq) /\ states \in SUBSET Ids(eq)
      BY <1>3 DEF Actions, Infos, Tagged
    <2>2. mode \in Modes
      BY DEF Modes
    <2>. HIDE DEF actions, states, mode
    <2>3. ids \in Seq(Ids(eq)) /\ ids # <<>>
      <3>1. Ids(eq) \in SUBSET Nat /\ IsFiniteSet(actions) /\ IsFiniteSet(states)
        BY <2>1, IdsAreFinite
      <3>2. Inc(actions) \in Seq(Ids(eq)) /\ Inc(states) \in Seq(Ids(eq)) /\ Inc(actions) # <<>>
        BY <2>1, <3>1, IncSeq
      <3>. QED  BY <3>2, ConcatProperties, ConcatEqualIffEmpty, ConcatSimplifications
    <2>. HIDE DEF ids
    <2>4. Just(eq, ids) \in Dictionary(eq)
      BY <2>3, JustDictionary
    <2>5. plain \in Made(eq, "cover") /\ plain.scope = 0
      BY <2>4, EntityMade DEF ProductScope, ComponentTypes, Confidence, Capability
    <2>. HIDE DEF plain
    <2>7. [plain EXCEPT !.mode = mode] \in Made(eq, "cover")
          /\ [plain EXCEPT !.mode = mode].scope = 0
      BY <2>2, <2>5, ModeMade
    <2>8. <<[plain EXCEPT !.mode = mode]>> \in One(eq, "cover")
      BY <2>7, Zenon DEF One
    <2>. QED  BY <1>1, <2>8, Zenon DEF One
  <1>. QED  BY <1>1, <1>2, <1>3

\* The cover mapper answers at most one cover.
LEMMA CoverOne ==
  ASSUME NEW eq, Len(eq.cmds) \in Nat
  PROVE  CoverMapper(eq) \in One(eq, "cover")
  <1>. DEFINE col == Collect(eq, FlapTypes, CoverPreference)
              k == Keys(col.dict)
              grades == [openClose |-> OpenClose(k),
                         position |-> Position(k, NumericEntry(eq, col.dict, "FLAP_STATE"))]
              extra == {c \in {"stop", "bso"} : IF c = "stop" THEN "FLAP_STOP" \in k
                                                ELSE k \cap BsoTypes # {}}
              vague == <<Entity("cover", "ambiguous", col.dict, {})>>
              graded == <<Graded("cover", col, grades, extra, "cover" \in eq.keywords)>>
  <1>1. CoverMapper(eq) \in {<<>>, Barrier(eq), vague, graded}
        /\ (CoverMapper(eq) \notin {<<>>, Barrier(eq)} => col.clash # FALSE \/ k # {})
    BY DEF CoverMapper, CoverOf
  <1>2. ASSUME col.clash # FALSE \/ k # {} PROVE col.dict \in Dictionary(eq)
    <2>1. col.dict \in Seq([key : Tag(eq), id : Ids(eq)])
          /\ (col.dict = <<>> => col.clash = FALSE)
      BY CollectDictionary
    <2>2. k # {} => col.dict # <<>>
      BY DEF Keys
    <2>. HIDE DEF col, k
    <2>. QED  BY <1>2, <2>1, <2>2 DEF Dictionary
  <1>3. \A c \in DOMAIN grades : grades[c] \in {"sure", "probable", "no"}
    BY DEF OpenClose, Position
  <1>4. DOMAIN grades = {"openClose", "position"} /\ extra \in SUBSET {"stop", "bso"}
    OBVIOUS
  <1>. HIDE DEF grades, col, k, extra
  <1>5. ASSUME col.dict \in Dictionary(eq) PROVE vague \in One(eq, "cover") /\ graded \in One(eq, "cover")
    <2>1. "cover" \in ProductScope /\ "ambiguous" \in Confidence /\ {} \in SUBSET Capability
      BY DEF ProductScope, ComponentTypes, Confidence
    <2>2. vague \in One(eq, "cover")
      BY <1>5, <2>1, OneEntity
    <2>3. DOMAIN grades \in SUBSET Capability /\ extra \in SUBSET Capability
          /\ "brightness" \notin DOMAIN grades \cup extra
      BY <1>4 DEF Capability
    <2>4. graded \in One(eq, "cover")
      BY <1>3, <1>5, <2>1, <2>3, GradedOne
    <2>. QED  BY <2>2, <2>4
  <1>6. <<>> \in One(eq, "cover") /\ Barrier(eq) \in One(eq, "cover")
    BY BarrierOne DEF One
  <1>. HIDE DEF vague, graded
  <1>. QED  BY <1>1, <1>2, <1>5, <1>6

----------------------------------------------------------------------------
\* The switches and their groups.

\* The outlets and the locks are at most one switch.
LEMMA EnergySwitchOne ==
  ASSUME NEW eq, Len(eq.cmds) \in Nat
  PROVE  EnergySwitch(eq) \in One(eq, "switch")
  <1>. DEFINE d == LastWins(eq, Tagged(eq, EnergyTypes))
              k == Keys(d)
              state == IF "ENERGY_STATE" \in k THEN {"state"} ELSE {}
              conf == IF "switch" \in eq.keywords THEN "ambiguous"
                      ELSE IF k = EnergyTypes THEN "sure" ELSE "probable"
              vague == <<Entity("switch", "ambiguous", d, {})>>
              read == <<Entity("switch", "ambiguous", d, state)>>
              full == <<Entity("switch", conf, d, {"onOff"} \cup state)>>
  <1>1. EnergySwitch(eq) \in {<<>>, vague, read, full} /\ (EnergySwitch(eq) # <<>> => k # {})
    BY DEF EnergySwitch, EnergySwitchOf
  <1>2. ASSUME k # {} PROVE d \in Dictionary(eq)
    <2>1. Tagged(eq, EnergyTypes) \in SUBSET Ids(eq)
      BY DEF Tagged
    <2>2. d \in Seq([key : Tag(eq), id : Ids(eq)])
      BY <2>1, LastWinsDictionary
    <2>3. k # {} => d # <<>>
      BY DEF Keys
    <2>. HIDE DEF d, k
    <2>. QED  BY <1>2, <2>2, <2>3 DEF Dictionary
  <1>3. state \in SUBSET {"state"} /\ conf \in Confidence
    BY DEF Confidence
  <1>. HIDE DEF state, conf, d, k
  <1>4. ASSUME d \in Dictionary(eq)
        PROVE  {vague, read, full} \subseteq One(eq, "switch")
    <2>1. "switch" \in ProductScope /\ "ambiguous" \in Confidence
      BY DEF ProductScope, ComponentTypes, Confidence
    <2>2. /\ {} \in SUBSET Capability /\ state \in SUBSET Capability
          /\ {"onOff"} \cup state \in SUBSET Capability
          /\ {"brightness", "position"} \cap ({"onOff"} \cup state) = {}
          /\ {"brightness", "position"} \cap state = {}
      BY <1>3 DEF Capability
    <2>3. vague \in One(eq, "switch")
      BY <1>4, <2>1, <2>2, OneEntity
    <2>4. read \in One(eq, "switch")
      BY <1>4, <2>1, <2>2, OneEntity
    <2>5. full \in One(eq, "switch")
      <3>. DEFINE caps == {"onOff"} \cup state
      <3>1. caps \in SUBSET Capability /\ "brightness" \notin caps /\ "position" \notin caps
        BY <2>2
      <3>. HIDE DEF caps
      <3>2. <<Entity("switch", conf, d, caps)>> \in One(eq, "switch")
        BY <1>3, <1>4, <2>1, <3>1, OneEntity
      <3>. QED  BY <3>2 DEF caps
    <2>. QED  BY <2>3, <2>4, <2>5
  <1>5. <<>> \in One(eq, "switch")
    BY DEF One
  <1>. HIDE DEF vague, read, full
  <1>. QED  BY <1>1, <1>2, <1>4, <1>5

\* The groups of the switches, each by the first of its commands.
Of(eq, f) == Tagged(eq, Range(Trio(f)))
Same(eq, f, i) == {j \in Of(eq, f) : eq.cmds[j].name = eq.cmds[i].name}
Typed(eq, S, t) == {j \in S : eq.cmds[j].gt = t}
Whole(eq, f, S) == \A t \in Range(Trio(f)) : Typed(eq, S, t) # {}
Latest(eq, f, S) == Group(f, [n \in 1 .. 3 |-> Max(Typed(eq, S, Trio(f)[n]))])
Named(eq, f) == {i \in Of(eq, f) : i = Min(Same(eq, f, i)) /\ Whole(eq, f, Same(eq, f, i))}
Lone(eq, f) == {i \in Of(eq, f) : /\ Named(eq, f) = {} /\ i = Min(Of(eq, f))
                                  /\ \A t \in Range(Trio(f)) :
                                       Cardinality(Typed(eq, Of(eq, f), t)) = 1}
Family(eq, i) == IF eq.cmds[i].gt \in Range(Trio("FAN")) THEN "FAN" ELSE "SWITCH"
NamedIds(eq) == UNION {Named(eq, f) : f \in Families}
LoneIds(eq) == UNION {Lone(eq, f) : f \in Families}
NamedGroup(eq) == [i \in NamedIds(eq) |-> Latest(eq, Family(eq, i), Same(eq, Family(eq, i), i))]
LoneGroup(eq) == [i \in LoneIds(eq) |-> Latest(eq, Family(eq, i), Of(eq, Family(eq, i)))]

\* The groups of the switches are those of the same name, then those of a lone trio.
LEMMA GroupsUnfolded ==
  ASSUME NEW eq
  PROVE  SwitchGroups(eq) =
           [n \in DOMAIN Inc(NamedIds(eq)) |->
              Latest(eq, Family(eq, Inc(NamedIds(eq))[n]),
                     Same(eq, Family(eq, Inc(NamedIds(eq))[n]), Inc(NamedIds(eq))[n]))] \o
           [n \in DOMAIN Inc(LoneIds(eq)) |->
              Latest(eq, Family(eq, Inc(LoneIds(eq))[n]),
                     Of(eq, Family(eq, Inc(LoneIds(eq))[n])))]
  BY Zenon DEF SwitchGroups, Mapped, NamedIds, LoneIds, Latest, Family, Same, Of, Named, Lone,
         Whole, Typed

\* The groups the switch mapper makes entities of.
Groups(eq) == {g \in Dictionary(eq) : DOMAIN g = 1 .. 3 /\ Keys(g) \cap ReadKeys = {}}

\* The trios of the families have no type in common, and none of a light or a cover.
LEMMA TrioKeys ==
  /\ \A f \in Families : DOMAIN Trio(f) = 1 .. 3 /\ Range(Trio(f)) = {Trio(f)[n] : n \in 1 .. 3}
  /\ \A f \in Families : Range(Trio(f)) \cap ReadKeys = {}
  /\ \A f, g \in Families : f # g => Range(Trio(f)) \cap Range(Trio(g)) = {}
  <1>1. Trio("FAN") = <<"FAN_STATE", "FAN_ON", "FAN_OFF">>
    BY DEF Trio
  <1>2. Trio("SWITCH") = <<"SWITCH_STATE", "SWITCH_ON", "SWITCH_OFF">>
    BY DEF Trio
  <1>3. \A f \in Families : DOMAIN Trio(f) = 1 .. 3
    BY <1>1, <1>2 DEF Families
  <1>4. \A f \in Families : Range(Trio(f)) = {Trio(f)[n] : n \in 1 .. 3}
    BY <1>3 DEF Range
  <1>5. Range(Trio("FAN")) = {"FAN_STATE", "FAN_ON", "FAN_OFF"}
        /\ Range(Trio("SWITCH")) = {"SWITCH_STATE", "SWITCH_ON", "SWITCH_OFF"}
    BY <1>1, <1>2, <1>4 DEF Families
  <1>. QED  BY <1>3, <1>4, <1>5 DEF Families, ReadKeys

\* A command of a trio has one family.
LEMMA FamilyIs ==
  ASSUME NEW eq, NEW f \in Families, NEW i \in Of(eq, f)
  PROVE  Family(eq, i) = f /\ i \in Ids(eq)
  <1>1. eq.cmds[i].gt \in Range(Trio(f)) /\ i \in Ids(eq)
    BY DEF Of, Tagged
  <1>2. f = "FAN" \/ (f = "SWITCH" /\ eq.cmds[i].gt \notin Range(Trio("FAN")))
    BY <1>1, TrioKeys DEF Families
  <1>. QED  BY <1>1, <1>2 DEF Family

\* A complete trio makes a group, each key with a command of its type.
LEMMA LatestIsGroup ==
  ASSUME NEW eq, Len(eq.cmds) \in Nat, NEW f \in Families, NEW S \in SUBSET Ids(eq),
         Whole(eq, f, S)
  PROVE  /\ Latest(eq, f, S) \in Groups(eq)
         /\ Latest(eq, f, S)[1].id \in Typed(eq, S, Trio(f)[1])
  <1>. DEFINE ids == [n \in 1 .. 3 |-> Max(Typed(eq, S, Trio(f)[n]))]
              g == Latest(eq, f, S)
  <1>1. ASSUME NEW n \in 1 .. 3 PROVE ids[n] \in Typed(eq, S, Trio(f)[n])
    <2>1. Trio(f)[n] \in Range(Trio(f))
      BY TrioKeys
    <2>2. Typed(eq, S, Trio(f)[n]) # {}
      BY <2>1 DEF Whole
    <2>3. Typed(eq, S, Trio(f)[n]) \in SUBSET (1 .. Len(eq.cmds))
      BY DEF Typed, Ids
    <2>4. Max(Typed(eq, S, Trio(f)[n])) \in Typed(eq, S, Trio(f)[n])
      BY <2>2, <2>3, MaxIsIn
    <2>. QED  BY <2>4
  <1>2. g = [n \in 1 .. 3 |-> [key |-> Trio(f)[n], id |-> ids[n]]]
    BY DEF Latest, Group
  <1>. HIDE DEF ids, g
  <1>3. ASSUME NEW n \in 1 .. 3 PROVE g[n] \in [key : Tag(eq), id : Ids(eq)]
    <2>1. ids[n] \in Ids(eq) /\ eq.cmds[ids[n]].gt = Trio(f)[n]
      BY <1>1 DEF Typed
    <2>2. Trio(f)[n] \in Tag(eq)
      BY <2>1 DEF Tag
    <2>. QED  BY <1>2, <2>1, <2>2
  <1>4. g \in Seq([key : Tag(eq), id : Ids(eq)]) /\ DOMAIN g = 1 .. 3
    BY <1>2, <1>3, IsASeq
  <1>5. g # <<>>
    <2>1. Len(g) = 3
      BY <1>4
    <2>. QED  BY <1>4, <2>1, EmptySeq
  <1>6. Keys(g) \cap ReadKeys = {}
    <2>1. \A n \in 1 .. 3 : g[n].key \in Range(Trio(f))
      BY <1>2, TrioKeys
    <2>. QED  BY <1>4, <2>1, TrioKeys DEF Keys
  <1>7. g[1].id = ids[1]
    BY <1>2
  <1>. QED  BY <1>1, <1>4, <1>5, <1>6, <1>7 DEF Groups, Dictionary, g

\* The groups are whole: each has a command for each type of its trio.
LEMMA NamedIsWhole ==
  ASSUME NEW eq, NEW f \in Families, NEW i \in Named(eq, f)
  PROVE  /\ Same(eq, f, i) \in SUBSET Ids(eq) /\ Whole(eq, f, Same(eq, f, i))
         /\ i = Min(Same(eq, f, i)) /\ i \in Of(eq, f)
  BY FamilyIs DEF Named, Same

LEMMA LoneIsWhole ==
  ASSUME NEW eq, NEW f \in Families, NEW i \in Lone(eq, f)
  PROVE  /\ Of(eq, f) \in SUBSET Ids(eq) /\ Whole(eq, f, Of(eq, f))
         /\ i = Min(Of(eq, f)) /\ i \in Of(eq, f) /\ Named(eq, f) = {}
  <1>1. \A t \in Range(Trio(f)) : Cardinality(Typed(eq, Of(eq, f), t)) = 1
    BY DEF Lone
  <1>2. Whole(eq, f, Of(eq, f))
    <2>1. Cardinality({}) = 0
      BY FS_EmptySet
    <2>. QED  BY <1>1, <2>1 DEF Whole
  <1>. QED  BY <1>2, FamilyIs DEF Lone

\* Two groups never share their state, whether they have a name or not.
LEMMA GroupStates ==
  ASSUME NEW eq, Len(eq.cmds) \in Nat
  PROVE  /\ NamedIds(eq) \in SUBSET Ids(eq) /\ LoneIds(eq) \in SUBSET Ids(eq)
         /\ NamedGroup(eq) \in [NamedIds(eq) -> Groups(eq)]
         /\ LoneGroup(eq) \in [LoneIds(eq) -> Groups(eq)]
         /\ \A i, j \in NamedIds(eq) : i # j => NamedGroup(eq)[i][1].id # NamedGroup(eq)[j][1].id
         /\ \A i, j \in LoneIds(eq) : i # j => LoneGroup(eq)[i][1].id # LoneGroup(eq)[j][1].id
         /\ \A i \in NamedIds(eq), j \in LoneIds(eq) :
              NamedGroup(eq)[i][1].id # LoneGroup(eq)[j][1].id
  <1>1. ASSUME NEW f \in Families, NEW i \in Named(eq, f)
        PROVE  /\ i \in Ids(eq) /\ Family(eq, i) = f
               /\ NamedGroup(eq)[i] \in Groups(eq)
               /\ NamedGroup(eq)[i][1].id \in Typed(eq, Same(eq, f, i), Trio(f)[1])
    <2>1. i \in Ids(eq) /\ Family(eq, i) = f
      BY NamedIsWhole, FamilyIs
    <2>2. NamedGroup(eq)[i] = Latest(eq, f, Same(eq, f, i))
      BY <2>1 DEF NamedGroup, NamedIds
    <2>. QED  BY <2>1, <2>2, NamedIsWhole, LatestIsGroup
  <1>2. ASSUME NEW f \in Families, NEW i \in Lone(eq, f)
        PROVE  /\ i \in Ids(eq) /\ Family(eq, i) = f
               /\ LoneGroup(eq)[i] \in Groups(eq)
               /\ LoneGroup(eq)[i][1].id \in Typed(eq, Of(eq, f), Trio(f)[1])
    <2>1. i \in Ids(eq) /\ Family(eq, i) = f
      BY LoneIsWhole, FamilyIs
    <2>2. LoneGroup(eq)[i] = Latest(eq, f, Of(eq, f))
      BY <2>1 DEF LoneGroup, LoneIds
    <2>. QED  BY <2>1, <2>2, LoneIsWhole, LatestIsGroup
  <1>3. \A f, g \in Families : \A S, T : \A x \in Typed(eq, S, Trio(f)[1]), y \in Typed(eq, T, Trio(g)[1]) :
          f # g => x # y
    <2>1. \A f \in Families : Trio(f)[1] \in Range(Trio(f))
      BY TrioKeys
    <2>2. \A f, g \in Families : f # g => Trio(f)[1] # Trio(g)[1]
      BY <2>1, TrioKeys
    <2>. QED  BY <2>2 DEF Typed
  <1>4. ASSUME NEW i \in NamedIds(eq), NEW j \in NamedIds(eq), i # j
        PROVE  NamedGroup(eq)[i][1].id # NamedGroup(eq)[j][1].id
    <2>1. PICK f \in Families : i \in Named(eq, f)
      BY DEF NamedIds
    <2>2. PICK g \in Families : j \in Named(eq, g)
      BY DEF NamedIds
    <2>3. NamedGroup(eq)[i][1].id \in Typed(eq, Same(eq, f, i), Trio(f)[1])
          /\ NamedGroup(eq)[j][1].id \in Typed(eq, Same(eq, g, j), Trio(g)[1])
      BY <1>1, <2>1, <2>2
    <2>4. CASE f # g
      BY <1>3, <2>3, <2>4
    <2>5. CASE f = g
      <3>1. Same(eq, f, i) # Same(eq, f, j)
        BY <1>4, <2>1, <2>2, <2>5, NamedIsWhole
      <3>2. eq.cmds[i].name # eq.cmds[j].name
        BY <3>1 DEF Same
      <3>3. \A x \in Same(eq, f, i), y \in Same(eq, f, j) : x # y
        BY <3>2 DEF Same
      <3>. QED  BY <2>3, <2>5, <3>3 DEF Typed
    <2>. QED  BY <2>4, <2>5
  <1>5. ASSUME NEW i \in LoneIds(eq), NEW j \in LoneIds(eq), i # j
        PROVE  LoneGroup(eq)[i][1].id # LoneGroup(eq)[j][1].id
    <2>1. PICK f \in Families : i \in Lone(eq, f)
      BY DEF LoneIds
    <2>2. PICK g \in Families : j \in Lone(eq, g)
      BY DEF LoneIds
    <2>3. f # g
      BY <1>5, <2>1, <2>2, LoneIsWhole
    <2>4. LoneGroup(eq)[i][1].id \in Typed(eq, Of(eq, f), Trio(f)[1])
          /\ LoneGroup(eq)[j][1].id \in Typed(eq, Of(eq, g), Trio(g)[1])
      BY <1>2, <2>1, <2>2
    <2>. QED  BY <1>3, <2>3, <2>4
  <1>6. ASSUME NEW i \in NamedIds(eq), NEW j \in LoneIds(eq)
        PROVE  NamedGroup(eq)[i][1].id # LoneGroup(eq)[j][1].id
    <2>1. PICK f \in Families : i \in Named(eq, f)
      BY DEF NamedIds
    <2>2. PICK g \in Families : j \in Lone(eq, g)
      BY DEF LoneIds
    <2>3. f # g
      BY <2>1, <2>2, LoneIsWhole
    <2>4. NamedGroup(eq)[i][1].id \in Typed(eq, Same(eq, f, i), Trio(f)[1])
          /\ LoneGroup(eq)[j][1].id \in Typed(eq, Of(eq, g), Trio(g)[1])
      BY <1>1, <1>2, <2>1, <2>2
    <2>. QED  BY <1>3, <2>3, <2>4
  <1>7. NamedIds(eq) \in SUBSET Ids(eq) /\ NamedGroup(eq) \in [NamedIds(eq) -> Groups(eq)]
    <2>1. \A i \in NamedIds(eq) : i \in Ids(eq) /\ NamedGroup(eq)[i] \in Groups(eq)
      BY <1>1 DEF NamedIds
    <2>2. NamedGroup(eq) = [i \in NamedIds(eq) |-> NamedGroup(eq)[i]]
      BY DEF NamedGroup
    <2>. QED  BY <2>1, <2>2
  <1>8. LoneIds(eq) \in SUBSET Ids(eq) /\ LoneGroup(eq) \in [LoneIds(eq) -> Groups(eq)]
    <2>1. \A i \in LoneIds(eq) : i \in Ids(eq) /\ LoneGroup(eq)[i] \in Groups(eq)
      BY <1>2 DEF LoneIds
    <2>2. LoneGroup(eq) = [i \in LoneIds(eq) |-> LoneGroup(eq)[i]]
      BY DEF LoneGroup
    <2>. QED  BY <2>1, <2>2
  <1>. QED  BY <1>4, <1>5, <1>6, <1>7, <1>8

\* The groups have distinct states, and there is none without a command of a family.
LEMMA SwitchGroupsTypes ==
  ASSUME NEW eq, Len(eq.cmds) \in Nat
  PROVE  /\ SwitchGroups(eq) \in Seq(Groups(eq))
         /\ \A n, m \in DOMAIN SwitchGroups(eq) :
              n # m => SwitchGroups(eq)[n][1].id # SwitchGroups(eq)[m][1].id
         /\ (\A f \in Families : Of(eq, f) = {}) => SwitchGroups(eq) = <<>>
  <1>. DEFINE s == Row(NamedIds(eq), NamedGroup(eq))
              t == Row(LoneIds(eq), LoneGroup(eq))
  <1>1. /\ NamedIds(eq) \in SUBSET Nat /\ IsFiniteSet(NamedIds(eq))
        /\ LoneIds(eq) \in SUBSET Nat /\ IsFiniteSet(LoneIds(eq))
    BY GroupStates, IdsAreFinite
  <1>2. SwitchGroups(eq) = s \o t
    <2>1. \A n \in DOMAIN Inc(NamedIds(eq)) : Inc(NamedIds(eq))[n] \in NamedIds(eq)
      BY <1>1, IncIsIn
    <2>2. \A n \in DOMAIN Inc(LoneIds(eq)) : Inc(LoneIds(eq))[n] \in LoneIds(eq)
      BY <1>1, IncIsIn
    <2>3. s = [n \in DOMAIN Inc(NamedIds(eq)) |->
                 Latest(eq, Family(eq, Inc(NamedIds(eq))[n]),
                        Same(eq, Family(eq, Inc(NamedIds(eq))[n]), Inc(NamedIds(eq))[n]))]
      BY <2>1 DEF Row, NamedGroup
    <2>4. t = [n \in DOMAIN Inc(LoneIds(eq)) |->
                 Latest(eq, Family(eq, Inc(LoneIds(eq))[n]),
                        Of(eq, Family(eq, Inc(LoneIds(eq))[n])))]
      BY <2>2 DEF Row, LoneGroup
    <2>. QED  BY <2>3, <2>4, GroupsUnfolded
  <1>3. /\ s \in Seq(Groups(eq)) /\ LinesUp(s, NamedIds(eq), NamedGroup(eq))
        /\ t \in Seq(Groups(eq)) /\ LinesUp(t, LoneIds(eq), LoneGroup(eq))
    BY <1>1, GroupStates, InOrder
  <1>4. \A n, m \in DOMAIN s : n # m => s[n][1].id # s[m][1].id
    <2>1. \A n, m \in DOMAIN s : n # m =>
            \E i, j \in NamedIds(eq) : i # j /\ s[n] = NamedGroup(eq)[i] /\ s[m] = NamedGroup(eq)[j]
      BY <1>3 DEF LinesUp
    <2>. HIDE DEF s
    <2>. QED  BY <2>1, GroupStates
  <1>5. \A n, m \in DOMAIN t : n # m => t[n][1].id # t[m][1].id
    <2>1. \A n, m \in DOMAIN t : n # m =>
            \E i, j \in LoneIds(eq) : i # j /\ t[n] = LoneGroup(eq)[i] /\ t[m] = LoneGroup(eq)[j]
      BY <1>3 DEF LinesUp
    <2>. HIDE DEF t
    <2>. QED  BY <2>1, GroupStates
  <1>6. \A n \in DOMAIN s, m \in DOMAIN t : s[n][1].id # t[m][1].id
    <2>1. \A n \in DOMAIN s : \E i \in NamedIds(eq) : s[n] = NamedGroup(eq)[i]
      BY <1>3 DEF LinesUp
    <2>2. \A n \in DOMAIN t : \E i \in LoneIds(eq) : t[n] = LoneGroup(eq)[i]
      BY <1>3 DEF LinesUp
    <2>. HIDE DEF s, t
    <2>. QED  BY <2>1, <2>2, GroupStates
  <1>7. ASSUME \A f \in Families : Of(eq, f) = {} PROVE s = <<>> /\ t = <<>>
    <2>1. NamedIds(eq) = {} /\ LoneIds(eq) = {}
      BY <1>7 DEF NamedIds, LoneIds, Named, Lone
    <2>. QED  BY <1>3, <2>1 DEF LinesUp
  <1>. HIDE DEF s, t
  <1>8. s \o t \in Seq(Groups(eq)) /\ Len(s \o t) = Len(s) + Len(t)
        /\ \A i \in 1 .. Len(s) + Len(t) :
             (s \o t)[i] = IF i <= Len(s) THEN s[i] ELSE t[i - Len(s)]
    BY <1>3, ConcatProperties
  <1>9. ASSUME NEW n \in DOMAIN (s \o t), NEW m \in DOMAIN (s \o t), n # m
        PROVE  (s \o t)[n][1].id # (s \o t)[m][1].id
    <2>1. Len(s) \in Nat /\ Len(t) \in Nat /\ DOMAIN s = 1 .. Len(s) /\ DOMAIN t = 1 .. Len(t)
          /\ DOMAIN (s \o t) = 1 .. Len(s) + Len(t)
      BY <1>3, <1>8, LenProperties
    <2>2. CASE n <= Len(s) /\ m <= Len(s)
      BY <1>4, <1>8, <1>9, <2>1, <2>2
    <2>3. CASE n <= Len(s) /\ ~(m <= Len(s))
      BY <1>6, <1>8, <2>1, <2>3
    <2>4. CASE ~(n <= Len(s)) /\ m <= Len(s)
      BY <1>6, <1>8, <2>1, <2>4
    <2>5. CASE ~(n <= Len(s)) /\ ~(m <= Len(s))
      <3>1. n - Len(s) # m - Len(s) /\ n - Len(s) \in DOMAIN t /\ m - Len(s) \in DOMAIN t
        BY <1>9, <2>1, <2>5
      <3>. QED  BY <1>5, <1>8, <2>1, <2>5, <3>1
    <2>. QED  BY <2>2, <2>3, <2>4, <2>5
  <1>. QED  BY <1>2, <1>7, <1>8, <1>9, ConcatSimplifications, EmptySeq

\* Entities that are named after commands.
Several(eq, native) == {s \in Seq(Made(eq, native)) : \A n \in DOMAIN s : s[n].scope # 0}

\* A group is a switch that is named after its state.
LEMMA GroupSwitchMade ==
  ASSUME NEW eq, Len(eq.cmds) \in Nat, NEW g \in Groups(eq)
  PROVE  /\ GroupSwitch(g) \in Made(eq, "switch")
         /\ GroupSwitch(g).scope = g[1].id /\ GroupSwitch(g).scope # 0
  <1>. DEFINE plain == Entity("switch", "probable", g, {"onOff", "state"})
              e == GroupSwitch(g)
  <1>1. plain = [type |-> "switch", native |-> "switch", conf |-> "probable", scope |-> 0,
                 dict |-> g, caps |-> {"onOff", "state"}, measure |-> "", mode |-> "none"]
    BY DEF Entity
  <1>2. e = [plain EXCEPT !.scope = g[1].id]
    BY DEF GroupSwitch
  <1>3. g \in Dictionary(eq) /\ Keys(g) \cap ReadKeys = {} /\ DOMAIN g = 1 .. 3
    BY DEF Groups
  <1>4. g[1].id \in Ids(eq) /\ g[1].id # 0
    <2>. DEFINE T == [key : Tag(eq), id : Ids(eq)]
    <2>1. g \in Seq(T)
      BY <1>3 DEF Dictionary
    <2>2. g[1] \in T
      <3>. HIDE DEF T
      <3>1. DOMAIN g = 1 .. Len(g)
        BY <2>1, LenProperties
      <3>. QED  BY <1>3, <2>1, <3>1
    <2>. QED  BY <2>2 DEF Ids
  <1>. HIDE DEF plain, e
  <1>5. plain \in Entities(eq)
    BY <1>1, <1>3 DEF Entities, Measures, Modes, Confidence, Capability, ProductScope, ComponentTypes
  <1>6. e \in Entities(eq) /\ e.scope = g[1].id /\ e.dict = g /\ e.caps = {"onOff", "state"}
        /\ e.type = "switch" /\ e.native = "switch"
    BY <1>1, <1>2, <1>4, <1>5 DEF Entities
  <1>7. e \in Made(eq, "switch")
    BY <1>3, <1>6 DEF Made
  <1>. QED  BY <1>4, <1>6, <1>7 DEF e

\* Either one switch for the equipment, or one for each group with its own state.
LEMMA SwitchMade ==
  ASSUME NEW eq, Len(eq.cmds) \in Nat
  PROVE  \/ SwitchMapper(eq) \in One(eq, "switch")
         \/ /\ SwitchMapper(eq) \in Several(eq, "switch")
            /\ \A n, m \in DOMAIN SwitchMapper(eq) :
                 n # m => SwitchMapper(eq)[n].scope # SwitchMapper(eq)[m].scope
            /\ \A n \in DOMAIN SwitchMapper(eq) : SwitchMapper(eq)[n].scope \in SwitchReadback(eq)
  <1>. DEFINE gs == SwitchGroups(eq)
              s == SwitchMapper(eq)
  <1>1. CASE gs = <<>>
    BY <1>1, EnergySwitchOne DEF SwitchMapper, SwitchesOf
  <1>2. CASE gs # <<>>
    <2>1. s = [n \in DOMAIN gs |-> GroupSwitch(gs[n])]
      BY <1>2 DEF SwitchMapper, SwitchesOf, Mapped
    <2>2. gs \in Seq(Groups(eq)) /\ \A n, m \in DOMAIN gs : n # m => gs[n][1].id # gs[m][1].id
      BY SwitchGroupsTypes
    <2>3. \A n \in DOMAIN gs : gs[n][1].id \in SwitchReadback(eq)
      BY DEF SwitchReadback, Mapped, Range
    <2>. HIDE DEF gs, s
    <2>4. ASSUME NEW n \in DOMAIN gs
          PROVE  /\ s[n] \in Made(eq, "switch") /\ s[n].scope = gs[n][1].id
                 /\ s[n].scope # 0
      <3>1. gs[n] \in Groups(eq)
        BY <2>2, ElementOfSeq, LenProperties
      <3>. QED  BY <2>1, <3>1, GroupSwitchMade
    <2>5. s \in Seq(Made(eq, "switch")) /\ DOMAIN s = DOMAIN gs
      BY <2>1, <2>2, <2>4, LenProperties, IsASeq
    <2>6. s \in Several(eq, "switch")
      BY <2>4, <2>5 DEF Several
    <2>7. \A n, m \in DOMAIN s : n # m => s[n].scope # s[m].scope
      BY <2>2, <2>4, <2>5
    <2>8. \A n \in DOMAIN s : s[n].scope \in SwitchReadback(eq)
      BY <2>3, <2>4, <2>5
    <2>. QED  BY <2>6, <2>7, <2>8 DEF s
  <1>. QED  BY <1>1, <1>2

\* One entity of a command, for each command of a set.
CommandEntities(eq, type, S, measure) ==
  [n \in DOMAIN Inc(S) |-> CommandEntity(type, "sure", Inc(S)[n], measure[Inc(S)[n]])]

\* Each command of the set has its entity, and each entity its command.
LEMMA CommandEntitiesMade ==
  ASSUME NEW eq, Len(eq.cmds) \in Nat, NEW type \in {"sensor", "binary_sensor"},
         NEW S \in SUBSET Ids(eq), NEW measure,
         \A i \in S : measure[i] \in Measures(eq)
  PROVE  /\ CommandEntities(eq, type, S, measure) \in Several(eq, type)
         /\ \A m \in DOMAIN CommandEntities(eq, type, S, measure) :
              LET e == CommandEntities(eq, type, S, measure)[m]
              IN  e.scope \in S /\ \A n \in DOMAIN e.dict : e.dict[n].id = e.scope
         /\ \A i \in S : \E m \in DOMAIN CommandEntities(eq, type, S, measure) :
              CommandEntities(eq, type, S, measure)[m] = CommandEntity(type, "sure", i, measure[i])
         /\ CommandEntities(eq, type, S, measure) = <<>> <=> S = {}
  <1>. DEFINE G == [i \in S |-> CommandEntity(type, "sure", i, measure[i])]
              q == CommandEntities(eq, type, S, measure)
  <1>1. S \in SUBSET Nat /\ IsFiniteSet(S) /\ 0 \notin S
    BY IdsAreFinite
  <1>2. ASSUME NEW i \in S
        PROVE  /\ G[i] \in Made(eq, type) /\ G[i].scope = i
               /\ \A n \in DOMAIN G[i].dict : G[i].dict[n].id = i
    <2>1. PICK x \in Measures(eq) :
            x = measure[i]
      OBVIOUS
    <2>2. G[i] = CommandEntity(type, "sure", i, measure[i])
      OBVIOUS
    <2>. HIDE DEF G
    <2>3. i \in Ids(eq)
      OBVIOUS
    <2>. DEFINE e == CommandEntity(type, "sure", i, x)
    <2>4. e \in Made(eq, type) /\ e.scope = i /\ \A n \in DOMAIN e.dict : e.dict[n].id = i
      BY <2>3, CommandEntityMade
    <2>. HIDE DEF e
    <2>5. G[i] = e
      BY <2>1, <2>2 DEF e
    <2>. QED  BY <2>4, <2>5
  <1>3. q = Row(S, G)
    <2>1. \A n \in DOMAIN Inc(S) : Inc(S)[n] \in S
      BY <1>1, IncIsIn
    <2>. QED  BY <2>1 DEF CommandEntities, Row
  <1>4. G \in [S -> Made(eq, type)]
    BY <1>2
  <1>5. \A i \in S : G[i] = CommandEntity(type, "sure", i, measure[i])
    OBVIOUS
  <1>. HIDE DEF G, q
  <1>6. q \in Seq(Made(eq, type)) /\ LinesUp(q, S, G)
    BY <1>1, <1>3, <1>4, InOrder
  <1>7. \A m \in DOMAIN q : /\ q[m].scope \in S
                            /\ \A n \in DOMAIN q[m].dict : q[m].dict[n].id = q[m].scope
    <2>. SUFFICES ASSUME NEW m \in DOMAIN q
                  PROVE  /\ q[m].scope \in S
                         /\ \A n \in DOMAIN q[m].dict : q[m].dict[n].id = q[m].scope
      OBVIOUS
    <2>1. PICK i \in S : q[m] = G[i]
      BY <1>6 DEF LinesUp
    <2>. QED  BY <1>2, <2>1
  <1>8. q \in Several(eq, type)
    BY <1>1, <1>6, <1>7 DEF Several
  <1>9. \A i \in S : \E m \in DOMAIN q : q[m] = CommandEntity(type, "sure", i, measure[i])
    <2>. SUFFICES ASSUME NEW i \in S
                  PROVE  \E m \in DOMAIN q : q[m] = CommandEntity(type, "sure", i, measure[i])
      OBVIOUS
    <2>1. \E m \in DOMAIN q : q[m] = G[i]
      BY <1>6 DEF LinesUp
    <2>. QED  BY <1>5, <2>1
  <1>. QED  BY <1>6, <1>7, <1>8, <1>9 DEF q, LinesUp

----------------------------------------------------------------------------
\* The mappers of one entity, and those of one for each command.

LEMMA FirstIs ==
  ASSUME NEW eq, Len(eq.cmds) \in Nat, NEW S \in SUBSET Ids(eq), S # {}
  PROVE  Min(S) \in S /\ Min(S) \in Ids(eq)
  BY IdsAreFinite, MinIsIn

LEMMA JustOne ==
  ASSUME NEW eq, NEW i \in Ids(eq)
  PROVE  /\ Just(eq, <<i>>) \in Dictionary(eq)
         /\ \A n \in DOMAIN Just(eq, <<i>>) : Just(eq, <<i>>)[n].id = i
  <1>1. <<i>> \in Seq(Ids(eq)) /\ <<i>> # <<>> /\ DOMAIN <<i>> = {1} /\ <<i>>[1] = i
    BY Singleton
  <1>2. PICK ids \in Seq(Ids(eq)) : ids = <<i>> /\ ids # <<>> /\ DOMAIN ids = {1} /\ ids[1] = i
    BY <1>1
  <1>3. Just(eq, ids) \in Dictionary(eq)
        /\ \A n \in DOMAIN Just(eq, ids) : n \in DOMAIN ids /\ Just(eq, ids)[n].id = ids[n]
    BY <1>2, JustDictionary
  <1>4. \A n \in DOMAIN Just(eq, ids) : Just(eq, ids)[n].id = i
    BY <1>2, <1>3
  <1>. QED  BY <1>2, <1>3, <1>4

\* A sensor, a binary sensor or a button of one command, named after the equipment.
LEMMA OfOneCommand ==
  ASSUME NEW eq, NEW i \in Ids(eq), NEW type \in {"sensor", "binary_sensor", "button"},
         NEW conf \in Confidence, NEW caps \in {{"state"}, {"onOff"}}
  PROVE  /\ Entity(type, conf, Just(eq, <<i>>), caps) \in Made(eq, type)
         /\ Entity(type, conf, Just(eq, <<i>>), caps).scope = 0
         /\ <<Entity(type, conf, Just(eq, <<i>>), caps)>> \in One(eq, type)
  <1>1. type \in ProductScope /\ type # "alarm_control_panel"
    BY DEF ProductScope, ComponentTypes
  <1>2. caps \in SUBSET Capability /\ "brightness" \notin caps /\ "position" \notin caps
    BY DEF Capability
  <1>3. PICK d \in Dictionary(eq) : d = Just(eq, <<i>>)
    BY JustOne
  <1>. QED  BY <1>1, <1>2, <1>3, EntityMade, OneEntity

\* One sensor for the equipment, or one for each command that has one.
LEMMA SensorMade ==
  ASSUME NEW eq, Len(eq.cmds) \in Nat
  PROVE  SensorMapper(eq) \in One(eq, "sensor") \cup Several(eq, "sensor")
  <1>. DEFINE known   == {i \in Numeric(eq) : eq.cmds[i].gt \in SensorTypes}
              untyped == {i \in Numeric(eq) : eq.cmds[i].gt = "" /\ eq.cmds[i].unit # ""}
              multi   == {i \in Numeric(eq) : ~ConsumedBySwitch(eq, i)}
              measure == [i \in Ids(eq) |-> Measure(eq.cmds[i])]
              known1  == [Entity("sensor", "sure", Just(eq, <<Min(known)>>), {"state"})
                            EXCEPT !.measure = Measure(eq.cmds[Min(known)])]
              own1    == CommandEntity("sensor", "sure", Min(untyped), Measure(eq.cmds[Min(untyped)]))
              each    == [n \in DOMAIN Inc(multi) |->
                            CommandEntity("sensor", "sure", Inc(multi)[n],
                                          Measure(eq.cmds[Inc(multi)[n]]))]
  <1>1. \/ SensorMapper(eq) = <<>>
        \/ SensorMapper(eq) = each
        \/ known # {} /\ SensorMapper(eq) = <<known1>>
        \/ untyped # {} /\ SensorMapper(eq) = <<own1>>
    BY DEF SensorMapper, EachOf, FirstOf, Mapped
  <1>2. multi \in SUBSET Ids(eq) /\ known \in SUBSET Ids(eq) /\ untyped \in SUBSET Ids(eq)
    BY DEF Numeric
  <1>3. \A i \in Ids(eq) : measure[i] = Measure(eq.cmds[i]) /\ measure[i] \in Measures(eq)
    BY DEF Measure, Measures
  <1>. HIDE DEF known, untyped, multi, measure
  <1>4. each \in Several(eq, "sensor")
    <2>1. each = CommandEntities(eq, "sensor", multi, measure)
      <3>1. \A n \in DOMAIN Inc(multi) : Inc(multi)[n] \in Ids(eq)
        BY <1>2, IdsAreFinite, IncIsIn
      <3>. QED  BY <1>3, <3>1 DEF CommandEntities
    <2>2. \A i \in multi : measure[i] \in Measures(eq)
      BY <1>2, <1>3
    <2>3. CommandEntities(eq, "sensor", multi, measure) \in Several(eq, "sensor")
      BY <1>2, <2>2, CommandEntitiesMade
    <2>. QED  BY <2>1, <2>3
  <1>5. ASSUME known # {} PROVE <<known1>> \in One(eq, "sensor")
    <2>. DEFINE i == Min(known)
                plain == Entity("sensor", "sure", Just(eq, <<i>>), {"state"})
    <2>1. i \in Ids(eq)
      BY <1>2, <1>5, FirstIs
    <2>2. "sure" \in Confidence
      BY DEF Confidence
    <2>3. plain \in Made(eq, "sensor") /\ plain.scope = 0
      BY <2>1, <2>2, OfOneCommand
    <2>. HIDE DEF plain, i
    <2>4. [plain EXCEPT !.measure = Measure(eq.cmds[i])] \in Made(eq, "sensor")
          /\ [plain EXCEPT !.measure = Measure(eq.cmds[i])].scope = 0
      BY <2>1, <2>3, MeasureMade
    <2>5. known1 = [plain EXCEPT !.measure = Measure(eq.cmds[i])]
      BY DEF plain, i
    <2>6. known1 \in {x \in Made(eq, "sensor") : x.scope = 0}
      <3>. HIDE DEF known1
      <3>. QED  BY <2>4, <2>5
    <2>. HIDE DEF known1
    <2>. QED  BY <2>6, Zenon DEF One
  <1>6. ASSUME untyped # {} PROVE <<own1>> \in Several(eq, "sensor")
    <2>1. PICK i \in Ids(eq) : i = Min(untyped)
      BY <1>2, <1>6, FirstIs
    <2>2. PICK x \in Measures(eq) : x = Measure(eq.cmds[i])
      BY <1>3
    <2>3. own1 \in Made(eq, "sensor") /\ own1.scope = i
      BY <2>1, <2>2, CommandEntityMade
    <2>. HIDE DEF own1
    <2>4. <<own1>> \in Seq(Made(eq, "sensor")) /\ DOMAIN <<own1>> = {1} /\ <<own1>>[1] = own1
      BY <2>3, Singleton
    <2>5. i # 0
      BY DEF Ids
    <2>. DEFINE s == <<own1>>
    <2>. HIDE DEF s
    <2>6. s \in Several(eq, "sensor")
      BY <2>3, <2>4, <2>5 DEF Several, s
    <2>. QED  BY <2>6 DEF s
  <1>7. <<>> \in One(eq, "sensor")
    BY DEF One
  <1>. HIDE DEF each, known1, own1
  <1>. QED  BY <1>1, <1>4, <1>5, <1>6, <1>7

\* One binary sensor for the equipment; or, of an equipment of several domains, one
\* for each binary command but the states its switches show.
LEMMA BinaryMade ==
  ASSUME NEW eq, Len(eq.cmds) \in Nat
  PROVE  /\ BinarySensorMapper(eq) \in One(eq, "binary_sensor") \cup Several(eq, "binary_sensor")
         /\ MultiDomain(eq) =>
              \A m \in DOMAIN BinarySensorMapper(eq) :
                LET e == BinarySensorMapper(eq)[m]
                IN  e.scope \notin SwitchReadback(eq)
                    /\ \A n \in DOMAIN e.dict : e.dict[n].id = e.scope
  <1>. DEFINE binary == {i \in Ids(eq) : BinaryInfo(eq.cmds[i])}
              known  == {i \in binary : eq.cmds[i].gt \in BinaryTypes}
              shown  == binary \ SwitchReadback(eq)
              none   == [i \in Ids(eq) |-> ""]
              first  == Entity("binary_sensor", "sure", Just(eq, <<Min(known)>>), {"state"})
              each   == [n \in DOMAIN Inc(shown) |->
                           CommandEntity("binary_sensor", "sure", Inc(shown)[n], "")]
  <1>1. IF MultiDomain(eq) THEN BinarySensorMapper(eq) = each
        ELSE \/ BinarySensorMapper(eq) = <<>>
             \/ known # {} /\ BinarySensorMapper(eq) = <<first>>
    BY DEF BinarySensorMapper, EachOf, FirstOf, Mapped
  <1>2. shown \in SUBSET Ids(eq) /\ known \in SUBSET Ids(eq) /\ shown \cap SwitchReadback(eq) = {}
    OBVIOUS
  <1>3. \A i \in Ids(eq) : none[i] = "" /\ none[i] \in Measures(eq)
    BY DEF Measures
  <1>. HIDE DEF known, shown, none
  <1>4. /\ each \in Several(eq, "binary_sensor")
        /\ \A m \in DOMAIN each : /\ each[m].scope \in shown
                                  /\ \A n \in DOMAIN each[m].dict :
                                       each[m].dict[n].id = each[m].scope
    <2>1. each = CommandEntities(eq, "binary_sensor", shown, none)
      <3>1. \A n \in DOMAIN Inc(shown) : Inc(shown)[n] \in Ids(eq)
        BY <1>2, IdsAreFinite, IncIsIn
      <3>. QED  BY <1>3, <3>1 DEF CommandEntities
    <2>2. \A i \in shown : none[i] \in Measures(eq)
      BY <1>2, <1>3
    <2>. DEFINE s == CommandEntities(eq, "binary_sensor", shown, none)
    <2>3. /\ s \in Several(eq, "binary_sensor")
          /\ \A m \in DOMAIN s : LET e == s[m]
                                 IN  e.scope \in shown /\ \A n \in DOMAIN e.dict : e.dict[n].id = e.scope
      BY <1>2, <2>2, CommandEntitiesMade
    <2>. HIDE DEF each, s
    <2>. QED  BY <2>1, <2>3 DEF s
  <1>5. ASSUME known # {} PROVE <<first>> \in One(eq, "binary_sensor")
    <2>1. PICK i \in Ids(eq) : i = Min(known)
      BY <1>2, <1>5, FirstIs
    <2>2. "sure" \in Confidence
      BY DEF Confidence
    <2>. QED  BY <2>1, <2>2, OfOneCommand
  <1>6. <<>> \in One(eq, "binary_sensor")
    BY DEF One
  <1>. HIDE DEF each, first
  <1>. QED  BY <1>1, <1>2, <1>4, <1>5, <1>6

LEMMA FirstSeq ==
  ASSUME NEW eq, Len(eq.cmds) \in Nat, NEW S \in SUBSET Ids(eq)
  PROVE  First(S) \in Seq(S) /\ (S # {} => First(S) # <<>>)
  <1>1. CASE S = {}
    BY <1>1, EmptySeq DEF First
  <1>2. CASE S # {}
    <2>1. PICK i \in S : i = Min(S)
      BY <1>2, FirstIs
    <2>2. <<i>> \in Seq(S) /\ <<i>> # <<>>
      BY <2>1, Singleton
    <2>. QED  BY <1>2, <2>1, <2>2 DEF First
  <1>. QED  BY <1>1, <1>2

\* The other mappers answer at most one entity, that of the equipment.
LEMMA ClimateOne ==
  ASSUME NEW eq, Len(eq.cmds) \in Nat
  PROVE  ClimateMapper(eq) \in One(eq, "climate")
  <1>. DEFINE setpoint == {i \in Actions(eq, {"THERMOSTAT_SET_SETPOINT"}) :
                             eq.cmds[i].sub \in {"", "slider"}}
              heat     == Infos(eq, {"THERMOSTAT_TEMPERATURE"})
              ids      == First(setpoint) \o First(heat)
  <1>1. \/ ClimateMapper(eq) = <<>>
        \/ /\ setpoint # {}
           /\ ClimateMapper(eq) = <<Entity("climate", "sure", Just(eq, ids), {"setpoint"})>>
    BY DEF ClimateMapper
  <1>2. setpoint \in SUBSET Ids(eq) /\ heat \in SUBSET Ids(eq)
    BY DEF Actions, Infos, Tagged
  <1>. HIDE DEF setpoint, heat
  <1>3. ASSUME setpoint # {} PROVE ids \in Seq(Ids(eq)) /\ ids # <<>>
    <2>1. First(setpoint) \in Seq(Ids(eq)) /\ First(heat) \in Seq(Ids(eq)) /\ First(setpoint) # <<>>
      BY <1>2, <1>3, FirstSeq, SeqMonotonic
    <2>. QED  BY <2>1, ConcatProperties, ConcatEqualIffEmpty, ConcatSimplifications
  <1>. HIDE DEF ids
  <1>4. ASSUME setpoint # {}
        PROVE  <<Entity("climate", "sure", Just(eq, ids), {"setpoint"})>> \in One(eq, "climate")
    <2>1. PICK d \in Dictionary(eq) : d = Just(eq, ids)
      BY <1>3, <1>4, JustDictionary
    <2>2. "climate" \in ProductScope /\ "sure" \in Confidence /\ {"setpoint"} \in SUBSET Capability
      BY DEF ProductScope, ComponentTypes, Confidence, Capability
    <2>. QED  BY <2>1, <2>2, OneEntity
  <1>5. <<>> \in One(eq, "climate")
    BY DEF One
  <1>. QED  BY <1>1, <1>4, <1>5

LEMMA AlarmOne ==
  ASSUME NEW eq, Len(eq.cmds) \in Nat
  PROVE  AlarmMapper(eq) \in One(eq, "alarm_control_panel")
  <1>. DEFINE state  == {i \in Infos(eq, {"ALARM_STATE", "ALARM_ENABLE_STATE"}) :
                           eq.cmds[i].sub = "binary"}
              arm    == Actions(eq, {"ALARM_ENABLE", "ALARM_ARMED"})
              disarm == Actions(eq, {"ALARM_DISABLE", "ALARM_RELEASED"})
              ids    == First(state) \o First(arm) \o First(disarm)
              caps   == {"state"} \cup (IF arm \cup disarm = {} THEN {} ELSE {"command"})
              S      == {i \in Ids(eq) : eq.cmds[i].gt \notin ReadKeys}
  <1>1. \/ AlarmMapper(eq) = <<>>
        \/ /\ state # {}
           /\ AlarmMapper(eq) = <<Entity("alarm_control_panel", "sure", Just(eq, ids), caps)>>
    BY DEF AlarmMapper
  <1>2. state \in SUBSET S /\ arm \in SUBSET S /\ disarm \in SUBSET S
    BY DEF Actions, Infos, Tagged, ReadKeys
  <1>3. caps \in SUBSET Capability /\ "brightness" \notin caps /\ "position" \notin caps
    BY DEF Capability
  <1>4. S \in SUBSET Ids(eq) /\ \A i \in S : eq.cmds[i].gt \notin ReadKeys
    OBVIOUS
  <1>. HIDE DEF state, arm, disarm, caps, S
  <1>5. ASSUME state # {} PROVE ids \in Seq(S) /\ ids # <<>>
    <2>1. /\ First(state) \in Seq(S) /\ First(arm) \in Seq(S) /\ First(disarm) \in Seq(S)
          /\ First(state) # <<>>
      <3>1. state \in SUBSET Ids(eq) /\ arm \in SUBSET Ids(eq) /\ disarm \in SUBSET Ids(eq)
        BY <1>2, <1>4
      <3>. QED  BY <1>2, <1>5, <3>1, FirstSeq, SeqMonotonic
    <2>2. First(state) \o First(arm) \in Seq(S) /\ First(state) \o First(arm) # <<>>
      BY <2>1, ConcatProperties, ConcatEqualIffEmpty, ConcatSimplifications
    <2>. QED  BY <2>1, <2>2, ConcatProperties, ConcatEqualIffEmpty, ConcatSimplifications
  <1>. HIDE DEF ids
  <1>6. ASSUME state # {}
        PROVE  <<Entity("alarm_control_panel", "sure", Just(eq, ids), caps)>>
                 \in One(eq, "alarm_control_panel")
    <2>1. ids \in Seq(Ids(eq)) /\ ids # <<>> /\ \A n \in DOMAIN ids : ids[n] \in S
      BY <1>4, <1>5, <1>6, SeqMonotonic, LenProperties, ElementOfSeq
    <2>2. PICK d \in Dictionary(eq) :
            /\ d = Just(eq, ids)
            /\ \A n \in DOMAIN d : n \in DOMAIN ids /\ d[n].key = eq.cmds[ids[n]].gt
      BY <2>1, JustDictionary
    <2>3. Keys(d) \cap ReadKeys = {}
      BY <1>4, <2>1, <2>2 DEF Keys
    <2>4. "alarm_control_panel" \in ProductScope /\ "sure" \in Confidence
      BY DEF ProductScope, ComponentTypes, Confidence
    <2>. QED  BY <1>3, <2>2, <2>3, <2>4, OneEntity
  <1>7. <<>> \in One(eq, "alarm_control_panel")
    BY DEF One
  <1>. QED  BY <1>1, <1>6, <1>7

LEMMA PresenceOne ==
  ASSUME NEW eq, Len(eq.cmds) \in Nat
  PROVE  PresenceSwitchMapper(eq) \in One(eq, "switch")
  <1>. DEFINE read == {i \in Infos(eq, {"PRESENCE"}) : eq.cmds[i].sub = "binary"}
              on   == Actions(eq, {"SET_ON"})
              off  == Actions(eq, {"SET_OFF"})
              ids  == <<Max(read), Max(on), Max(off)>>
  <1>1. \/ PresenceSwitchMapper(eq) = <<>>
        \/ /\ read # {} /\ on # {} /\ off # {}
           /\ PresenceSwitchMapper(eq) = <<Entity("switch", "sure", Just(eq, ids), {"onOff", "state"})>>
    BY DEF PresenceSwitchMapper
  <1>2. read \in SUBSET (1 .. Len(eq.cmds)) /\ on \in SUBSET (1 .. Len(eq.cmds))
        /\ off \in SUBSET (1 .. Len(eq.cmds))
    BY DEF Actions, Infos, Tagged, Ids
  <1>. HIDE DEF read, on, off
  <1>3. ASSUME read # {}, on # {}, off # {} PROVE ids \in Seq(Ids(eq)) /\ ids # <<>>
    <2>1. Max(read) \in Ids(eq) /\ Max(on) \in Ids(eq) /\ Max(off) \in Ids(eq)
      BY <1>2, <1>3, MaxIsIn DEF Ids
    <2>. QED  BY <2>1
  <1>. HIDE DEF ids
  <1>4. ASSUME read # {}, on # {}, off # {}
        PROVE  <<Entity("switch", "sure", Just(eq, ids), {"onOff", "state"})>> \in One(eq, "switch")
    <2>1. PICK d \in Dictionary(eq) : d = Just(eq, ids)
      BY <1>3, <1>4, JustDictionary
    <2>2. "switch" \in ProductScope /\ "sure" \in Confidence /\ {"onOff", "state"} \in SUBSET Capability
      BY DEF ProductScope, ComponentTypes, Confidence, Capability
    <2>. QED  BY <2>1, <2>2, OneEntity
  <1>5. <<>> \in One(eq, "switch")
    BY DEF One
  <1>. QED  BY <1>1, <1>4, <1>5

LEMMA ButtonOne ==
  ASSUME NEW eq, Len(eq.cmds) \in Nat
  PROVE  ButtonMapper(eq) \in One(eq, "button")
  <1>. DEFINE S == {i \in Ids(eq) : /\ ~eq.cmds[i].info /\ eq.cmds[i].gt # ""
                                    /\ eq.cmds[i].sub = "other"}
  <1>1. \/ ButtonMapper(eq) = <<>>
        \/ S # {} /\ ButtonMapper(eq) = <<Entity("button", "sure", Just(eq, <<Min(S)>>), {"onOff"})>>
    BY DEF ButtonMapper, FirstOf, Button
  <1>2. S \in SUBSET Ids(eq)
    OBVIOUS
  <1>. HIDE DEF S
  <1>3. ASSUME S # {}
        PROVE  <<Entity("button", "sure", Just(eq, <<Min(S)>>), {"onOff"})>> \in One(eq, "button")
    <2>1. PICK i \in Ids(eq) : i = Min(S)
      BY <1>2, <1>3, FirstIs
    <2>2. "sure" \in Confidence
      BY DEF Confidence
    <2>. QED  BY <2>1, <2>2, OfOneCommand
  <1>4. <<>> \in One(eq, "button")
    BY DEF One
  <1>. QED  BY <1>1, <1>3, <1>4

LEMMA FallbackOne ==
  ASSUME NEW eq, Len(eq.cmds) \in Nat
  PROVE  FallbackMapper(eq) \in One(eq, "sensor") \cup One(eq, "button")
  <1>. DEFINE infos == {i \in Ids(eq) : eq.cmds[i].info}
              Fall(S, type, caps) == <<Entity(type, "ambiguous", Just(eq, <<Min(S)>>), caps)>>
  <1>1. \/ FallbackMapper(eq) = <<>>
        \/ infos # {} /\ FallbackMapper(eq) = Fall(infos, "sensor", {"state"})
        \/ Ids(eq) # {} /\ FallbackMapper(eq) = Fall(Ids(eq), "button", {"onOff"})
    BY DEF FallbackMapper, FirstOf, Button
  <1>2. infos \in SUBSET Ids(eq)
    OBVIOUS
  <1>. HIDE DEF infos
  <1>3. "ambiguous" \in Confidence
    BY DEF Confidence
  <1>4. ASSUME infos # {} PROVE Fall(infos, "sensor", {"state"}) \in One(eq, "sensor")
    <2>1. PICK i \in Ids(eq) : i = Min(infos)
      BY <1>2, <1>4, FirstIs
    <2>. QED  BY <1>3, <2>1, OfOneCommand
  <1>5. ASSUME Ids(eq) # {} PROVE Fall(Ids(eq), "button", {"onOff"}) \in One(eq, "button")
    <2>1. PICK i \in Ids(eq) : i = Min(Ids(eq))
      BY <1>5, FirstIs
    <2>. QED  BY <1>3, <2>1, OfOneCommand
  <1>6. <<>> \in One(eq, "sensor")
    BY DEF One
  <1>. HIDE DEF Fall
  <1>. QED  BY <1>1, <1>4, <1>5, <1>6

\* The elements that pass a test: OfThose(s, S) is those at the positions of S.
OfThose(s, S) == [n \in DOMAIN Inc(S) |-> s[Inc(S)[n]]]

\* Selecting keeps the elements at the positions, and the first of them first.
LEMMA Selected ==
  ASSUME NEW T, NEW s \in Seq(T), NEW S \in SUBSET (DOMAIN s)
  PROVE  /\ OfThose(s, S) \in Seq(T)
         /\ OfThose(s, S) = <<>> <=> S = {}
         /\ \A n \in DOMAIN OfThose(s, S) : \E i \in S : OfThose(s, S)[n] = s[i]
         /\ \A i \in S : \E n \in DOMAIN OfThose(s, S) : OfThose(s, S)[n] = s[i]
         /\ \A n, m \in DOMAIN OfThose(s, S) : n # m => \E i, j \in S : i # j
         /\ S # {} => Min(S) \in S /\ Head(OfThose(s, S)) = s[Min(S)]
  <1>. DEFINE G == [i \in S |-> s[i]]
              q == OfThose(s, S)
  <1>1. S \in SUBSET Nat /\ IsFiniteSet(S)
    <2>1. Len(s) \in Nat /\ DOMAIN s = 1 .. Len(s)
      BY LenProperties
    <2>2. IsFiniteSet(1 .. Len(s))
      BY <2>1, FS_Interval
    <2>3. IsFiniteSet(S)
      BY <2>1, <2>2, FS_Subset
    <2>. QED  BY <2>1, <2>3
  <1>2. G \in [S -> T] /\ \A i \in S : G[i] = s[i]
    <2>1. \A i \in S : s[i] \in T
      BY LenProperties, ElementOfSeq
    <2>. QED  BY <2>1
  <1>3. q = Row(S, G)
    <2>1. \A n \in DOMAIN Inc(S) : Inc(S)[n] \in S
      BY <1>1, IncIsIn
    <2>. QED  BY <2>1 DEF OfThose, Row
  <1>. HIDE DEF G, q
  <1>4. q \in Seq(T) /\ LinesUp(q, S, G)
    BY <1>1, <1>2, <1>3, InOrder
  <1>5. \A n \in DOMAIN q : \E i \in S : q[n] = s[i]
    BY <1>2, <1>4 DEF LinesUp
  <1>6. \A i \in S : \E n \in DOMAIN q : q[n] = s[i]
    BY <1>2, <1>4 DEF LinesUp
  <1>7. S # {} => Min(S) \in S /\ Head(q) = s[Min(S)]
    BY <1>1, <1>2, <1>4, MinIsIn DEF LinesUp
  <1>8. \A n, m \in DOMAIN q : n # m => \E i, j \in S : i # j
    <2>. SUFFICES ASSUME NEW n \in DOMAIN q, NEW m \in DOMAIN q, n # m
                  PROVE  \E i, j \in S : i # j
      OBVIOUS
    <2>1. \E i, j \in S : i # j /\ q[n] = G[i] /\ q[m] = G[j]
      BY <1>4 DEF LinesUp
    <2>. QED  BY <2>1
  <1>. QED  BY <1>4, <1>5, <1>6, <1>7, <1>8 DEF q, LinesUp

----------------------------------------------------------------------------
\* The registry.

\* What the registry promises of the entities of an equipment: the commands of each
\* are its own; only the principal one takes orders under the name of the equipment;
\* two switches of commands have different ones; and no binary sensor of an equipment
\* of several domains shows the state of one of its switches.
AnyMade(eq) == UNION {Made(eq, t) : t \in ProductScope}
WellMade(eq, s) ==
  /\ s \in Seq(AnyMade(eq))
  /\ \A n \in DOMAIN s : s[n].native \in {"switch", "light", "cover"} /\ s[n].scope = 0 => n = 1
  /\ \A n, m \in DOMAIN s :
       n # m /\ s[n].native = "switch" /\ s[m].native = "switch" => s[n].scope # s[m].scope
  /\ MultiDomain(eq) =>
       \A n \in DOMAIN s :
         /\ s[n].native = "switch" /\ s[n].scope # 0 => s[n].scope \in SwitchReadback(eq)
         /\ s[n].native = "binary_sensor" =>
              /\ s[n].scope \notin SwitchReadback(eq)
              /\ \A k \in DOMAIN s[n].dict : s[n].dict[k].id = s[n].scope

LEMMA MadeSeq ==
  ASSUME NEW eq, NEW t \in ProductScope, NEW s \in Seq(Made(eq, t))
  PROVE  s \in Seq(AnyMade(eq)) /\ \A n \in DOMAIN s : s[n].native = t
  <1>1. Made(eq, t) \subseteq AnyMade(eq) /\ \A e \in Made(eq, t) : e.native = t
    BY DEF AnyMade, Made
  <1>. QED  BY <1>1, SeqMonotonic, LenProperties, ElementOfSeq

LEMMA OneIsAlone ==
  ASSUME NEW eq, NEW t, NEW s \in One(eq, t)
  PROVE  /\ s \in Seq(Made(eq, t)) /\ DOMAIN s \subseteq {1}
         /\ \A n \in DOMAIN s : s[n].scope = 0
  <1>1. CASE s = <<>>
    BY <1>1
  <1>2. CASE s # <<>>
    <2>1. PICK e \in Made(eq, t) : s = <<e>> /\ e.scope = 0
      BY <1>2 DEF One
    <2>. QED  BY <2>1, Singleton
  <1>. QED  BY <1>1, <1>2

\* An answer of at most one entity, which is not a binary sensor.
LEMMA AloneWellMade ==
  ASSUME NEW eq, NEW t \in ProductScope \ {"binary_sensor"}, NEW s \in Seq(Made(eq, t)),
         DOMAIN s \subseteq {1}, \A n \in DOMAIN s : s[n].scope = 0
  PROVE  WellMade(eq, s)
  <1>1. s \in Seq(AnyMade(eq)) /\ \A n \in DOMAIN s : s[n].native = t
    BY MadeSeq
  <1>. QED  BY <1>1 DEF WellMade

LEMMA OneWellMade ==
  ASSUME NEW eq, NEW t \in ProductScope \ {"binary_sensor"}, NEW s \in One(eq, t)
  PROVE  WellMade(eq, s)
  <1>1. s \in Seq(Made(eq, t)) /\ DOMAIN s \subseteq {1} /\ \A n \in DOMAIN s : s[n].scope = 0
    BY OneIsAlone
  <1>. QED  BY <1>1, AloneWellMade

\* What each of the mappers with several entities answers is well made.
LEMMA SwitchWellMade ==
  ASSUME NEW eq, Len(eq.cmds) \in Nat
  PROVE  WellMade(eq, SwitchMapper(eq))
  <1>. DEFINE s == SwitchMapper(eq)
  <1>0. "switch" \in ProductScope \ {"binary_sensor"}
    BY DEF ProductScope, ComponentTypes
  <1>1. CASE s \in One(eq, "switch")
    BY <1>0, <1>1, OneWellMade
  <1>2. CASE s \notin One(eq, "switch")
    <2>1. /\ s \in Several(eq, "switch")
          /\ \A n, m \in DOMAIN s : n # m => s[n].scope # s[m].scope
          /\ \A n \in DOMAIN s : s[n].scope \in SwitchReadback(eq)
      BY <1>2, SwitchMade
    <2>. HIDE DEF s
    <2>2. s \in Seq(Made(eq, "switch")) /\ \A n \in DOMAIN s : s[n].scope # 0
      BY <2>1 DEF Several
    <2>3. s \in Seq(AnyMade(eq)) /\ \A n \in DOMAIN s : s[n].native = "switch"
      BY <1>0, <2>2, MadeSeq
    <2>4. WellMade(eq, s)
      BY <2>1, <2>2, <2>3 DEF WellMade
    <2>. QED  BY <2>4 DEF s
  <1>. QED  BY <1>1, <1>2

LEMMA SensorWellMade ==
  ASSUME NEW eq, Len(eq.cmds) \in Nat
  PROVE  /\ WellMade(eq, SensorMapper(eq))
         /\ \A n \in DOMAIN SensorMapper(eq) : SensorMapper(eq)[n].native = "sensor"
  <1>. DEFINE s == SensorMapper(eq)
  <1>0. "sensor" \in ProductScope
    BY DEF ProductScope, ComponentTypes
  <1>1. s \in Seq(Made(eq, "sensor"))
    BY SensorMade, OneIsAlone DEF Several
  <1>. HIDE DEF s
  <1>2. s \in Seq(AnyMade(eq)) /\ \A n \in DOMAIN s : s[n].native = "sensor"
    BY <1>0, <1>1, MadeSeq
  <1>3. WellMade(eq, s)
    BY <1>2 DEF WellMade
  <1>. QED  BY <1>2, <1>3 DEF s

LEMMA BinaryWellMade ==
  ASSUME NEW eq, Len(eq.cmds) \in Nat
  PROVE  /\ WellMade(eq, BinarySensorMapper(eq))
         /\ \A n \in DOMAIN BinarySensorMapper(eq) : BinarySensorMapper(eq)[n].native = "binary_sensor"
  <1>. DEFINE s == BinarySensorMapper(eq)
  <1>0. "binary_sensor" \in ProductScope
    BY DEF ProductScope, ComponentTypes
  <1>1. s \in Seq(Made(eq, "binary_sensor"))
        /\ (MultiDomain(eq) =>
              \A m \in DOMAIN s : /\ s[m].scope \notin SwitchReadback(eq)
                                  /\ \A n \in DOMAIN s[m].dict : s[m].dict[n].id = s[m].scope)
    BY BinaryMade, OneIsAlone DEF Several
  <1>. HIDE DEF s
  <1>2. s \in Seq(AnyMade(eq)) /\ \A n \in DOMAIN s : s[n].native = "binary_sensor"
    BY <1>0, <1>1, MadeSeq
  <1>3. WellMade(eq, s)
    BY <1>1, <1>2 DEF WellMade
  <1>. QED  BY <1>2, <1>3 DEF s

\* Putting the sensors after what takes orders keeps the promise.
LEMMA ConcatWellMade ==
  ASSUME NEW eq, NEW p, NEW r, WellMade(eq, p), WellMade(eq, r),
         \A n \in DOMAIN r : r[n].native \notin {"switch", "light", "cover"}
  PROVE  WellMade(eq, p \o r)
  <1>. DEFINE q == p \o r
  <1>1. p \in Seq(AnyMade(eq)) /\ r \in Seq(AnyMade(eq))
    BY DEF WellMade
  <1>2. q \in Seq(AnyMade(eq)) /\ Len(q) = Len(p) + Len(r)
        /\ \A i \in 1 .. Len(p) + Len(r) : q[i] = IF i <= Len(p) THEN p[i] ELSE r[i - Len(p)]
    BY <1>1, ConcatProperties
  <1>3. Len(p) \in Nat /\ Len(r) \in Nat /\ DOMAIN p = 1 .. Len(p) /\ DOMAIN r = 1 .. Len(r)
        /\ DOMAIN q = 1 .. Len(p) + Len(r)
    BY <1>1, <1>2, LenProperties
  <1>. HIDE DEF q
  <1>4. ASSUME NEW n \in DOMAIN q
        PROVE  (n \in DOMAIN p /\ q[n] = p[n]) \/ \E k \in DOMAIN r : q[n] = r[k]
    <2>1. CASE n <= Len(p)
      BY <1>2, <1>3, <2>1
    <2>2. CASE ~(n <= Len(p))
      <3>1. n - Len(p) \in DOMAIN r /\ q[n] = r[n - Len(p)]
        BY <1>2, <1>3, <2>2
      <3>. QED  BY <3>1
    <2>. QED  BY <2>1, <2>2
  <1>5. \A n \in DOMAIN q : q[n].native \in {"switch", "light", "cover"} => n \in DOMAIN p /\ q[n] = p[n]
    BY <1>4
  <1>6. \A n \in DOMAIN q : q[n].native \in {"switch", "light", "cover"} /\ q[n].scope = 0 => n = 1
    BY <1>5 DEF WellMade
  <1>7. \A n, m \in DOMAIN q :
          n # m /\ q[n].native = "switch" /\ q[m].native = "switch" => q[n].scope # q[m].scope
    BY <1>5 DEF WellMade
  <1>8. ASSUME MultiDomain(eq), NEW n \in DOMAIN q
        PROVE  /\ q[n].native = "switch" /\ q[n].scope # 0 => q[n].scope \in SwitchReadback(eq)
               /\ q[n].native = "binary_sensor" =>
                    /\ q[n].scope \notin SwitchReadback(eq)
                    /\ \A k \in DOMAIN q[n].dict : q[n].dict[k].id = q[n].scope
    <2>1. CASE n \in DOMAIN p /\ q[n] = p[n]
      BY <1>8, <2>1 DEF WellMade
    <2>2. CASE \E k \in DOMAIN r : q[n] = r[k]
      BY <1>8, <2>2 DEF WellMade
    <2>. QED  BY <1>4, <2>1, <2>2
  <1>9. WellMade(eq, q)
    BY <1>2, <1>6, <1>7, <1>8 DEF WellMade
  <1>. QED  BY <1>9 DEF q

\* So is what comes first in an equipment of several domains: the switches, or the
\* light when no switch answers.
LEMMA PrimaryWellMade ==
  ASSUME NEW eq, Len(eq.cmds) \in Nat
  PROVE  WellMade(eq, Primary(eq, SwitchMapper(eq), SensorMapper(eq)))
  <1>. DEFINE light == LightMapper(eq)
              S == {n \in DOMAIN light : light[n].conf \in {"sure", "probable"}}
              q == OfThose(light, S)
              p == Primary(eq, SwitchMapper(eq), SensorMapper(eq))
  <1>1. p \in {<<>>, q, SwitchMapper(eq)}
    BY DEF Primary, Where, Mapped, OfThose
  <1>2. "light" \in ProductScope \ {"binary_sensor"}
    BY DEF ProductScope, ComponentTypes
  <1>3. light \in Seq(Made(eq, "light")) /\ DOMAIN light \subseteq {1}
        /\ \A n \in DOMAIN light : light[n].scope = 0
    BY LightOne, OneIsAlone
  <1>4. S \in SUBSET DOMAIN light
    OBVIOUS
  <1>. HIDE DEF S, light, p
  <1>5. /\ q \in Seq(Made(eq, "light"))
        /\ \A n \in DOMAIN q : \E i \in S : q[n] = light[i]
        /\ \A n, m \in DOMAIN q : n # m => \E i, j \in S : i # j
    BY <1>3, <1>4, Selected
  <1>. HIDE DEF q
  <1>6. DOMAIN q \subseteq {1} /\ \A n \in DOMAIN q : q[n].scope = 0
    <2>1. \A n, m \in DOMAIN q : n = m
      BY <1>3, <1>4, <1>5
    <2>2. DOMAIN q = 1 .. Len(q) /\ Len(q) \in Nat
      BY <1>5, LenProperties
    <2>3. ASSUME NEW n \in DOMAIN q PROVE n = 1
      <3>1. 1 \in DOMAIN q
        BY <2>2
      <3>. QED  BY <2>1, <3>1
    <2>. QED  BY <1>3, <1>4, <1>5, <2>3
  <1>7. WellMade(eq, q)
    BY <1>2, <1>5, <1>6, AloneWellMade
  <1>8. WellMade(eq, <<>>)
    <2>1. <<>> \in One(eq, "light")
      BY DEF One
    <2>. QED  BY <1>2, <2>1, OneWellMade
  <1>9. WellMade(eq, p)
    BY <1>1, <1>7, <1>8, SwitchWellMade
  <1>. QED  BY <1>9 DEF p

\* So are the entities of an equipment of several domains, put together.
LEMMA StructuralWellMade ==
  ASSUME NEW eq, Len(eq.cmds) \in Nat
  PROVE  WellMade(eq, StructuralEntities(eq))
  <1>. DEFINE p == Primary(eq, SwitchMapper(eq), SensorMapper(eq))
              s == SensorMapper(eq)
              b == BinarySensorMapper(eq)
  <1>1. StructuralEntities(eq) \in {<<>>, p \o s \o b}
    BY DEF StructuralEntities, Together
  <1>2. WellMade(eq, p) /\ WellMade(eq, s) /\ WellMade(eq, b)
        /\ (\A n \in DOMAIN s : s[n].native = "sensor")
        /\ (\A n \in DOMAIN b : b[n].native = "binary_sensor")
    BY PrimaryWellMade, SensorWellMade, BinaryWellMade
  <1>. HIDE DEF p, s, b
  <1>3. WellMade(eq, p \o s)
    BY <1>2, ConcatWellMade
  <1>4. WellMade(eq, p \o s \o b)
    BY <1>2, <1>3, ConcatWellMade
  <1>5. WellMade(eq, <<>>)
    <2>1. <<>> \in One(eq, "light") /\ "light" \in ProductScope \ {"binary_sensor"}
      BY DEF One, ProductScope, ComponentTypes
    <2>. QED  BY <2>1, OneWellMade
  <1>. QED  BY <1>1, <1>4, <1>5

\* The answers the registry chooses from, each well made.
Answers(eq) ==
  <<LightMapper(eq), CoverMapper(eq), SwitchMapper(eq), ClimateMapper(eq),
    AlarmMapper(eq), PresenceSwitchMapper(eq), BinarySensorMapper(eq),
    SensorMapper(eq), ButtonMapper(eq), FallbackMapper(eq)>>
Answer(eq) ==
  {LightMapper(eq), CoverMapper(eq), SwitchMapper(eq), ClimateMapper(eq),
   AlarmMapper(eq), PresenceSwitchMapper(eq), BinarySensorMapper(eq),
   SensorMapper(eq), ButtonMapper(eq), FallbackMapper(eq)}

LEMMA AnswersWellMade ==
  ASSUME NEW eq, Len(eq.cmds) \in Nat
  PROVE  Answers(eq) \in Seq(Answer(eq)) /\ \A s \in Answer(eq) : WellMade(eq, s)
  <1>1. Answers(eq) \in Seq(Answer(eq))
    <2>1. \A a, b, c, d, e, f, g, h, i, j :
            <<a, b, c, d, e, f, g, h, i, j>> \in Seq({a, b, c, d, e, f, g, h, i, j})
      OBVIOUS
    <2>. QED  BY <2>1 DEF Answers, Answer
  <1>2. {"light", "cover", "switch", "climate", "alarm_control_panel", "sensor", "button"}
          \subseteq ProductScope \ {"binary_sensor"}
    BY DEF ProductScope, ComponentTypes
  <1>3. WellMade(eq, LightMapper(eq)) /\ WellMade(eq, CoverMapper(eq))
    BY <1>2, LightOne, CoverOne, OneWellMade
  <1>4. WellMade(eq, ClimateMapper(eq)) /\ WellMade(eq, AlarmMapper(eq))
    BY <1>2, ClimateOne, AlarmOne, OneWellMade
  <1>5. WellMade(eq, PresenceSwitchMapper(eq)) /\ WellMade(eq, ButtonMapper(eq))
    BY <1>2, PresenceOne, ButtonOne, OneWellMade
  <1>6. WellMade(eq, FallbackMapper(eq))
    BY <1>2, FallbackOne, OneWellMade
  <1>7. WellMade(eq, SwitchMapper(eq)) /\ WellMade(eq, SensorMapper(eq))
        /\ WellMade(eq, BinarySensorMapper(eq))
    BY SwitchWellMade, SensorWellMade, BinaryWellMade
  <1>. QED  BY <1>1, <1>3, <1>4, <1>5, <1>6, <1>7 DEF Answer

\* The first answer that is not empty.
LEMMA FirstAnswerIs ==
  ASSUME NEW T, NEW answers \in Seq(T)
  PROVE  LET given == {n \in DOMAIN answers : answers[n] # <<>>}
         IN  IF given = {} THEN FirstAnswer(answers) = <<>>
             ELSE Min(given) \in given /\ FirstAnswer(answers) = answers[Min(given)]
  <1>. DEFINE given == {n \in DOMAIN answers : answers[n] # <<>>}
              q == OfThose(answers, given)
  <1>1. FirstAnswer(answers) = IF q = <<>> THEN <<>> ELSE Head(q)
    BY DEF FirstAnswer, Where, Mapped, OfThose
  <1>2. given \in SUBSET DOMAIN answers
    OBVIOUS
  <1>. HIDE DEF given
  <1>3. (q = <<>> <=> given = {})
        /\ (given # {} => Min(given) \in given /\ Head(q) = answers[Min(given)])
    BY <1>2, Selected
  <1>. HIDE DEF q
  <1>4. IF given = {} THEN FirstAnswer(answers) = <<>>
        ELSE Min(given) \in given /\ FirstAnswer(answers) = answers[Min(given)]
    BY <1>1, <1>3
  <1>. QED  BY <1>4 DEF given

\* The registry answers the entities of several domains when there are at least two, or
\* the first of the mappers that answers.
LEMMA MapAllIs ==
  ASSUME NEW eq
  PROVE  MapAll(eq) \in {StructuralEntities(eq), FirstAnswer(Answers(eq))}
         /\ (StructuralEntities(eq) = <<>> => MapAll(eq) = FirstAnswer(Answers(eq)))
  <1>1. MapAll(eq) = IF Len(StructuralEntities(eq)) > 1 THEN StructuralEntities(eq)
                     ELSE FirstAnswer(Answers(eq))
    BY DEF MapAll, Richest, Answers
  <1>2. Len(<<>>) = 0
    BY EmptySeq
  <1>. QED  BY <1>1, <1>2

\* What the registry answers is well made, whatever the equipment: whichever mapper
\* answers, and when several domains are put together (registry.py:80-180).
THEOREM RegistryWellMade ==
  ASSUME NEW eq, Len(eq.cmds) \in Nat
  PROVE  WellMade(eq, MapAll(eq))
  <1>. DEFINE given == {n \in DOMAIN Answers(eq) : Answers(eq)[n] # <<>>}
  <1>1. Answers(eq) \in Seq(Answer(eq)) /\ \A s \in Answer(eq) : WellMade(eq, s)
    BY AnswersWellMade
  <1>2. IF given = {} THEN FirstAnswer(Answers(eq)) = <<>>
        ELSE Min(given) \in given /\ FirstAnswer(Answers(eq)) = Answers(eq)[Min(given)]
    BY <1>1, FirstAnswerIs
  <1>3. given \subseteq DOMAIN Answers(eq)
    OBVIOUS
  <1>. HIDE DEF given
  <1>4. FirstAnswer(Answers(eq)) = <<>> \/ FirstAnswer(Answers(eq)) \in Answer(eq)
    BY <1>1, <1>2, <1>3, ElementOfSeq, LenProperties
  <1>5. WellMade(eq, <<>>)
    <2>1. <<>> \in One(eq, "light") /\ "light" \in ProductScope \ {"binary_sensor"}
      BY DEF One, ProductScope, ComponentTypes
    <2>. QED  BY <2>1, OneWellMade
  <1>. QED  BY <1>1, <1>4, <1>5, MapAllIs, StructuralWellMade

----------------------------------------------------------------------------
\* Equipments without tags: the sensors answer alone.

\* An equipment no command of which has a generic type.
Untagged(q) == \A i \in Ids(q) : q.cmds[i].gt = ""

\* Without a tag no mapper that looks for tags has an answer.
LEMMA NoTag ==
  ASSUME NEW q, Untagged(q), NEW T, "" \notin T
  PROVE  Tagged(q, T) = {} /\ ~Bears(q, T) /\ Infos(q, T) = {} /\ Actions(q, T) = {}
  BY DEF Untagged, Tagged, Bears, Infos, Actions

LEMMA NoLight == ASSUME NEW q, Len(q.cmds) \in Nat, Untagged(q) PROVE LightMapper(q) = <<>>
  <1>. DEFINE col == Collect(q, LightTypes, LightPreference)
  <1>1. Tagged(q, LightTypes) = {}
    BY NoTag DEF LightTypes
  <1>2. col.dict = <<>> /\ col.clash = FALSE
    BY <1>1, CollectDictionary
  <1>3. Keys(col.dict) = {}
    <2>1. DOMAIN <<>> = {}
      BY SMT
    <2>. QED  BY <1>2, <2>1 DEF Keys
  <1>. HIDE DEF col
  <1>4. LightOf(q, col) = <<>>
    BY <1>2, <1>3 DEF LightOf
  <1>. QED  BY <1>4 DEF LightMapper, col

LEMMA NoCover == ASSUME NEW q, Len(q.cmds) \in Nat, Untagged(q) PROVE CoverMapper(q) = <<>>
  <1>. DEFINE col == Collect(q, FlapTypes, CoverPreference)
  <1>1. Tagged(q, FlapTypes) = {}
    BY NoTag DEF FlapTypes, ShutterTypes, BsoTypes
  <1>2. col.dict = <<>> /\ col.clash = FALSE
    BY <1>1, CollectDictionary
  <1>3. Keys(col.dict) = {}
    <2>1. DOMAIN <<>> = {}
      BY SMT
    <2>. QED  BY <1>2, <2>1 DEF Keys
  <1>. HIDE DEF col
  <1>4. Barrier(q) = <<>>
    <2>1. Infos(q, {"BARRIER_STATE", "GARAGE_STATE"}) = {}
      BY NoTag
    <2>2. Cardinality(Infos(q, {"BARRIER_STATE", "GARAGE_STATE"})) = 0
      BY <2>1, FS_EmptySet
    <2>3. Cardinality(Infos(q, {"BARRIER_STATE", "GARAGE_STATE"})) # 1
      BY <2>2
    <2>. QED  BY <2>3, Zenon DEF Barrier
  <1>5. CoverOf(q, col) = <<>>
    BY <1>2, <1>3, <1>4 DEF CoverOf
  <1>. QED  BY <1>5 DEF CoverMapper, col

LEMMA NoSwitch == ASSUME NEW q, Len(q.cmds) \in Nat, Untagged(q) PROVE SwitchMapper(q) = <<>>
  <1>1. \A f \in Families : "" \notin Range(Trio(f))
    <2>1. Trio("FAN") = <<"FAN_STATE", "FAN_ON", "FAN_OFF">>
          /\ Trio("SWITCH") = <<"SWITCH_STATE", "SWITCH_ON", "SWITCH_OFF">>
      BY DEF Trio
    <2>2. \A f \in Families : Range(Trio(f)) = {Trio(f)[n] : n \in 1 .. 3}
      BY TrioKeys
    <2>3. Range(Trio("FAN")) = {"FAN_STATE", "FAN_ON", "FAN_OFF"}
          /\ Range(Trio("SWITCH")) = {"SWITCH_STATE", "SWITCH_ON", "SWITCH_OFF"}
      BY <2>1, <2>2 DEF Families
    <2>4. "" \notin Range(Trio("FAN")) /\ "" \notin Range(Trio("SWITCH"))
      BY <2>3
    <2>. QED  BY <2>4 DEF Families
  <1>2. \A f \in Families : Of(q, f) = {}
    BY <1>1, NoTag DEF Of
  <1>3. SwitchGroups(q) = <<>>
    BY <1>2, SwitchGroupsTypes
  <1>. DEFINE d == LastWins(q, Tagged(q, EnergyTypes))
  <1>4. Tagged(q, EnergyTypes) = {}
    BY NoTag DEF EnergyTypes
  <1>5. d = <<>>
    <2>1. {} \in SUBSET Ids(q)
      OBVIOUS
    <2>2. LastWins(q, {}) = <<>>
      BY <2>1, LastWinsDictionary
    <2>. QED  BY <1>4, <2>2
  <1>6. Keys(d) = {}
    <2>1. DOMAIN <<>> = {}
      BY SMT
    <2>. QED  BY <1>5, <2>1 DEF Keys
  <1>. HIDE DEF d
  <1>7. EnergySwitchOf(q, d) = <<>>
    BY <1>6 DEF EnergySwitchOf
  <1>. QED  BY <1>3, <1>7 DEF SwitchMapper, SwitchesOf, EnergySwitch, d

LEMMA NoOther ==
  ASSUME NEW q, Untagged(q)
  PROVE  /\ ClimateMapper(q) = <<>> /\ AlarmMapper(q) = <<>> /\ PresenceSwitchMapper(q) = <<>>
         /\ BinarySensorMapper(q) = <<>>
  <1>1. Actions(q, {"THERMOSTAT_SET_SETPOINT"}) = {}
        /\ Infos(q, {"ALARM_STATE", "ALARM_ENABLE_STATE"}) = {} /\ Actions(q, {"SET_ON"}) = {}
    BY NoTag
  <1>2. ClimateMapper(q) = <<>>
    <2>1. {i \in Actions(q, {"THERMOSTAT_SET_SETPOINT"}) : q.cmds[i].sub \in {"", "slider"}} = {}
      BY <1>1
    <2>. QED  BY <2>1, Zenon DEF ClimateMapper
  <1>3. AlarmMapper(q) = <<>>
    <2>1. {i \in Infos(q, {"ALARM_STATE", "ALARM_ENABLE_STATE"}) : q.cmds[i].sub = "binary"} = {}
      BY <1>1
    <2>. QED  BY <2>1, Zenon DEF AlarmMapper
  <1>4. PresenceSwitchMapper(q) = <<>>
    BY <1>1, Zenon DEF PresenceSwitchMapper
  <1>5. BinarySensorMapper(q) = <<>>
    <2>1. ~MultiDomain(q)
      <3>1. "" \notin OwnedTypes
        BY DEF OwnedTypes, SwitchTypes, EnergyTypes
      <3>2. ~Bears(q, OwnedTypes)
        BY <3>1, NoTag
      <3>. QED  BY <3>2 DEF MultiDomain
    <2>2. {i \in {i \in Ids(q) : BinaryInfo(q.cmds[i])} : q.cmds[i].gt \in BinaryTypes} = {}
      BY DEF Untagged, BinaryTypes
    <2>. QED  BY <2>1, <2>2, Zenon DEF BinarySensorMapper, FirstOf
  <1>. QED  BY <1>2, <1>3, <1>4, <1>5

\* The numeric commands of the sensors of an equipment without tags.
Shown(q) == {i \in Numeric(q) : q.solar \/ q.cmds[i].unit # ""}
SensorOf(q, i) == CommandEntity("sensor", "sure", i, Measure(q.cmds[i]))

\* The sensor mapper answers for them.
LEMMA SensorAnswers ==
  ASSUME NEW q, Len(q.cmds) \in Nat, Untagged(q), Shown(q) # {}
  PROVE  /\ SensorMapper(q) # <<>> /\ 1 \in DOMAIN SensorMapper(q)
         /\ \E i \in Ids(q) : SensorMapper(q)[1] = SensorOf(q, i)
  <1>. DEFINE known   == {i \in Numeric(q) : q.cmds[i].gt \in SensorTypes}
              untyped == {i \in Numeric(q) : q.cmds[i].gt = "" /\ q.cmds[i].unit # ""}
              multi   == {i \in Numeric(q) : ~ConsumedBySwitch(q, i)}
              each    == [n \in DOMAIN Inc(multi) |-> SensorOf(q, Inc(multi)[n])]
  <1>1. SensorMapper(q) =
          IF MultiSensor(q) THEN each
          ELSE IF known # {} THEN FirstOf(known, LAMBDA i :
             [Entity("sensor", "sure", Just(q, <<i>>), {"state"})
                EXCEPT !.measure = Measure(q.cmds[i])])
          ELSE IF untyped = {} THEN <<>> ELSE <<SensorOf(q, Min(untyped))>>
    BY Zenon DEF SensorMapper, EachOf, FirstOf, Mapped, SensorOf
  <1>2. MultiSensor(q) <=> q.solar
    <2>1. ~Bears(q, SwitchTypes)
          /\ ~Bears(q, {"LIGHT_ON", "LIGHT_OFF", "LIGHT_SLIDER", "LIGHT_BRIGHTNESS"})
      BY NoTag DEF SwitchTypes, EnergyTypes
    <2>. QED  BY <2>1 DEF MultiSensor
  <1>3. known = {}
    BY DEF Untagged, Numeric, SensorTypes, PowerTypes
  <1>4. Numeric(q) \in SUBSET Ids(q)
    BY DEF Numeric
  <1>5. CASE q.solar
    <2>1. \A i \in Ids(q) : ~ConsumedBySwitch(q, i)
      BY DEF Untagged, ConsumedBySwitch
    <2>2. multi = Numeric(q)
      BY <1>4, <2>1
    <2>3. multi # {}
      BY <2>2 DEF Shown
    <2>4. multi \in SUBSET Nat /\ IsFiniteSet(multi) /\ multi \in SUBSET Ids(q)
      BY <1>4, <2>2, IdsAreFinite
    <2>. HIDE DEF multi
    <2>5. 1 \in DOMAIN Inc(multi) /\ Inc(multi)[1] = Min(multi)
      BY <2>3, <2>4, IncTypes
    <2>6. Min(multi) \in Ids(q)
      BY <2>3, <2>4, MinIsIn
    <2>7. SensorMapper(q) = each
      BY <1>1, <1>2, <1>5
    <2>8. 1 \in DOMAIN each /\ each[1] = SensorOf(q, Min(multi))
      BY <2>5
    <2>9. each # <<>>
      <3>1. DOMAIN <<>> = {}
        BY SMT
      <3>. HIDE DEF each
      <3>. QED  BY <2>8, <3>1
    <2>. HIDE DEF each
    <2>. QED  BY <2>6, <2>7, <2>8, <2>9
  <1>6. CASE ~q.solar
    <2>1. untyped = Shown(q)
      <3>1. \A i \in Numeric(q) : q.cmds[i].gt = ""
        BY <1>4 DEF Untagged
      <3>. QED  BY <1>6, <3>1 DEF Shown
    <2>2. untyped # {} /\ untyped \in SUBSET Ids(q)
      BY <1>4, <2>1
    <2>. HIDE DEF untyped
    <2>3. PICK i \in Ids(q) : i = Min(untyped)
      BY <2>2, FirstIs
    <2>4. SensorMapper(q) = <<SensorOf(q, i)>>
      <3>. HIDE DEF known, each
      <3>. QED  BY <1>1, <1>2, <1>3, <1>6, <2>2, <2>3, Zenon
    <2>5. \A x : <<x>> # <<>> /\ 1 \in DOMAIN <<x>> /\ <<x>>[1] = x
      OBVIOUS
    <2>. QED  BY <2>4, <2>5
  <1>. QED  BY <1>5, <1>6

\* They answer first, and alone.
LEMMA SensorsAlone ==
  ASSUME NEW q, Len(q.cmds) \in Nat, Untagged(q), Shown(q) # {}
  PROVE  MapAll(q) = SensorMapper(q)
  <1>1. /\ LightMapper(q) = <<>> /\ CoverMapper(q) = <<>> /\ SwitchMapper(q) = <<>>
        /\ ClimateMapper(q) = <<>> /\ AlarmMapper(q) = <<>> /\ PresenceSwitchMapper(q) = <<>>
        /\ BinarySensorMapper(q) = <<>>
    BY NoLight, NoCover, NoSwitch, NoOther
  <1>2. SensorMapper(q) # <<>>
    BY SensorAnswers
  <1>3. StructuralEntities(q) = <<>>
    <2>1. ASSUME NEW P(_) PROVE Where(<<>>, P) = <<>>
      <3>1. {n \in DOMAIN <<>> : P(<<>>[n])} = {}
        <4>1. DOMAIN <<>> = {}
          BY SMT
        <4>. QED  BY <4>1
      <3>2. Inc({}) \in [1 .. Cardinality({}) -> {}]
        BY IncTypes, FS_EmptySet
      <3>3. DOMAIN Inc({}) = {}
        BY <3>2, FS_EmptySet
      <3>. QED  BY <3>1, <3>3 DEF Where, Mapped
    <2>2. Where(LightMapper(q), LAMBDA e : e.conf \in {"sure", "probable"}) = <<>>
      BY <1>1, <2>1
    <2>3. Primary(q, SwitchMapper(q), SensorMapper(q)) = <<>>
      BY <1>1, <2>2 DEF Primary
    <2>. QED  BY <2>3 DEF StructuralEntities, Together
  <1>4. MapAll(q) = FirstAnswer(Answers(q))
    BY <1>3, MapAllIs
  <1>. DEFINE a == Answers(q)
              given == {n \in DOMAIN a : a[n] # <<>>}
  <1>5. a \in Seq(Answer(q))
    BY AnswersWellMade
  <1>6. IF given = {} THEN FirstAnswer(a) = <<>>
        ELSE Min(given) \in given /\ FirstAnswer(a) = a[Min(given)]
    BY <1>5, FirstAnswerIs
  <1>7. /\ DOMAIN a = 1 .. 10 /\ a[8] = SensorMapper(q)
        /\ a[1] = <<>> /\ a[2] = <<>> /\ a[3] = <<>> /\ a[4] = <<>> /\ a[5] = <<>>
        /\ a[6] = <<>> /\ a[7] = <<>>
    BY <1>1 DEF Answers
  <1>8. 8 \in given /\ \A n \in given : n \in Nat /\ 8 <= n
    <2>. HIDE DEF a
    <2>1. 8 \in given
      BY <1>2, <1>7
    <2>2. ASSUME NEW n \in given PROVE n \in Nat /\ 8 <= n
      <3>1. n \in 1 .. 10
        BY <1>7
      <3>2. n # 1 /\ n # 2 /\ n # 3 /\ n # 4 /\ n # 5 /\ n # 6 /\ n # 7
        BY <1>7
      <3>. QED  BY <3>1, <3>2
    <2>. QED  BY <2>1, <2>2
  <1>9. Min(given) = 8
    <2>1. given \in SUBSET Nat /\ given # {}
      BY <1>8
    <2>. HIDE DEF given
    <2>2. Min(given) \in given /\ Min(given) <= 8
      BY <1>8, <2>1, MinIsIn
    <2>. QED  BY <1>8, <2>2
  <1>. QED  BY <1>4, <1>6, <1>7, <1>8, <1>9
=============================================================================
