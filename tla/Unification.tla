---------------------------- MODULE Unification ----------------------------
(***************************************************************************)
(* The slots that hold the types of symbols during inference, changed only *)
(* by zenit_try_type_unification (front-end/inference/infer.c) in any      *)
(* order and direction.  Types are given a meaning of their own here: the  *)
(* set of the values they describe.                                        *)
(***************************************************************************)
EXTENDS ZirTypes, FiniteSets

CONSTANTS Types,         \* what a slot may hold at first
          Pool,          \* the named structs
          PointerSize,   \* bytes of a reference in the back end (ZNES_POINTER_SIZE)
          Slots

ASSUME UnificationAssumption ==
  Types # {} /\ PointerSize \in Nat /\ \A t \in Types : "kind" \in DOMAIN t

VARIABLES first,   \* history: what each slot held at first
          slots

vars == <<first, slots>>

UnificationInit == first \in [Slots -> Types] /\ slots = first

Try(kind, i, j) ==
  LET result == TryUnification(Pool, kind, slots[i], slots[j]) IN
  /\ slots' = [slots EXCEPT ![i] = result.a, ![j] = result.b]
  /\ UNCHANGED first

UnificationNext == \E kind \in {"a", "b", "all"}, i, j \in Slots : i # j /\ Try(kind, i, j)

UnificationSpec == UnificationInit /\ [][UnificationNext]_vars
-----------------------------------------------------------------------------
(* What types mean.                                                        *)

Absent == <<"absent">>
Scalars(size) == {<<"uint", v>> : v \in 0..(2 * size - 1)}
Booleans == {<<"bool", TRUE>>, <<"bool", FALSE>>}
Anything == {Absent} \cup Scalars(2) \cup Booleans
FieldNames == {m.name : m \in UNION {{Members(Pool, t)[i] : i \in DOMAIN Members(Pool, t)} :
                                       t \in {u \in Types : u.kind = "struct"}}}

\* A struct describes every record with at least its members; a type that is
\* not known yet describes nothing.
RECURSIVE Values(_)
Values(t) ==
  CASE t.kind = "none"      -> {}
    [] t.kind = "uint"      -> Scalars(t.size)
    [] t.kind = "bool"      -> Booleans
    [] t.kind = "reference" -> {<<"reference", v>> : v \in Values(t.element)}
    [] t.kind = "array"     -> {<<"array", f>> : f \in [1..t.length -> Values(t.member)]}
    [] t.kind = "struct"    ->
         LET members == Members(Pool, t)
             range(n) == IF HasMember(members, n) THEN Values(MemberType(members, n)) ELSE Anything IN
         {<<"struct", f>> : f \in {g \in [FieldNames -> Anything] :
                                     \A n \in FieldNames : g[n] \in range(n)}}

RECURSIVE Parts(_)
Parts(t) ==
  {t} \cup CASE t.kind = "reference" -> Parts(t.element)
            [] t.kind = "array"     -> Parts(t.member)
            [] t.kind = "struct"    ->
                 UNION {Parts(Members(Pool, t)[i].type) : i \in DOMAIN Members(Pool, t)}
            [] OTHER                -> {}

Known(t) == NoneType \notin Parts(t)
Plain(t) == \A p \in Parts(t) : p.kind # "struct" /\ (p.kind = "array" => p.length > 0)

Fits(t, from) == Values(from) \subseteq Values(t)

\* A type is assignable to another one only if its values are values of the
\* other one too, and without structs and empty arrays whenever they are.
AssignableIsSafe ==
  \A i, j \in Slots :
    Known(slots[i]) =>
      /\ Assignable(Pool, slots[i], slots[j]) => Fits(slots[i], slots[j])
      /\ Known(slots[j]) /\ Plain(slots[i]) /\ Plain(slots[j]) /\ Fits(slots[i], slots[j])
           => Assignable(Pool, slots[i], slots[j])

\* However often and in whatever order slots are unified, none of them loses
\* a value it had: unification only moves up from the first types.
NeverNarrows == \A i \in Slots : Fits(slots[i], first[i])

\* infer.c:73: types that can be unified are never left half unified.  When both
\* sides may change they end up equal, and a side that may not change does not.
UnifiedTypesAgree ==
  [][\A kind \in {"a", "b", "all"}, i, j \in Slots :
       i # j /\ Try(kind, i, j) /\ CanUnify(Pool, slots[i], slots[j]) =>
         /\ kind = "all" => TypeEquals(Pool, slots'[i], slots'[j])
         /\ kind = "a" => slots'[j] = slots[j] /\ CanUnify(Pool, slots'[i], slots[j])
         /\ kind = "b" => slots'[i] = slots[i] /\ CanUnify(Pool, slots[i], slots'[j])]_vars

\* The relations of zir/types were written after those of front-end/types and
\* are the ones a back end can ask: on converted types they never accept what
\* the front end rejects, only structs are treated more strictly, and what they
\* accept has room in the bytes zir_type_size gives to the target.
ConvertedTypesAgree ==
  \A i, j \in Slots :
    LET a == slots[i]           b == slots[j]
        zirA == Convert(Pool, a)  zirB == Convert(Pool, b) IN
    /\ ZirEquals(zirA, zirB) <=> TypeEquals(Pool, a, b)
    /\ ZirEquals(zirA, zirB) => SizeOf(zirA, PointerSize) = SizeOf(zirB, PointerSize)
    /\ Known(a) /\ Known(b) =>
         /\ ZirAssignable(zirA, zirB) =>
              Assignable(Pool, a, b) /\ SizeOf(zirB, PointerSize) <= SizeOf(zirA, PointerSize)
         /\ ZirCastable(zirA, zirB) => Castable(Pool, a, b)
         /\ Plain(a) /\ Plain(b) =>
              /\ Assignable(Pool, a, b) => ZirAssignable(zirA, zirB)
              /\ Castable(Pool, a, b) => ZirCastable(zirA, zirB)
=============================================================================
