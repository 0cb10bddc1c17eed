--------------------------- MODULE Serialization ---------------------------
(***************************************************************************)
(* gaspi::serialization: size, serialize and deserialize for base types,   *)
(* std::string, pair, vector, deque, set and map, and for the              *)
(* BufferDescription that ranks exchange.  Each has one version for memory *)
(* and one for streams.                                                    *)
(*                                                                         *)
(* An object is its type with its value: a number for a base type, a       *)
(* sequence for string, vector and deque, a set, a function for a map.     *)
(* Memory is a function from addresses to bytes.                           *)
(***************************************************************************)
EXTENDS Naturals, Sequences, FiniteSets, SequencesExt, TLC

CONSTANTS
  Radix,       \* number of values of a byte
  Width,       \* Width[t]: sizeof of a base type
  StringWidth  \* sizeof(std::string)

(* The base types with an explicit instantiation. *)
BaseTypes == {"char", "unsigned char", "short", "unsigned short", "int",
              "unsigned int", "long", "unsigned long", "float", "double"}

ASSUME WidthAssumption ==
  /\ Radix \in Nat \ {0, 1}
  /\ DOMAIN Width = BaseTypes
  /\ \A t \in BaseTypes : Width[t] \in Nat \ {0}
  /\ StringWidth \in Nat

Base(t) == [kind |-> "base", name |-> t]
String == [kind |-> "string"]
Pair(T, U) == [kind |-> "pair", first |-> T, second |-> U]
Container(kind, T) == [kind |-> kind, of |-> T]
Map(T, U) == [kind |-> "map", key |-> T, of |-> U]
BufferDescription == [kind |-> "BufferDescription"]

Object(T, v) == [type |-> T, value |-> v]
Values(xs) == [i \in DOMAIN xs |-> xs[i].value]

(* size_t is unsigned long. *)
SizeT == Base("unsigned long")
Length(n) == Object(SizeT, n)

(* rank, segmentId, offset, size and notificationId. *)
DescriptionFields ==
  <<Base("unsigned short"), Base("unsigned char"), SizeT, SizeT, Base("unsigned short")>>

(* The objects a container holds, in the order in which it is traversed.   *)
(* For set and map any order will do.                                      *)
Pairs(T, v, keys) ==
  FlattenSeq([i \in DOMAIN keys |-> <<Object(T.key, keys[i]), Object(T.of, v[keys[i]])>>])

Items(x) ==
  LET T == x.type
      v == x.value
  IN CASE T.kind \in {"vector", "deque"} -> [i \in DOMAIN v |-> Object(T.of, v[i])]
       [] T.kind = "set" -> LET s == SetToSeq(v) IN [i \in DOMAIN s |-> Object(T.of, s[i])]
       [] T.kind = "map" -> Pairs(T, v, SetToSeq(DOMAIN v))
       [] T.kind = "pair" -> <<Object(T.first, v[1]), Object(T.second, v[2])>>
       [] T.kind = "BufferDescription" ->
            [i \in DOMAIN DescriptionFields |-> Object(DescriptionFields[i], v[i])]

(* number of elements *)
Count(x) ==
  CASE x.type.kind = "set" -> Cardinality(x.value)
    [] x.type.kind = "map" -> Cardinality(DOMAIN x.value)
    [] OTHER -> Len(x.value)

(* What a default constructed object holds; base types are indeterminate,  *)
(* but are always assigned before they are read.                           *)
RECURSIVE Default(_)
Default(T) ==
  CASE T.kind = "base" -> 0
    [] T.kind \in {"string", "vector", "deque", "map"} -> <<>>
    [] T.kind = "set" -> {}
    [] T.kind = "pair" -> <<Default(T.first), Default(T.second)>>
    [] T.kind = "BufferDescription" -> <<0, 0, 0, 0, 0>>

New(T) == Object(T, Default(T))
-----------------------------------------------------------------------------
(* Layout: the compiler aligns the members of a pair. *)
RECURSIVE Alignment(_)
Alignment(T) ==
  CASE T.kind = "base" -> Width[T.name]
    [] T.kind = "pair" -> LET a == Alignment(T.first) b == Alignment(T.second)
                          IN IF a > b THEN a ELSE b
    [] OTHER -> Width["unsigned long"]

RoundUp(n, a) == ((n + a - 1) \div a) * a

RECURSIVE sizeof(_)
sizeof(T) ==
  CASE T.kind = "base" -> Width[T.name]
    [] T.kind = "string" -> StringWidth
    [] T.kind = "pair" ->
         RoundUp(RoundUp(sizeof(T.first), Alignment(T.second)) + sizeof(T.second), Alignment(T))
    [] T.kind = "BufferDescription" ->
         RoundUp(FoldLeft(LAMBDA n, U : RoundUp(n, Alignment(U)) + sizeof(U), 0, DescriptionFields),
                 Alignment(T))

(* The bytes of a number, and back. *)
Bytes(n, w) == [i \in 1 .. w |-> (n \div Radix ^ (i - 1)) % Radix]
BytesOf(x) == Bytes(x.value, sizeof(x.type))

RECURSIVE Number(_)
Number(bs) == IF bs = <<>> THEN 0 ELSE Head(bs) + Radix * Number(Tail(bs))

memcpy(mem, p, bs) == [a \in p .. p + Len(bs) - 1 |-> bs[a - p + 1]] @@ mem

(* Memory that nobody has written is taken as 0; it is only read behind an *)
(* object whose size() is wrong.                                           *)
Load(mem, p, n) ==
  [i \in 1 .. n |-> IF p + i - 1 \in DOMAIN mem THEN mem[p + i - 1] ELSE 0]
-----------------------------------------------------------------------------
(* size(elem) *)
RECURSIVE size(_)

SizeOfAll(xs) == FoldLeft(LAMBDA n, x : n + size(x), 0, xs)

size_base(x) == sizeof(x.type)
size_string(x) == sizeof(SizeT) + Len(x.value)
size_pair(x) == sizeof(x.type.first) + sizeof(x.type.second)

(* Faulty variant: the length is not counted. *)
size_vector_NoLength(x) == SizeOfAll(Items(x))

size_vector(x) == sizeof(SizeT) + SizeOfAll(Items(x))
size_deque(x) == sizeof(SizeT) + SizeOfAll(Items(x))
size_set(x) == sizeof(SizeT) + SizeOfAll(Items(x))
size_map(x) == sizeof(SizeT) + SizeOfAll(Items(x))
size_BufferDescription(x) == SizeOfAll(Items(x))

size(x) ==
  CASE x.type.kind = "base" -> size_base(x)
    [] x.type.kind = "string" -> size_string(x)
    [] x.type.kind = "pair" -> size_pair(x)
    [] x.type.kind = "vector" -> size_vector(x)
    [] x.type.kind = "deque" -> size_deque(x)
    [] x.type.kind = "set" -> size_set(x)
    [] x.type.kind = "map" -> size_map(x)
    [] x.type.kind = "BufferDescription" -> size_BufferDescription(x)
-----------------------------------------------------------------------------
(* serialize(buffer, elem): the memory afterwards and the size returned.   *)
(* The containers return what size computes, pair, map and                 *)
(* BufferDescription how far the pointer has moved.                        *)
RECURSIVE serialize(_, _, _)

(* cPtr += serialize (cPtr, x) for all xs *)
SerializeAll(mem, p, xs) ==
  FoldLeft(LAMBDA s, x : LET r == serialize(s.mem, s.ptr, x)
                         IN [mem |-> r.mem, ptr |-> s.ptr + r.size],
           [mem |-> mem, ptr |-> p], xs)

Moved(s, p) == [mem |-> s.mem, size |-> s.ptr - p]
Sized(s, x) == [mem |-> s.mem, size |-> size(x)]

serialize_base(mem, p, x) == [mem |-> memcpy(mem, p, BytesOf(x)), size |-> size(x)]

serialize_string(mem, p, x) ==
  LET s == SerializeAll(mem, p, <<Length(Count(x))>>)
  IN [mem |-> memcpy(s.mem, s.ptr, x.value), size |-> size(x)]

serialize_pair(mem, p, x) == Moved(SerializeAll(mem, p, Items(x)), p)
serialize_vector(mem, p, x) == Sized(SerializeAll(mem, p, <<Length(Count(x))>> \o Items(x)), x)
serialize_deque(mem, p, x) == Sized(SerializeAll(mem, p, <<Length(Count(x))>> \o Items(x)), x)
serialize_set(mem, p, x) == Sized(SerializeAll(mem, p, <<Length(Count(x))>> \o Items(x)), x)
serialize_map(mem, p, x) == Moved(SerializeAll(mem, p, <<Length(Count(x))>> \o Items(x)), p)
serialize_BufferDescription(mem, p, x) == Moved(SerializeAll(mem, p, Items(x)), p)

serialize(mem, p, x) ==
  CASE x.type.kind = "base" -> serialize_base(mem, p, x)
    [] x.type.kind = "string" -> serialize_string(mem, p, x)
    [] x.type.kind = "pair" -> serialize_pair(mem, p, x)
    [] x.type.kind = "vector" -> serialize_vector(mem, p, x)
    [] x.type.kind = "deque" -> serialize_deque(mem, p, x)
    [] x.type.kind = "set" -> serialize_set(mem, p, x)
    [] x.type.kind = "map" -> serialize_map(mem, p, x)
    [] x.type.kind = "BufferDescription" -> serialize_BufferDescription(mem, p, x)
-----------------------------------------------------------------------------
(* deserialize(elem, buffer): the object that x becomes and the size       *)
(* returned.                                                               *)
RECURSIVE deserialize(_, _, _)

(* cPtr += deserialize (x, cPtr) for all xs *)
DeserializeAll(xs, mem, p) ==
  FoldLeft(LAMBDA s, x : LET r == deserialize(x, mem, s.ptr)
                         IN [objects |-> Append(s.objects, r.object), ptr |-> s.ptr + r.size],
           [objects |-> <<>>, ptr |-> p], xs)

(* resize(n): what there is stays, the rest is default constructed. *)
Resized(x, n) ==
  [i \in 1 .. n |-> IF i <= Count(x) THEN Items(x)[i] ELSE New(x.type.of)]

(* n new elements for a set, n new keys and elements for a map; insert     *)
(* leaves an element alone whose key is there already.                     *)
NewItems(T, n) ==
  IF T.kind = "set" THEN [i \in 1 .. n |-> New(T.of)]
  ELSE [i \in 1 .. 2 * n |-> New(IF i % 2 = 1 THEN T.key ELSE T.of)]

Insert(x, vs) ==
  IF x.type.kind = "set" THEN Object(x.type, x.value \cup {vs[i] : i \in DOMAIN vs})
  ELSE Object(x.type, FoldLeft(LAMBDA f, i : f @@ (vs[2 * i - 1] :> vs[2 * i]),
                               x.value, [i \in 1 .. Len(vs) \div 2 |-> i]))

LengthAt(mem, p) == deserialize(New(SizeT), mem, p).object.value
Behind(p) == p + sizeof(SizeT)

deserialize_base(x, mem, p) ==
  [object |-> Object(x.type, Number(Load(mem, p, sizeof(x.type)))), size |-> size(x)]

deserialize_string(x, mem, p) ==
  LET str == Object(x.type, Load(mem, Behind(p), LengthAt(mem, p)))
  IN [object |-> str, size |-> size(str)]

deserialize_pair(x, mem, p) ==
  LET s == DeserializeAll(Items(x), mem, p)
  IN [object |-> Object(x.type, Values(s.objects)), size |-> s.ptr - p]

deserialize_vector(x, mem, p) ==
  LET s == DeserializeAll(Resized(x, LengthAt(mem, p)), mem, Behind(p))
      vec == Object(x.type, Values(s.objects))
  IN [object |-> vec, size |-> size(vec)]

deserialize_deque(x, mem, p) == deserialize_vector(x, mem, p)

(* Faulty variant: the elements that are there are not removed. *)
deserialize_set_NoClear(x, mem, p) ==
  LET s == DeserializeAll(NewItems(x.type, LengthAt(mem, p)), mem, Behind(p))
      set == Insert(x, Values(s.objects))
  IN [object |-> set, size |-> size(set)]

deserialize_set(x, mem, p) ==
  LET s == DeserializeAll(NewItems(x.type, LengthAt(mem, p)), mem, Behind(p))
      set == Insert(New(x.type), Values(s.objects))
  IN [object |-> set, size |-> size(set)]

deserialize_map(x, mem, p) ==
  LET s == DeserializeAll(NewItems(x.type, LengthAt(mem, p)), mem, Behind(p))
  IN [object |-> Insert(New(x.type), Values(s.objects)), size |-> s.ptr - p]

deserialize_BufferDescription(x, mem, p) ==
  LET s == DeserializeAll(Items(x), mem, p)
  IN [object |-> Object(x.type, Values(s.objects)), size |-> s.ptr - p]

deserialize(x, mem, p) ==
  CASE x.type.kind = "base" -> deserialize_base(x, mem, p)
    [] x.type.kind = "string" -> deserialize_string(x, mem, p)
    [] x.type.kind = "pair" -> deserialize_pair(x, mem, p)
    [] x.type.kind = "vector" -> deserialize_vector(x, mem, p)
    [] x.type.kind = "deque" -> deserialize_deque(x, mem, p)
    [] x.type.kind = "set" -> deserialize_set(x, mem, p)
    [] x.type.kind = "map" -> deserialize_map(x, mem, p)
    [] x.type.kind = "BufferDescription" -> deserialize_BufferDescription(x, mem, p)
-----------------------------------------------------------------------------
(* Streams: the bytes in it, room for more if it is written, whether it is *)
(* good and whether an exception has been thrown.  An operation on a       *)
(* stream that is not good does nothing.                                   *)
OutStream(room) == [bytes |-> <<>>, room |-> room, good |-> TRUE, thrown |-> FALSE]
InStream(bytes) == [bytes |-> bytes, room |-> 0, good |-> TRUE, thrown |-> FALSE]

write(out, bs) ==
  CASE ~out.good -> out
    [] out.good /\ Len(bs) <= out.room ->
         [out EXCEPT !.bytes = @ \o bs, !.room = @ - Len(bs)]
    [] out.good /\ Len(bs) > out.room ->
         [out EXCEPT !.bytes = @ \o SubSeq(bs, 1, out.room), !.room = 0, !.good = FALSE]

read(in, n) ==
  IF in.good /\ n <= Len(in.bytes)
  THEN [got |-> SubSeq(in.bytes, 1, n), in |-> [in EXCEPT !.bytes = SubSeq(@, n + 1, Len(@))]]
  ELSE [got |-> [i \in 1 .. n |-> 0], in |-> [in EXCEPT !.bytes = <<>>, !.good = FALSE]]

(* if (not good()) throw *)
Check(s) == [s EXCEPT !.thrown = @ \/ ~s.good]
-----------------------------------------------------------------------------
(* serialize(ostream, elem) *)
RECURSIVE serializeTo(_, _)

SerializeAllTo(out, xs) == FoldLeft(LAMBDA s, x : serializeTo(s, x), out, xs)

serializeTo_base(out, x) == Check(write(out, BytesOf(x)))

(* Faulty variant: the stream is not tested. *)
serializeTo_string_NoCheck(out, x) == write(write(out, BytesOf(Length(Count(x)))), x.value)

serializeTo_string(out, x) == Check(write(write(out, BytesOf(Length(Count(x)))), x.value))
serializeTo_pair(out, x) == Check(SerializeAllTo(out, Items(x)))
serializeTo_vector(out, x) == Check(SerializeAllTo(out, <<Length(Count(x))>> \o Items(x)))
serializeTo_deque(out, x) == Check(SerializeAllTo(out, <<Length(Count(x))>> \o Items(x)))

serializeTo_set(out, x) ==
  Check(SerializeAllTo(write(out, BytesOf(Length(Count(x)))), Items(x)))

serializeTo_map(out, x) ==
  Check(SerializeAllTo(write(out, BytesOf(Length(Count(x)))), Items(x)))

serializeTo_BufferDescription(out, x) == SerializeAllTo(out, Items(x))

serializeTo(out, x) ==
  CASE x.type.kind = "base" -> serializeTo_base(out, x)
    [] x.type.kind = "string" -> serializeTo_string(out, x)
    [] x.type.kind = "pair" -> serializeTo_pair(out, x)
    [] x.type.kind = "vector" -> serializeTo_vector(out, x)
    [] x.type.kind = "deque" -> serializeTo_deque(out, x)
    [] x.type.kind = "set" -> serializeTo_set(out, x)
    [] x.type.kind = "map" -> serializeTo_map(out, x)
    [] x.type.kind = "BufferDescription" -> serializeTo_BufferDescription(out, x)
-----------------------------------------------------------------------------
(* deserialize(elem, istream): the object that x becomes and the stream.   *)
(* After an exception x counts as unchanged; the code leaves some part of  *)
(* the new value in it.                                                    *)
RECURSIVE deserializeFrom(_, _)

DeserializeAllFrom(xs, in) ==
  FoldLeft(LAMBDA s, x :
             IF s.in.thrown THEN s
             ELSE LET r == deserializeFrom(x, s.in)
                  IN [objects |-> Append(s.objects, r.object), in |-> r.in],
           [objects |-> <<>>, in |-> in], xs)

Unless(in, x, y) == [object |-> IF in.thrown THEN x ELSE y, in |-> in]

LengthFrom(in) == deserializeFrom(New(SizeT), in)

deserializeFrom_base(x, in) ==
  LET r == read(in, sizeof(x.type))
  IN [object |-> Object(x.type, Number(r.got)), in |-> Check(r.in)]

deserializeFrom_string(x, in) ==
  LET l == LengthFrom(in)
      r == read(l.in, l.object.value)
  IN Unless(Check(r.in), x, Object(x.type, r.got))

deserializeFrom_pair(x, in) ==
  LET s == DeserializeAllFrom(Items(x), in)
  IN Unless(Check(s.in), x, Object(x.type, Values(s.objects)))

deserializeFrom_vector(x, in) ==
  LET l == LengthFrom(in)
      s == DeserializeAllFrom(Resized(x, l.object.value), l.in)
  IN Unless(Check(s.in), x, Object(x.type, Values(s.objects)))

deserializeFrom_deque(x, in) == deserializeFrom_vector(x, in)

deserializeFrom_set(x, in) ==
  LET l == LengthFrom(in)
      s == DeserializeAllFrom(NewItems(x.type, l.object.value), l.in)
  IN Unless(Check(s.in), x, Insert(New(x.type), Values(s.objects)))

deserializeFrom_map(x, in) == deserializeFrom_set(x, in)

deserializeFrom_BufferDescription(x, in) ==
  LET s == DeserializeAllFrom(Items(x), in)
  IN Unless(s.in, x, Object(x.type, Values(s.objects)))

deserializeFrom(x, in) ==
  CASE x.type.kind = "base" -> deserializeFrom_base(x, in)
    [] x.type.kind = "string" -> deserializeFrom_string(x, in)
    [] x.type.kind = "pair" -> deserializeFrom_pair(x, in)
    [] x.type.kind = "vector" -> deserializeFrom_vector(x, in)
    [] x.type.kind = "deque" -> deserializeFrom_deque(x, in)
    [] x.type.kind = "set" -> deserializeFrom_set(x, in)
    [] x.type.kind = "map" -> deserializeFrom_map(x, in)
    [] x.type.kind = "BufferDescription" -> deserializeFrom_BufferDescription(x, in)
=============================================================================
