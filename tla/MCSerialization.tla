-------------------------- MODULE MCSerialization --------------------------
(***************************************************************************)
(* The calls of Serialization in the order in which the library makes      *)
(* them: two objects are packed one behind the other into a buffer of the  *)
(* sum of their sizes, the buffer is sent as it is, and the receiver       *)
(* unpacks it into objects that may hold something from before.  The       *)
(* versions for streams are called in the same way; the stream may have    *)
(* too little room, and what is read back may be cut short.                *)
(***************************************************************************)
EXTENDS Serialization

VARIABLES
  step,     \* "objects", then "packed" and "unpacked", or "written" and "read" or "cut"
  objects,  \* the two objects that are sent
  targets,  \* the two objects they are read into
  buffer,   \* memory, the length that size has given for it, the pointer behind the last object
  stream

vars == <<step, objects, targets, buffer, stream>>

(* Small widths; as in the C++ ABI, a short is narrower than a long. *)
Widths ==
  [t \in BaseTypes |->
     CASE t \in {"char", "unsigned char"} -> 1
       [] t \in {"short", "unsigned short", "int", "unsigned int", "float"} -> 2
       [] t \in {"long", "unsigned long", "double"} -> 4]
-----------------------------------------------------------------------------
(* The types for which the templates can be instantiated, as far as they   *)
(* differ: a template sees only those that are declared before it.         *)
CharT == Base("char")
IntT == Base("int")
LongT == Base("long")

PairTypes ==
  {Pair(T, U) : T \in {CharT, LongT, String}, U \in {CharT, IntT}} \cup
  {Pair(Pair(CharT, LongT), CharT), Pair(Pair(IntT, IntT), IntT), Pair(BufferDescription, CharT)}

VectorTypes ==
  {Container("vector", T) : T \in {CharT, LongT, String, BufferDescription,
     Pair(CharT, LongT), Pair(String, CharT), Container("vector", CharT), Container("vector", String)}}

DequeTypes ==
  {Container("deque", T) : T \in
     {IntT, Pair(CharT, IntT), Container("vector", CharT), Container("deque", CharT)}}

SetTypes ==
  {Container("set", T) : T \in {IntT, String, Pair(CharT, LongT),
     Container("vector", CharT), Container("deque", CharT), Container("set", CharT)}}

MapTypes ==
  {Map(CharT, IntT), Map(String, Container("vector", CharT)), Map(Pair(IntT, IntT), String),
   Map(IntT, Container("set", CharT)), Map(CharT, Map(CharT, CharT))}

Types == {Base(t) : t \in BaseTypes} \cup {String, BufferDescription}
           \cup PairTypes \cup VectorTypes \cup DequeTypes \cup SetTypes \cup MapTypes

(* Some values of a type: containers of up to two elements. *)
RECURSIVE ValuesOf(_)
ValuesOf(T) ==
  CASE T.kind = "base" -> {0, Radix ^ Width[T.name] - 1}
    [] T.kind = "string" -> {<<>>, <<0, 1>>}
    [] T.kind = "pair" -> ValuesOf(T.first) \X ValuesOf(T.second)
    [] T.kind \in {"vector", "deque"} ->
         UNION {[1 .. n -> ValuesOf(T.of)] : n \in 0 .. 2}
    [] T.kind = "set" -> {s \in SUBSET ValuesOf(T.of) : Cardinality(s) <= 2}
    [] T.kind = "map" ->
         UNION {[s -> ValuesOf(T.of)] :
                  s \in {k \in SUBSET ValuesOf(T.key) : Cardinality(k) <= 2}}
    [] T.kind = "BufferDescription" -> {<<1, 1, 2, 0, 3>>, <<3, 0, 15, 7, 1>>}

(* What follows the object, and what a target holds beforehand. *)
Followers ==
  {Length(9), Object(String, <<1, 1>>), Object(BufferDescription, <<2, 1, 4, 8, 0>>)}

Longest(T) ==
  LET n == Max({size(Object(T, v)) : v \in ValuesOf(T)})
  IN CHOOSE v \in ValuesOf(T) : size(Object(T, v)) = n

Earlier(T) == {Default(T), Longest(T)}
-----------------------------------------------------------------------------
Init ==
  \E T \in Types :
    \E v \in ValuesOf(T), e \in Earlier(T), y \in Followers :
      /\ step = "objects"
      /\ objects = <<Object(T, v), y>>
      /\ targets = <<Object(T, e), New(y.type)>>
      /\ buffer = [mem |-> <<>>, length |-> 0, ptr |-> 0]
      /\ stream = OutStream(0)

(* A buffer for both is allocated and filled. *)
Pack ==
  /\ step = "objects"
  /\ step' = "packed"
  /\ LET s == SerializeAll(<<>>, 0, objects)
     IN buffer' = [mem |-> s.mem, length |-> SizeOfAll(objects), ptr |-> s.ptr]
  /\ UNCHANGED <<objects, targets, stream>>

Unpack ==
  /\ step = "packed"
  /\ step' = "unpacked"
  /\ targets' = DeserializeAll(targets, buffer.mem, 0).objects
  /\ UNCHANGED <<objects, buffer, stream>>

Needed == Len(SerializeAllTo(OutStream(2 * SizeOfAll(objects)), objects).bytes)

Write ==
  /\ step = "objects"
  /\ step' = "written"
  /\ \E room \in 0 .. Needed : stream' = SerializeAllTo(OutStream(room), objects)
  /\ UNCHANGED <<objects, targets, buffer>>

Read ==
  /\ step = "written" /\ stream.good
  /\ \E n \in 0 .. Len(stream.bytes) :
       LET s == DeserializeAllFrom(targets, InStream(SubSeq(stream.bytes, 1, n)))
       IN /\ step' = IF n = Len(stream.bytes) THEN "read" ELSE "cut"
          /\ stream' = s.in
          /\ targets' = IF s.in.thrown THEN targets ELSE s.objects
  /\ UNCHANGED <<objects, buffer>>

Next == Pack \/ Unpack \/ Write \/ Read

Spec == Init /\ [][Next]_vars
-----------------------------------------------------------------------------
(* The types whose size is right: size of a pair takes sizeof of its two   *)
(* members, which is what they occupy only if they are base types, or      *)
(* pairs of base types without padding.                                    *)
RECURSIVE Exact(_)
Exact(T) ==
  CASE T.kind \in {"base", "string", "BufferDescription"} -> TRUE
    [] T.kind = "pair" ->
         \A U \in {T.first, T.second} :
            /\ U.kind \in {"base", "pair"}
            /\ Exact(U)
            /\ U.kind = "pair" => sizeof(U) = size(New(U))
    [] T.kind \in {"vector", "deque", "set"} -> Exact(T.of)
    [] T.kind = "map" -> Exact(T.key) /\ Exact(T.of)

(* What size promises for a buffer is what serialize fills, to the byte,   *)
(* and where the pointer of the caller ends: nothing is written behind the *)
(* buffer, no two objects or elements overlap, and there is no gap.        *)
SizeExact ==
  step \in {"packed", "unpacked"} /\ Exact(objects[1].type) =>
    /\ DOMAIN buffer.mem = 0 .. buffer.length - 1
    /\ buffer.ptr = buffer.length

(* What comes out of a buffer is what went into it, for nested containers, *)
(* for the object behind, and whatever the targets held before.            *)
RoundTrip ==
  step = "unpacked" /\ Exact(objects[1].type) => targets = objects

(* An exception tells the caller of every byte that was not written or not *)
(* there to be read, at whatever place of a nested object that is; without *)
(* one the objects are complete.                                           *)
StreamsReport ==
  /\ step = "written" =>
       /\ stream.thrown = ~stream.good
       /\ stream.thrown = (Len(stream.bytes) < Needed)
  /\ step = "cut" => stream.thrown
  /\ step = "read" => ~stream.thrown /\ targets = objects
=============================================================================
