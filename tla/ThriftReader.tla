----------------------------- MODULE ThriftReader ------------------------------
(***************************************************************************)
(* One pass of BoundedProtocol over the bytes of a value, driven by the    *)
(* read_from_in_protocol functions of the generated types, which all have  *)
(* the same shapes: one for structs, one for unions, and the loops over    *)
(* lists and maps.  The stack of the functions under way is a sequence of  *)
(* frames, and a step is one read of the protocol.                         *)
(*                                                                         *)
(* The bytes are the tokens a writer of the same or of a newer schema      *)
(* wrote, or damaged: then a read finds anything it could find, and at any *)
(* point nothing more.                                                     *)
(***************************************************************************)
EXTENDS ThriftTypes, FiniteSets

CONSTANTS
    Types,              \* the schema: the types read, and those of what they hold
    Passes,             \* the passes considered
    Pass(_),            \* the type each reads, the tokens, and whether they are damaged
    MaxCollectionSize,  \* elements of one list or map
    MaxTotalElements,   \* elements of all of them
    MaxDamaged,         \* bound on the reads of damaged bytes
    Sizes,              \* the sizes a damaged container may announce
    Ids,                \* the ids a damaged field may have
    MaxNesting          \* how deep WellFormed looks into a value

ASSUME CapsAssumption ==
    /\ MaxCollectionSize \in Nat /\ MaxTotalElements \in Nat
    /\ Sizes \subseteq Int /\ MaxNesting \in Nat

ASSUME TypesAssumption ==
    /\ IsSchema(Types)
    /\ \A p \in Passes : Pass(p).type \in Types /\ HasFields(Pass(p).type)

VARIABLES
    pass,   \* the pass
    damaged,\* whether its bytes are
    input,  \* the tokens it has yet to read; of damaged bytes, those it has read
    stack,  \* the functions under way, the innermost last
    total,  \* total_elements
    end     \* what the pass returned; Reading: nothing yet

vars == <<pass, damaged, input, stack, total, end>>

-----------------------------------------------------------------------------
(***************************************************************************)
(* What is on the wire.  A Stop is a field without id, a scalar is told    *)
(* apart by a number, and a struct begins and ends with nothing.           *)
(***************************************************************************)
FieldToken(id, wire) == [is |-> "field", id |-> id, wire |-> wire]
StopToken == FieldToken(0, "stop")
ScalarToken(n) == [is |-> "scalar", value |-> n]
ListToken(wire, n) == [is |-> "list", of |-> wire, size |-> n]
MapToken(key, wire, n) == [is |-> "map", key |-> key, of |-> wire, size |-> n]

Wires == {"string", "struct", "list"}

DamagedTokens(kind) ==
    CASE kind = "field" ->
            {StopToken} \cup {FieldToken(i, w) : i \in Ids, w \in Wires}
      [] kind = "scalar" -> {ScalarToken(0)}
      [] kind = "list" -> {ListToken(w, n) : w \in Wires, n \in Sizes}
      [] kind = "map" -> {MapToken("string", w, n) : w \in Wires, n \in Sizes}

\* What a read of this kind may find.
Found(kind) ==
    IF damaged
    THEN IF Len(input) < MaxDamaged THEN DamagedTokens(kind) ELSE {}
    ELSE {tok \in {input[i] : i \in {1} \cap DOMAIN input} : tok.is = kind}

\* The read took this token.
Consume(tok) == input' = IF damaged THEN Append(input, tok) ELSE Tail(input)

-----------------------------------------------------------------------------
(***************************************************************************)
(* The functions under way.  A struct or union has the field it reads, a   *)
(* container the elements it has yet to read, and a map the key whose      *)
(* value it reads.                                                         *)
(***************************************************************************)
NoKey == <<>>

StructFrame(t) ==
    [type |-> t, field |-> StopToken, left |-> 0, key |-> NoKey,
     got |-> <<>>, all |-> 0, known |-> 0]

ContainerFrame(t, n) == [StructFrame(t) EXCEPT !.left = n]

Top == stack[Len(stack)]
Below == SubSeq(stack, 1, Len(stack) - 1)

OfFields(f) == HasFields(f.type)

\* skip(field_type): a value of a type known by its wire type only.
Anything == Scalar("anything")
SkipType(wire) ==
    CASE wire = "struct" -> Struct(<<>>)
      [] wire = "list" -> ListOf(Anything)
      [] wire = "map" -> MapOf(Anything, Anything)
      [] OTHER -> Scalar(wire)

\* The types a skipped container announces for what it holds.
OfWire(t, tok) ==
    CASE t = SkipType("list") -> ListOf(SkipType(tok.of))
      [] t = SkipType("map") -> MapOf(SkipType(tok.key), SkipType(tok.of))
      [] OTHER -> t

\* Function f is about to read a value, and this is its type.
Wants(f) == IF OfFields(f) THEN f.field # StopToken ELSE f.left > 0

WantedBy(f) ==
    IF OfFields(f)
    THEN IF FieldsWith(f.type, f.field.id) = {}
         THEN SkipType(f.field.wire)
         ELSE (CHOOSE g \in FieldsWith(f.type, f.field.id) : TRUE).type
    ELSE IF f.type.kind = "map" /\ f.key = NoKey THEN f.type.key ELSE f.type.of

WantsValue == Wants(Top)
Wanted == WantedBy(Top)

(***************************************************************************)
(* What a function makes of a value it called for.  A result is a sequence *)
(* of one value, or of none: the value was a union of a variant this       *)
(* schema does not know (UnknownUnionVariant), which leaves a field as it  *)
(* is, an element out, and a union around it without a variant.            *)
(***************************************************************************)
UnknownVariant == <<>>

With(got, name, value) ==
    [n \in DOMAIN got \cup {name} |-> IF n = name THEN value ELSE got[n]]

\* Counting a known field whose value is of an unknown variant.
CountedAsKnown(f, result) ==
    LET fields == FieldsWith(f.type, f.field.id)
    IN  [f EXCEPT !.field = StopToken,
                  !.all = @ + 1,
                  !.known = IF fields # {} THEN @ + 1 ELSE @,
                  !.got = IF fields # {} /\ result # UnknownVariant
                          THEN With(@, (CHOOSE g \in fields : TRUE).name, result[1])
                          ELSE @]

TakenAsField(f, result) ==
    LET fields == FieldsWith(f.type, f.field.id)
        taken == fields # {} /\ result # UnknownVariant
        first == f.type.kind = "struct" \/ f.known = 0
    IN  [f EXCEPT !.field = StopToken,
                  !.all = @ + 1,
                  !.known = IF taken THEN @ + 1 ELSE @,
                  !.got = IF taken /\ first
                          THEN With(@, (CHOOSE g \in fields : TRUE).name, result[1])
                          ELSE @]

\* The loop over the elements left at the first of an unknown variant.
StoppedAtUnknown(f, result) ==
    [f EXCEPT !.left = IF result = UnknownVariant THEN 0 ELSE @ - 1, !.got = @ \o result]

TakenAsElement(f, result) ==
    [f EXCEPT !.left = @ - 1, !.got = @ \o result]

TakenAsKey(f, result) == [f EXCEPT !.key = result]

TakenAsValue(f, result) ==
    [f EXCEPT !.left = @ - 1, !.key = NoKey,
              !.got = With(@, f.key[1], result[1])]

Taken(f, result) ==
    CASE OfFields(f) -> TakenAsField(f, result)
      [] f.type.kind = "list" -> TakenAsElement(f, result)
      [] f.type.kind = "map" /\ f.key = NoKey -> TakenAsKey(f, result)
      [] OTHER -> TakenAsValue(f, result)

Give(frames, result) ==
    SubSeq(frames, 1, Len(frames) - 1) \o <<Taken(frames[Len(frames)], result)>>

Reading == [is |-> "reading"]
Failed == [is |-> "failed"]
Returned(v) == [is |-> "returned", value |-> v]

Init ==
    /\ pass \in Passes
    /\ LET p == Pass(pass)
       IN  /\ damaged = p.damaged
           /\ input = p.tokens
           /\ stack = <<StructFrame(p.type)>>
    /\ total = 0
    /\ end = Reading

Continue(frames) ==
    /\ stack' = frames
    /\ UNCHANGED <<pass, damaged, end>>

Finish(how) ==
    /\ stack' = <<>>
    /\ end' = how
    /\ UNCHANGED <<pass, damaged>>

\* The innermost function returns its result.
Return(result) ==
    IF Len(stack) > 1
    THEN Continue(Give(Below, result))
    ELSE Finish(IF result = UnknownVariant THEN Failed ELSE Returned(result[1]))

-----------------------------------------------------------------------------

\* read_field_begin, of a field.
ReadField ==
    /\ end = Reading /\ OfFields(Top) /\ ~WantsValue
    /\ \E tok \in Found("field") \ {StopToken} :
          /\ Consume(tok)
          /\ Continue(Below \o <<[Top EXCEPT !.field = tok]>>)
    /\ UNCHANGED total

\* read_field_begin, of the Stop after the last field of a struct; the required
\* fields are there, or the event is refused.
EndStruct ==
    /\ end = Reading /\ OfFields(Top) /\ ~WantsValue
    /\ Top.type.kind = "struct"
    /\ StopToken \in Found("field") /\ Consume(StopToken)
    /\ IF RequiredNames(Top.type) \subseteq DOMAIN Top.got
       THEN Return(<<Top.got>>)
       ELSE Finish(Failed)
    /\ UNCHANGED total

\* The same for a union: without fields it is refused, and with several known
\* variants; with only unknown ones, its caller decides.
EndUnion ==
    /\ end = Reading /\ OfFields(Top) /\ ~WantsValue
    /\ Top.type.kind = "union"
    /\ StopToken \in Found("field") /\ Consume(StopToken)
    /\ IF Top.all = 0 \/ Top.known > 1
       THEN Finish(Failed)
       ELSE Return(IF Top.known = 0 THEN UnknownVariant ELSE <<Top.got>>)
    /\ UNCHANGED total

ReadScalar ==
    /\ end = Reading /\ WantsValue /\ Wanted.kind = "scalar"
    /\ \E tok \in Found("scalar") :
          /\ Consume(tok)
          /\ Continue(Give(stack, <<tok.value>>))
    /\ UNCHANGED total

\* read_struct_begin: nothing is read.
BeginStruct ==
    /\ end = Reading /\ WantsValue /\ Wanted.kind \in {"struct", "union"}
    /\ Continue(Append(stack, StructFrame(Wanted)))
    /\ UNCHANGED <<input, total>>

\* Every container within the limits, and not all of them together.
EachWithinCaps(size) == size \in 0 .. MaxCollectionSize /\ size <= MaxTotalElements

\* check_collection_size
WithinCaps(size) ==
    /\ size \in 0 .. MaxCollectionSize
    /\ total + size <= MaxTotalElements

\* read_list_begin and read_map_begin, then Vec::with_capacity.
BeginContainer ==
    /\ end = Reading /\ WantsValue /\ Wanted.kind \in {"list", "map"}
    /\ \E tok \in Found(Wanted.kind) :
          /\ Consume(tok)
          /\ IF WithinCaps(tok.size)
             THEN /\ total' = total + tok.size
                  /\ Continue(Append(stack, ContainerFrame(OfWire(Wanted, tok), tok.size)))
             ELSE /\ UNCHANGED total
                  /\ Finish(Failed)

\* The loop over the elements ends: read_list_end and read_map_end read nothing.
EndContainer ==
    /\ end = Reading /\ ~OfFields(Top) /\ Top.left = 0
    /\ Return(<<Top.got>>)
    /\ UNCHANGED <<input, total>>

\* The kinds of token the innermost function may read next.
Sought ==
    IF WantsValue THEN {Wanted.kind} ELSE IF OfFields(Top) THEN {"field"} ELSE {}

\* The bytes end before the value does, or what is there is no such thing.
OutOfBytes ==
    /\ end = Reading
    /\ \E kind \in Sought \ {"struct", "union"} : damaged \/ Found(kind) = {}
    /\ Finish(Failed)
    /\ UNCHANGED <<input, total>>

Done ==
    /\ end # Reading
    /\ UNCHANGED vars

Read ==
    \/ ReadField \/ EndStruct \/ EndUnion \/ ReadScalar
    \/ BeginStruct \/ BeginContainer \/ EndContainer \/ OutOfBytes

Next == Read \/ Done

Spec == Init /\ [][Next]_vars

-----------------------------------------------------------------------------
(***************************************************************************)
(* Properties.                                                             *)
(***************************************************************************)

\* What a value of a type holds, each with its type.
ElementValues(t, v) == {<<t.of, v[i]>> : i \in DOMAIN v}

FieldValues(t, v) ==
    {<<f.type, v[f.name]>> : f \in {g \in FieldsOf(t) : g.name \in DOMAIN v}}

Parts(t, v) ==
    CASE t.kind \in {"list", "map"} -> ElementValues(t, v)
      [] HasFields(t) -> FieldValues(t, v)
      [] OTHER -> {}

\* What the callers of the generated types rely on: a union has one variant, the
\* required fields are there, and no container is beyond the limit.
Sound(t, v) ==
    CASE t.kind = "list" -> Len(v) <= MaxCollectionSize
      [] t.kind = "map" -> Cardinality(DOMAIN v) <= MaxCollectionSize
      [] t.kind = "struct" ->
            RequiredNames(t) \subseteq DOMAIN v /\ DOMAIN v \subseteq NamesOf(FieldsOf(t))
      [] t.kind = "union" -> \E f \in FieldsOf(t) : DOMAIN v = {f.name}
      [] OTHER -> TRUE

PartsOf(values) == UNION {Parts(p[1], p[2]) : p \in values}

WellFormed(t, v) ==
    LET nested[n \in 0 .. MaxNesting] ==
            IF n = 0 THEN {<<t, v>>} ELSE PartsOf(nested[n - 1])
    IN  \A n \in 0 .. MaxNesting : \A p \in nested[n] : Sound(p[1], p[2])

(***************************************************************************)
(* Whatever the bytes, what a pass returns has the shape the code reads    *)
(* out of it, at any depth: no empty or double union, every required field *)
(* (the checks after the loops of read_from_in_protocol).                  *)
(***************************************************************************)
ReturnsWellFormed ==
    end.is = "returned" => WellFormed(Pass(pass).type, end.value)

\* The room reserved for the elements of a container, and of all of them.
Room(f) == IF OfFields(f) THEN 0 ELSE f.left + Cardinality(DOMAIN f.got)

SumOf(numbers) ==
    LET upto[n \in 0 .. Len(numbers)] == IF n = 0 THEN 0 ELSE upto[n - 1] + numbers[n]
    IN  upto[Len(numbers)]

Rooms(frames) == [i \in DOMAIN frames |-> Room(frames[i])]

Reserved(frames) == SumOf(Rooms(frames))

(***************************************************************************)
(* Whatever the bytes announce, the room reserved for the elements of the  *)
(* containers being read is within the total, hence within the limit       *)
(* (MAX_TOTAL_ELEMENTS, against nested containers).                        *)
(***************************************************************************)
ReservesWithinTotal == Reserved(stack) <= total /\ total <= MaxTotalElements

================================================================================
