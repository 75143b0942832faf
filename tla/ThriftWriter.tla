------------------------------ MODULE ThriftWriter ------------------------------
(***************************************************************************)
(* What the write_to_out_protocol functions of the generated types write.  *)
(* A struct or a union is a function on the names of the fields that are   *)
(* set, a list is a sequence, a map is a function.                         *)
(*                                                                         *)
(* With newer = TRUE the writer has a later schema than the reader, as a   *)
(* peer with a later release has: it adds a field to every struct, an      *)
(* element of a new variant to every list of unions, and a new variant     *)
(* where a field holding a union is not set.                               *)
(***************************************************************************)
EXTENDS ThriftReader, SequencesExt

CONSTANTS
    Values(_),      \* the values of a type that are written
    Write(_, _, _)  \* the tokens written of a value of a type

UnknownId == 99

\* A struct in a list, in a field this schema does not know.
NewField ==
    <<FieldToken(UnknownId, "list"), ListToken("struct", 1),
      FieldToken(1, "string"), ScalarToken(0), StopToken>>

\* A union whose variant this schema does not know.
NewVariant ==
    <<FieldToken(UnknownId, "struct"), FieldToken(1, "string"), ScalarToken(0),
      StopToken, StopToken>>

IsUnion(t) == t.kind = "union"

WriteField(f, v, newer) ==
    IF f.name \in DOMAIN v
    THEN <<FieldToken(f.id, f.type.wire)>> \o Write(v[f.name], f.type, newer)
    ELSE <<>>

WriteNew(t, v) ==
    FlattenSeq([i \in DOMAIN t.fields |->
                   IF IsUnion(t.fields[i].type) /\ t.fields[i].name \notin DOMAIN v
                   THEN <<FieldToken(t.fields[i].id, "struct")>> \o NewVariant
                   ELSE <<>>])
    \o NewField

WriteStruct(v, t, newer) ==
    FlattenSeq([i \in DOMAIN t.fields |-> WriteField(t.fields[i], v, newer)])
    \o (IF newer /\ t.kind = "struct" THEN WriteNew(t, v) ELSE <<>>)
    \o <<StopToken>>

WriteList(v, t, newer) ==
    LET added == IF newer /\ IsUnion(t.of) THEN 1 ELSE 0
    IN  <<ListToken(t.of.wire, Len(v) + added)>>
        \o (IF added = 1 THEN NewVariant ELSE <<>>)
        \o FlattenSeq([i \in DOMAIN v |-> Write(v[i], t.of, newer)])

WriteMap(v, t, newer) ==
    LET keys == SetToSeq(DOMAIN v)
    IN  <<MapToken(t.key.wire, t.of.wire, Len(keys))>>
        \o FlattenSeq([i \in DOMAIN keys |->
                          Write(keys[i], t.key, newer) \o Write(v[keys[i]], t.of, newer)])

\* What Write returns, by what it returns of the parts of a value.
Writes(v, t, newer) ==
    CASE t.kind = "scalar" -> <<ScalarToken(v)>>
      [] t.kind = "list" -> WriteList(v, t, newer)
      [] t.kind = "map" -> WriteMap(v, t, newer)
      [] OTHER -> WriteStruct(v, t, newer)

-----------------------------------------------------------------------------

\* A function, and not only something with a domain.
IsMapping(v) == v = [n \in DOMAIN v |-> v[n]]

IsSequence(v) == v \in Seq({v[i] : i \in DOMAIN v})

SizeOf(tok) == IF tok.is \in {"list", "map"} THEN tok.size ELSE 0

IsTokens(s) == IsSequence(s) /\ \A i \in DOMAIN s : SizeOf(s[i]) \in Nat

\* A value of type t, as the generated Rust types allow it.
HasType(v, t) ==
    CASE t.kind = "list" -> IsSequence(v)
      [] t.kind = "map" -> IsMapping(v) /\ IsFiniteSet(DOMAIN v)
      [] t.kind = "struct" ->
            /\ IsMapping(v)
            /\ RequiredNames(t) \subseteq DOMAIN v /\ DOMAIN v \subseteq NamesOf(FieldsOf(t))
      [] t.kind = "union" ->
            /\ IsMapping(v)
            /\ \E f \in FieldsOf(t) : DOMAIN v = {f.name}
      [] OTHER -> TRUE

\* Write is the recursion that Writes states, on values and on all they hold, and
\* the tokens of a pass are what it returns of the value of the pass.
ASSUME WriteAssumption ==
    /\ \A t \in Types : \A v \in Values(t) :
          /\ HasType(v, t)
          /\ \A part \in Parts(t, v) : part[2] \in Values(part[1])
          /\ t.kind = "map" => DOMAIN v \subseteq Values(t.key)
          /\ \A newer \in BOOLEAN :
                Write(v, t, newer) = Writes(v, t, newer) /\ IsTokens(Write(v, t, newer))
    /\ \A p \in Passes :
          ~Pass(p).damaged =>
              /\ Pass(p).value \in Values(Pass(p).type)
              /\ \E newer \in BOOLEAN :
                    Pass(p).tokens = Write(Pass(p).value, Pass(p).type, newer)

\* A field of a newer schema has an id of its own, and no value is a Stop.
ASSUME NewerAssumption ==
    \A t \in Types :
        /\ t.wire # "stop" /\ t # Anything
        /\ HasFields(t) => FieldsWith(t, UnknownId) = {}

-----------------------------------------------------------------------------
\* No container, and not all of them together, is larger than a pass may read.
Fits(tokens) ==
    LET sizes == [i \in DOMAIN tokens |-> SizeOf(tokens[i])]
    IN  /\ \A i \in DOMAIN sizes : sizes[i] <= MaxCollectionSize
        /\ SumOf(sizes) <= MaxTotalElements

(***************************************************************************)
(* What a peer of any release wrote is read as what it is: the known part  *)
(* of it, exactly, and it is refused if and only if it is larger than a    *)
(* pass may read.  Fields, variants and elements of a later schema change  *)
(* nothing (the skips and the UnknownUnionVariant arms of the generated    *)
(* code).                                                                  *)
(***************************************************************************)
ReadsWhatWasWritten ==
    end # Reading /\ ~damaged =>
        end = IF Fits(Pass(pass).tokens) THEN Returned(Pass(pass).value) ELSE Failed

================================================================================
