------------------------------ MODULE ThriftTypes ------------------------------
(***************************************************************************)
(* How the types the Thrift compiler generated are described: what their   *)
(* read_from_in_protocol and write_to_out_protocol do follows from the     *)
(* kind of the type and from the ids, names and types of its fields.       *)
(***************************************************************************)
EXTENDS Integers, Sequences

\* A value written in one piece; "wire" is the TType announced for it.
Scalar(wire) == [kind |-> "scalar", wire |-> wire]

Str == Scalar("string")
Bin == Scalar("string")
Bool == Scalar("bool")
I16 == Scalar("i16")
I32 == Scalar("i32")
I64 == Scalar("i64")

\* A Thrift enum is a struct around an i32: its numbers have names, and a number
\* without a name is kept as it is.
Enum(named) == [kind |-> "scalar", wire |-> "i32", named |-> named]

ListOf(t) == [kind |-> "list", wire |-> "list", of |-> t]

MapOf(k, t) == [kind |-> "map", wire |-> "map", key |-> k, of |-> t]

F(id, name, t) == [id |-> id, name |-> name, type |-> t, required |-> FALSE]
Required(id, name, t) == [id |-> id, name |-> name, type |-> t, required |-> TRUE]

Struct(fields) == [kind |-> "struct", wire |-> "struct", fields |-> fields]

Union(fields) == [kind |-> "union", wire |-> "struct", fields |-> fields]

FieldsOf(t) == {t.fields[i] : i \in DOMAIN t.fields}

\* The fields of t with an id: one, or none.
FieldsWith(t, id) == {f \in FieldsOf(t) : f.id = id}

NamesOf(fields) == {f.name : f \in fields}

RequiredNames(t) == NamesOf({f \in FieldsOf(t) : f.required})

HasFields(t) == t.kind \in {"struct", "union"}

\* What the generated code relies on: the fields of a type are in a row and told
\* apart by their ids and names, and a map has keys of one piece and values that
\* are there.
IsSchema(types) ==
    \A t \in types :
        /\ t.kind \in {"scalar", "list", "map", "struct", "union"}
        /\ t.kind = "list" => t.of \in types
        /\ t.kind = "map" =>
              /\ t.key \in types /\ t.key.kind = "scalar"
              /\ t.of \in types /\ t.of.kind # "union"
        /\ HasFields(t) =>
              /\ t.fields \in Seq(FieldsOf(t))
              /\ \A f \in FieldsOf(t) : f.type \in types
              /\ \A i, j \in DOMAIN t.fields :
                    t.fields[i].name = t.fields[j].name \/ t.fields[i].id = t.fields[j].id
                        => i = j

================================================================================
