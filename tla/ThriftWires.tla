----------------------------- MODULE ThriftWires -----------------------------
(***************************************************************************)
(* Structs of the generated code as they come from a peer: any sequence of  *)
(* fields, with fields missing, repeated, of another type, or unknown, as a *)
(* peer with another version of the IDL writes them.                        *)
(***************************************************************************)
EXTENDS ThriftServices, ThriftStructs

CONSTANT MaxFields     \* fields of a struct on the wire

VARIABLES struct,      \* the name of the struct that is read
          wire

wireVars == <<struct, wire>>

\* A struct with all its fields; what it nests is complete too
RECURSIVE Complete(_)
Complete(fs) ==
    [i \in DOMAIN fs |->
        [id |-> fs[i].id, type |-> fs[i].type,
         val |-> CASE fs[i].type = "struct" -> [wire |-> Complete(fs[i].of)]
                   [] fs[i].type = "list" -> [wires |-> <<Complete(fs[i].of)>>]
                   [] OTHER -> Scalar("a")]]

\* Values of field f on the wire; a nested struct also without its fields
WireValues(f) ==
    CASE f.type = "struct" -> {[wire |-> <<>>], [wire |-> Complete(f.of)]}
      [] f.type = "list" -> {[wires |-> <<>>], [wires |-> <<Complete(f.of), Complete(f.of)>>],
                             [wires |-> <<Complete(f.of), <<>>>>]}
      [] OTHER -> {Scalar("a"), Scalar("b")}

WireInit == struct \in DOMAIN Structs /\ wire = <<>>

\* The peer adds a field: one of the struct, one with an id of the struct and another type,
\* or one with an id that the struct does not have.
AddField ==
    /\ Len(wire) < MaxFields
    /\ LET fs == Structs[struct] IN
       \E x \in UNION {{[id |-> fs[i].id, type |-> fs[i].type, val |-> v] : v \in WireValues(fs[i])} : i \in DOMAIN fs}
                \cup {[id |-> fs[i].id, type |-> "double", val |-> Scalar("a")] : i \in DOMAIN fs}
                \cup {[id |-> 9, type |-> "string", val |-> Scalar("a")]} :
         wire' = Append(wire, x)
    /\ UNCHANGED struct

WireSpec == WireInit /\ [][AddField]_wireVars

(***************************************************************************)
(* Properties                                                               *)
(***************************************************************************)
\* The places on the wire of field f, and the last of some
Matches(f) == {i \in DOMAIN wire : wire[i].id = f.id /\ wire[i].type = f.type}
Latest(S) == CHOOSE i \in S : \A j \in S : j <= i

\* Reading a struct gives, for each field, the last value on the wire with its id and type,
\* or none; it fails exactly if a required field is missing or a nested value, also one that
\* is replaced later, cannot be read.  Unknown fields and fields of another type never
\* change the result.  What was read, and can be written, is read again as it was, and gives
\* the same fields on the wire the second time: no value is lost or invented on the way
\* through a struct.
StructsReadBack ==
    LET fs == Structs[struct]
        r == ReadStruct(fs, wire)
        w == WriteStruct(fs, r.val)
        again == ReadStruct(fs, w) IN
    /\ r.ok = \A i \in DOMAIN fs :
                /\ fs[i].need = "required" => Matches(fs[i]) # {}
                /\ \A j \in Matches(fs[i]) : ReadValue(fs[i], wire[j].val).ok
    /\ r.ok => \A i \in DOMAIN fs :
                  r.val[fs[i].id] = IF Matches(fs[i]) = {} THEN Unset(fs[i])
                                    ELSE ReadValue(fs[i], wire[Latest(Matches(fs[i]))].val).val
    /\ r.ok /\ CanWrite(fs, r.val) =>
            /\ \A i \in DOMAIN fs : r.val[fs[i].id] # Nil => again.val[fs[i].id] = r.val[fs[i].id]
            /\ WriteStruct(fs, again.val) = w
=============================================================================
