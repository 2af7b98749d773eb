---------------------------- MODULE ThriftStructs ----------------------------
(***************************************************************************)
(* Thrift structs as the generated code reads and writes them               *)
(* (thrift/gen-go, hyperbahn/gen-go, examples/*/gen-go).  The code of every *)
(* struct is the same but for its fields, so a struct is given by its       *)
(* fields, and reading and writing are one operator each.  ThriftServices   *)
(* gives the fields of every struct.                                        *)
(*                                                                         *)
(* On the wire a struct is the sequence of its fields up to STOP, each with *)
(* an id, a type and a value.                                               *)
(***************************************************************************)
EXTENDS Integers, Sequences, SequencesExt, FiniteSets

Nil == [nil |-> TRUE]
\* A scalar, and the value of one that was not read
Scalar(v) == [v |-> v]
Zero == Scalar("zero")

\* The value of field f in a new struct
Unset(f) == IF f.need \notin {"optional", "union"} /\ f.type \notin {"struct", "list"} THEN Zero ELSE Nil

RECURSIVE ReadStruct(_, _)

\* ReadField<id>: structs and the elements of lists are read in turn.
ReadValue(f, val) ==
    CASE f.type = "struct" -> LET r == ReadStruct(f.of, val.wire) IN [ok |-> r.ok, val |-> [st |-> r.val]]
      [] f.type = "list" ->
            LET rs == [i \in DOMAIN val.wires |-> ReadStruct(f.of, val.wires[i])] IN
            [ok |-> \A i \in DOMAIN rs : rs[i].ok, val |-> [ls |-> [i \in DOMAIN rs |-> rs[i].val]]]
      [] OTHER -> [ok |-> TRUE, val |-> val]

\* mutant: the type of the field is not looked at
Known_AnyType(fs, x) == {i \in DOMAIN fs : fs[i].id = x.id}

\* The field of fs that x is: the id and the type are the declared ones.  Any other is skipped.
Known(fs, x) == {i \in DOMAIN fs : fs[i].id = x.id /\ fs[i].type = x.type}

\* The isset checks after the loop
MissingRequired(fs, seen) == \E i \in DOMAIN fs : fs[i].need = "required" /\ fs[i].id \notin seen

\* Read: one field after the other, the later one of two with the same id replacing the
\* earlier; an error in a nested struct ends it
ReadStruct(fs, wire) ==
    LET New == [id \in {fs[i].id : i \in DOMAIN fs} |->
                  Unset(fs[CHOOSE i \in DOMAIN fs : fs[i].id = id])]
        Step(x, acc) ==
            IF ~acc.ok \/ Known(fs, x) = {} THEN acc
            ELSE LET f == fs[CHOOSE i \in Known(fs, x) : TRUE]
                     r == ReadValue(f, x.val) IN
                 [ok |-> r.ok, val |-> [acc.val EXCEPT ![f.id] = r.val], seen |-> acc.seen \cup {f.id}]
        end == FoldLeft(LAMBDA acc, x : Step(x, acc), [ok |-> TRUE, val |-> New, seen |-> {}], wire)
    IN [ok |-> end.ok /\ ~MissingRequired(fs, end.seen), val |-> end.val]

RECURSIVE WriteStruct(_, _)

\* The value of a field on the wire; a nil struct is written as one without fields.
WriteValue(f, val) ==
    CASE f.type = "struct" -> [wire |-> IF val = Nil THEN <<>> ELSE WriteStruct(f.of, val.st)]
      [] f.type = "list" -> [wires |-> IF val = Nil THEN <<>>
                                       ELSE [i \in DOMAIN val.ls |-> WriteStruct(f.of, val.ls[i])]]
      [] OTHER -> val

\* writeField<id> writes an optional field only if it is set.
Written(f, s) == f.need \notin {"optional", "union"} \/ s[f.id] # Nil

\* Write: the fields in their declared order
WriteStruct(fs, s) ==
    LET ws == SelectSeq(fs, LAMBDA f : Written(f, s)) IN
    [i \in DOMAIN ws |-> [id |-> ws[i].id, type |-> ws[i].type, val |-> WriteValue(ws[i], s[ws[i].id])]]

\* Write fails for a union that has not exactly one field set, at any depth.
RECURSIVE CanWrite(_, _)
CanWrite(fs, s) ==
    /\ (\E i \in DOMAIN fs : fs[i].need = "union")
         => Cardinality({j \in DOMAIN fs : s[fs[j].id] # Nil}) = 1
    /\ \A i \in DOMAIN fs : s[fs[i].id] # Nil =>
         CASE fs[i].type = "struct" -> CanWrite(fs[i].of, s[fs[i].id].st)
           [] fs[i].type = "list" -> \A j \in DOMAIN s[fs[i].id].ls : CanWrite(fs[i].of, s[fs[i].id].ls[j])
           [] OTHER -> TRUE
=============================================================================
