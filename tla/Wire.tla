-------------------------------- MODULE Wire --------------------------------
(***************************************************************************)
(* Values of a decoded JSON text, and the readers that src/lib/offline.ts  *)
(* takes them apart with.  A reader gives {} for undefined.                *)
(***************************************************************************)
EXTENDS Integers, Sequences, SequencesExt, Functions

Absent == [is |-> "absent"]
Null == [is |-> "null"]
Txt(s) == [is |-> "text", text |-> s]   \* Txt("") is blank
Num(n) == [is |-> "number", number |-> n]
Flag(b) == [is |-> "flag", flag |-> b]
List(s) == [is |-> "list", list |-> s]
Obj(f) == [is |-> "object", field |-> f]

IsRecord(v) == v.is = "object"

At(v, key) == IF IsRecord(v) /\ key \in DOMAIN v.field THEN v.field[key] ELSE Absent

Text(v) == IF v.is = "text" /\ v.text # "" THEN {v.text} ELSE {}
String(v) == IF v.is = "text" THEN {v.text} ELSE {}
Number(v) == IF v.is = "number" /\ v.number >= 0 THEN {v.number} ELSE {}
Signed(v) == IF v.is = "number" THEN {v.number} ELSE {}
Boolean(v) == IF v.is = "flag" THEN {v.flag} ELSE {}
IsTrue(v) == Boolean(v) = {TRUE}

Elements(v) == IF v.is = "list" THEN v.list ELSE <<>>
Fields(v) == IF IsRecord(v) THEN v.field ELSE <<>>

\* a ?? b
Else(a, b) == IF a # {} THEN a ELSE b

\* The one element of a reader's answer, or the default.
Or(a, default) == CHOOSE x \in Else(a, {default}) : TRUE

FlatMap(Op(_), list) == FoldLeft(LAMBDA out, v : out \o SetToSeq(Op(v)), <<>>, list)

\* The entries of a record that decode.
DecodeEntries(Op(_), v) == LET f == Fields(v)
                           IN [key \in {k \in DOMAIN f : Op(f[k]) # {}} |-> CHOOSE x \in Op(f[key]) : TRUE]

\* v with one field replaced: what a reply that is damaged in one place is.
Damaged(v, key, junk) == Obj([k \in DOMAIN v.field |-> IF k = key THEN junk ELSE v.field[k]])
=============================================================================
