--------------------------- MODULE Reconciliation ---------------------------
(***************************************************************************)
(* The pure rule of src/axis/domain/reconciliation.py that arbitrates      *)
(* between two assertions about one attribute, and the conversion of an    *)
(* asserted value to the typed column it is stored in                      *)
(* (src/axis/ingestion/persist.py, _value_columns).                        *)
(*                                                                         *)
(* A value is a record [kind, n]:                                          *)
(*   "bool"     False is 0, True is 1                                      *)
(*   "num"      a number, in units of one ten-millionth: the column keeps  *)
(*              six decimals, so a value the column rounds can be written  *)
(*   "numeral"  a string float() reads as that number                      *)
(*   "word"     a string float() rejects; word 0 is "False", word 1 is     *)
(*              "True", word -1 is the empty string                        *)
(***************************************************************************)
EXTENDS Integers

One == 10000000

Bool(b)    == [kind |-> "bool", n |-> b]
Num(x)     == [kind |-> "num", n |-> x]
Numeral(x) == [kind |-> "numeral", n |-> x]
Word(x)    == [kind |-> "word", n |-> x]
Empty      == Word(-1)

Value == [kind : {"bool", "num", "numeral", "word"}, n : Int]

ValueTypes == {"bool", "numeric", "enum"}

Provenance == {"ai_extraction", "partner_feed", "human"}

Precedence == [ai_extraction |-> 1, partner_feed |-> 2, human |-> 3]

PrecedenceOf(p) == Precedence[p]

-----------------------------------------------------------------------------
(* Storage: what a column of each type holds of an asserted value.         *)

\* Numeric(18, 6): rounded half away from zero to a millionth.
Round6(x) == IF x >= 0 THEN 10 * ((x + 5) \div 10)
                       ELSE -(10 * ((5 - x) \div 10))

Truthy(v) == IF v.kind \in {"numeral", "word"} THEN v # Empty ELSE v.n # 0

\* float() raises ValueError on a word; nothing in _value_columns catches it.
CoerceFails(type, v) == type = "numeric" /\ v.kind = "word"

AsBool(v)    == Bool(IF Truthy(v) THEN 1 ELSE 0)
AsNumeric(v) == Num(IF v.kind = "bool" THEN v.n * One ELSE Round6(v.n))
AsEnum(v)    == IF v.kind = "bool" THEN Word(v.n)
                ELSE IF v.kind = "num" THEN Numeral(v.n) ELSE v

Coerce(type, v) == IF type = "bool" THEN AsBool(v)
                   ELSE IF type = "numeric" THEN AsNumeric(v) ELSE AsEnum(v)

-----------------------------------------------------------------------------
(* The rule.                                                               *)

\* Booleans equal booleans only, strings strings only; numbers by value
\* whatever their Python type, which is how they are written here.
ValuesEqual(a, b) == a = b

NoFact == [id |-> 0]

Fact(id, provenance, value) ==
  [id |-> id, provenance |-> provenance, value |-> value]

InsertLive                    == [act |-> "InsertLive"]
NoOp(id)                      == [act |-> "NoOp", id |-> id]
SupersedeLive(id)             == [act |-> "SupersedeLive", id |-> id]
StoreSuperseded(id, conflict) == [act |-> "StoreSuperseded", id |-> id,
                                  conflict |-> conflict]

Reconcile(existing, incoming) ==
  IF existing.id = 0 THEN InsertLive
  ELSE LET ex  == PrecedenceOf(existing.provenance)
           inc == PrecedenceOf(incoming.provenance)
           same == ValuesEqual(existing.value, incoming.value)
       IN  IF inc > ex \/ (inc = ex /\ ~same) THEN SupersedeLive(existing.id)
           ELSE IF inc = ex THEN NoOp(existing.id)
           ELSE StoreSuperseded(existing.id, ~same)
=============================================================================
