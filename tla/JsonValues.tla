----------------------------- MODULE JsonValues -----------------------------
(***************************************************************************)
(* The part of src/decoder.rs every field passes through: how a value is   *)
(* reached in a document, when it counts as unavailable, and how errors    *)
(* leave a decoding.                                                       *)
(*                                                                         *)
(* A JSON value is a record with one field, named for its type, so that    *)
(* serde's as_str() is a test of the record's domain; an object holds a    *)
(* function from keys.  A fraction is a number no accessor accepts.  A     *)
(* result is [ok |-> value] or [error |-> kind, field |-> category]; the   *)
(* index a field category may carry is left out.                           *)
(***************************************************************************)
EXTENDS Integers, FiniteSets, SequencesExt

CONSTANTS
  MaxItems,     \* MAX_COLLECTION_ITEMS
  None

Null == [null |-> TRUE]
Text(s) == [str |-> s]
Flag(b) == [bool |-> b]
Number(n) == [num |-> n]
Fraction == [fraction |-> TRUE]
List(seq) == [arr |-> seq]
Object(f) == [obj |-> f]
Redacted == Object([k \in {"__docker_lens_redacted__"} |-> Flag(TRUE)])

Is(v, type) == type \in DOMAIN v
IsRedacted(v) == v = Redacted
IsEmptyValue(v) ==
  \/ Is(v, "str") /\ v.str = ""
  \/ Is(v, "arr") /\ v.arr = <<>>
  \/ Is(v, "obj") /\ DOMAIN v.obj = {}

Ok(x) == [ok |-> x]
Error(kind, field) == [error |-> kind, field |-> field]
Failed(result) == Is(result, "error")
Then(result, Op(_)) == IF Failed(result) THEN result ELSE Op(result.ok)

\* The first error of a sequence of results, or all their values.
InOrder(results) ==
  LET failed == {i \in DOMAIN results : Failed(results[i])}
  IN  IF failed # {} THEN results[Min(failed)] ELSE Ok([i \in DOMAIN results |-> results[i].ok])

\* The same for the entries of an object, whose order is left open.
OfEntries(results) ==
  LET failed == {k \in DOMAIN results : Failed(results[k])}
  IN  IF failed # {} THEN results[CHOOSE k \in failed : TRUE]
      ELSE Ok([k \in DOMAIN results |-> results[k].ok])
-----------------------------------------------------------------------------
\* field_value: down a path, until something on it is null or redacted.
Missing == [missing |-> TRUE]
Broken == [broken |-> TRUE]
Descend_Through(v, key) ==     \* mutant: an unavailable parent is looked into
  IF v \in {Missing, Broken} THEN v
  ELSE IF ~Is(v, "obj") THEN (IF v = Null THEN Missing ELSE Broken)
  ELSE IF key \in DOMAIN v.obj THEN v.obj[key] ELSE Missing
Descend(v, key) ==
  IF v \in {Null, Missing, Broken} \/ IsRedacted(v) THEN v
  ELSE IF ~Is(v, "obj") THEN Broken
  ELSE IF key \in DOMAIN v.obj THEN v.obj[key] ELSE Missing
FieldValue(root, path) == FoldLeft(Descend, root, path)

Unavailable(availability, origin) ==
  [availability |-> availability, origin |-> origin, value |-> None]
Present(x, v, origin) ==
  [availability |-> IF IsEmptyValue(v) THEN "Empty" ELSE "Present", origin |-> origin, value |-> x]

\* observed: an unavailable value is never parsed, a value that is there must.
Observed(root, path, field, origin, Parse(_)) ==
  LET v == FieldValue(root, path) IN
  CASE v = Broken  -> Error("InvalidShape", field)
    [] v = Missing -> Ok(Unavailable("Missing", origin))
    [] v = Null    -> Ok(Unavailable("Null", origin))
    [] IsRedacted(v) -> Ok(Unavailable("Redacted", origin))
    [] OTHER -> Then(Parse(v), LAMBDA x : Ok(Present(x, v, origin)))

\* Typed values.
Typed(v, type, field) == IF Is(v, type) THEN Ok(v[type]) ELSE Error("InvalidShape", field)
String(v, field) == Typed(v, "str", field)
Unsigned(v, field) ==
  Then(Typed(v, "num", field), LAMBDA n : IF n >= 0 THEN Ok(n) ELSE Error("InvalidShape", field))

\* array() and object(): collections of bounded size.
Items(v, field, Op(_)) ==
  Then(Typed(v, "arr", field), LAMBDA items :
    IF Len(items) > MaxItems THEN Error("CollectionTooLarge", None)
    ELSE InOrder([i \in DOMAIN items |-> Op(items[i])]))
Entries(v, field, Op(_, _)) ==
  Then(Typed(v, "obj", field), LAMBDA entries :
    IF Cardinality(DOMAIN entries) > MaxItems THEN Error("CollectionTooLarge", None)
    ELSE OfEntries([k \in DOMAIN entries |-> Op(k, entries[k])]))

StringList(v, field) == Items(v, field, LAMBDA item : String(item, field))
\* map_entries and labels: each value may be unavailable by itself.
MapEntries(v, field) ==
  Entries(v, field, LAMBDA k, item :
    Observed(item, <<>>, field, "Effective", LAMBDA text : String(text, field)))
=============================================================================
