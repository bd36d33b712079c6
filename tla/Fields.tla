------------------------------- MODULE Fields -------------------------------
(***************************************************************************)
(* The field-by-field decoding of src/decoder.rs and the mount modes of    *)
(* src/decoder_mount_mode.rs.  A struct literal of the code, one decoding  *)
(* call per field in source order, is a table of rows here: the field's    *)
(* name, its path in the document, the category its errors carry, who sets *)
(* it, and how its value is parsed.                                        *)
(***************************************************************************)
EXTENDS JsonValues

CONSTANTS
  U32Max, PortMax,    \* widths of retry counts and ports
  PortText,           \* native port key -> <<number, protocol>>, for those spelt so
  DigitsText,         \* native host port -> number, for those that are digits
  AssignmentText,     \* environment entry -> its name, up to the first "="
  ModeText,           \* mount mode -> its tokens, split at commas
  LongTexts,          \* the texts longer than MAX_MODE_BYTES
  CanonicalIds,       \* 64 hexadecimal digits
  MaxModeTokens       \* MAX_MODE_TOKENS

Row(name, path, field, kind) ==
  [name |-> name, path |-> path, field |-> field, origin |-> "Effective", kind |-> kind]
Runtime(name, path, field, kind) == [Row(name, path, field, kind) EXCEPT !.origin = "RuntimeAssigned"]

\* A struct: the object's rows in order, or the first error.
Struct(v, field, rows, Parse(_, _)) ==
  IF ~Is(v, "obj") THEN Error("InvalidShape", field)
  ELSE IF Cardinality(DOMAIN v.obj) > MaxItems THEN Error("CollectionTooLarge", None)
  ELSE Then(InOrder([i \in DOMAIN rows |->
              LET row == rows[i] IN
              Observed(v, row.path, row.field, row.origin, LAMBDA x : Parse(row, x))]),
            LAMBDA values : Ok([name \in {rows[i].name : i \in DOMAIN rows} |->
              values[CHOOSE i \in DOMAIN rows : rows[i].name = name]]))
-----------------------------------------------------------------------------
(***************************************************************************)
(* Mount modes: a scan of the tokens that remembers which classes it met.  *)
(***************************************************************************)
ClassOf(token) ==
  CASE token \in {"ro", "rw"} -> "access"
    [] token \in {"z", "Z"} -> "relabel"
    [] token \in {"private", "rprivate", "shared", "rshared", "slave", "rslave"} -> "propagation"
    [] token \in {"consistent", "cached", "delegated"} -> "consistency"
    [] token = "nocopy" -> "copy"
    [] OTHER -> "unknown"

\* None is none of the options.
ASSUME ModeAssumption == MaxModeTokens \in Nat /\ ClassOf(None) = "unknown"

Scan_StopsAtUnknown(acc, token) ==     \* mutant: what follows an unknown option is not looked at
  IF acc.bad \/ acc.unsupported THEN acc
  ELSE IF acc.count >= MaxModeTokens \/ token = "" \/ acc[ClassOf(token)] # None THEN [acc EXCEPT !.bad = TRUE]
  ELSE [acc EXCEPT !.count = @ + 1,
                   ![ClassOf(token)] = IF ClassOf(token) = "unknown" THEN None ELSE token,
                   !.unsupported = @ \/ ClassOf(token) \notin {"access", "relabel"}]
Scan(acc, token) ==
  IF acc.bad THEN acc
  ELSE IF acc.count >= MaxModeTokens \/ token = "" \/ acc[ClassOf(token)] # None THEN [acc EXCEPT !.bad = TRUE]
  ELSE [acc EXCEPT !.count = @ + 1,
                   ![ClassOf(token)] = IF ClassOf(token) = "unknown" THEN None ELSE token,
                   !.unsupported = @ \/ ClassOf(token) \notin {"access", "relabel"}]

Unscanned == [count |-> 0, bad |-> FALSE, unsupported |-> FALSE, access |-> None, relabel |-> None,
              propagation |-> None, consistency |-> None, copy |-> None, unknown |-> None]

Scanned(tokens) ==
  LET acc[n \in 0 .. Len(tokens)] == IF n = 0 THEN Unscanned ELSE Scan(acc[n - 1], tokens[n])
  IN  acc[Len(tokens)]

ModeOf(tokens, field) ==
  LET scan == Scanned(tokens) IN
  IF scan.bad THEN Error("InvalidValue", field)
  ELSE IF scan.unsupported THEN Ok([unsupported |-> TRUE])
  ELSE Ok([access |-> scan.access, relabel |-> scan.relabel])
Mode(v, field) ==
  Then(String(v, field), LAMBDA text :
    IF text \in LongTexts THEN Error("InvalidValue", field) ELSE ModeOf(ModeText[text], field))

\* The mode says one access and the mount's RW flag another.
AccessConflicts(mode, read_write) ==
  /\ mode.value # None /\ read_write.value # None
  /\ ~Is(mode.value, "unsupported")
  /\ mode.value.access = IF read_write.value THEN "ro" ELSE "rw"
-----------------------------------------------------------------------------
(***************************************************************************)
(* Values without a structure of their own.                                *)
(***************************************************************************)
PortKey(text) ==
  IF \/ text \notin DOMAIN PortText
     \/ PortText[text][1] \notin 1 .. PortMax
     \/ PortText[text][2] \notin {"tcp", "udp", "sctp"}
  THEN Error("InvalidValue", "Port") ELSE Ok(PortText[text])

HostPort(v) ==
  Then(String(v, "Port"), LAMBDA text :
    IF text \notin DOMAIN DigitsText THEN Error("InvalidValue", "Port")
    ELSE IF DigitsText[text] > PortMax THEN Error("InvalidValue", "Port") ELSE Ok(DigitsText[text]))

\* An empty host port is unavailable, not unparsable: the engine will choose.
HostPortField(binding, origin) ==
  IF FieldValue(binding, <<"HostPort">>) = Text("") THEN Ok(Unavailable("Empty", origin))
  ELSE Observed(binding, <<"HostPort">>, "Port", origin, HostPort)

HostBinding(v, origin) ==
  Then(Entries(v, "Port", LAMBDA k, item : Ok(item)), LAMBDA entries :
  Then(Observed(v, <<"HostIp">>, "Port", origin, LAMBDA x : String(x, "Port")), LAMBDA host_ip :
  Then(HostPortField(v, origin), LAMBDA host_port : Ok([host_ip |-> host_ip, host_port |-> host_port]))))

PortBindings(v, origin) ==
  Entries(v, "Port", LAMBDA text, bindings :
    Then(PortKey(text), LAMBDA key :
    Then(Observed(bindings, <<>>, "Port", origin, LAMBDA items :
           Items(items, "Port", LAMBDA item : HostBinding(item, origin))),
         LAMBDA found : Ok([key |-> key, bindings |-> found]))))

Command(v, field) ==
  IF Is(v, "str") THEN Ok([shell |-> v.str])
  ELSE Then(StringList(v, field), LAMBDA parts : Ok([exec |-> parts]))

Assignment(v) ==
  Then(String(v, "Environment"), LAMBDA text :
    IF AssignmentText[text] = "" THEN Error("InvalidValue", "Environment")
    ELSE Ok([name |-> AssignmentText[text], text |-> text]))

\* "container:" needs an id behind it; every other unknown mode is a network's name.
NetworkMode(v) ==
  Then(String(v, "NetworkMode"), LAMBDA text :
    Ok([kind |-> IF text \in {"default", "bridge", "host", "none"} THEN text
                 ELSE IF text = "container:id" THEN "container" ELSE "named", native_value |-> text]))

\* The form is the first part; a form with the wrong number of parts is refused.
HealthcheckTest(v) ==
  Then(StringList(v, "Healthcheck"), LAMBDA parts :
    LET form == IF parts = <<>> THEN "" ELSE parts[1] IN
    CASE form = "CMD" /\ Len(parts) >= 2 -> Ok([cmd |-> Tail(parts)])
      [] form = "CMD-SHELL" /\ Len(parts) = 2 -> Ok([cmd_shell |-> parts[2]])
      [] form = "NONE" /\ Len(parts) = 1 -> Ok([none |-> TRUE])
      [] form \notin {"CMD", "CMD-SHELL", "NONE"} -> Ok([other |-> parts])
      [] OTHER -> Error("InvalidValue", "Healthcheck"))

\* Values a row can ask for without further rows.
Leaf(row, v) ==
  LET field == row.field IN
  CASE row.kind = "string"   -> String(v, field)
    [] row.kind = "bool"     -> Typed(v, "bool", field)
    [] row.kind = "signed"   -> Typed(v, "num", field)
    [] row.kind = "unsigned" -> Unsigned(v, field)
    [] row.kind = "u32"      -> Then(Unsigned(v, field), LAMBDA n :
                                  IF n <= U32Max THEN Ok(n) ELSE Error("InvalidValue", field))
    [] row.kind = "strings"  -> StringList(v, field)
    [] row.kind = "entries"  -> MapEntries(v, field)
    [] row.kind = "mode"     -> Mode(v, field)
    [] row.kind = "command"  -> Command(v, field)
    [] row.kind = "environment" -> Items(v, field, Assignment)
    [] row.kind = "port_keys"   -> Entries(v, field, LAMBDA text, item : PortKey(text))
    [] row.kind = "port_bindings" -> PortBindings(v, row.origin)
    [] row.kind = "network_mode"  -> NetworkMode(v)
    [] row.kind = "test"          -> HealthcheckTest(v)
=============================================================================
