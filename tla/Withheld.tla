------------------------------ MODULE Withheld ------------------------------
(***************************************************************************)
(* Documents in which values are withheld: a daemon that leaves a member   *)
(* out or answers null, a redactor that puts its envelope anywhere, even   *)
(* around a whole section, and a value of a type nobody reads.  What the   *)
(* decoder of Observations makes of them, field by field; and what it      *)
(* makes of mount modes as their tokens grow in number.                    *)
(***************************************************************************)
EXTENDS Observations

CONSTANTS
  Subjects,      \* name -> [rows, document]: structs with a complete document
  Tokens,        \* mount mode options, "" for the empty one
  MaxWithheld,   \* bound: values withheld from one document
  MaxTokens      \* bound: options of one mount mode

VARIABLES
  subject,       \* which struct is decoded
  document,      \* what is left of its document
  withheld,      \* path -> how: what was done to it, in any order
  mode           \* the tokens of a mount mode

withheldVars == <<subject, document, withheld, mode>>

Rows == Subjects[subject].rows
Whole == Subjects[subject].document
Paths == UNION {Prefixes(Rows[i].path) \ {<<>>} : i \in DOMAIN Rows}

WithheldInit ==
  /\ subject \in DOMAIN Subjects
  /\ document = Subjects[subject].document
  /\ withheld = [path \in {} |-> "Null"]
  /\ mode = <<>>

With(v, key, x) == Object([k \in DOMAIN v.obj \cup {key} |-> IF k = key THEN x ELSE v.obj[k]])
Without(v, key) == Object([k \in DOMAIN v.obj \ {key} |-> v.obj[k]])
Changed(v, key, how) ==
  CASE how = "Missing"  -> Without(v, key)
    [] how = "Null"     -> With(v, key, Null)
    [] how = "Redacted" -> With(v, key, Redacted)
    [] how = "Unread"   -> With(v, key, Fraction)

Hidden == {path \in DOMAIN withheld : Len(path) = 1}

Withhold(path, how) ==
  /\ Cardinality(DOMAIN withheld) < MaxWithheld /\ mode = <<>>
  /\ path \notin DOMAIN withheld /\ <<path[1]>> \notin Hidden
  /\ document' = IF Len(path) = 1 THEN Changed(document, path[1], how)
                 ELSE With(document, path[1], Changed(document.obj[path[1]], path[2], how))
  /\ withheld' = [p \in DOMAIN withheld \cup {path} |-> IF p = path THEN how ELSE withheld[p]]
  /\ UNCHANGED <<subject, mode>>

AddToken ==
  /\ subject = "Mount" /\ DOMAIN withheld = {} /\ Len(mode) < MaxTokens
  /\ \E token \in Tokens : mode' = Append(mode, token)
  /\ UNCHANGED <<subject, document, withheld>>

WithheldNext ==
  \/ \E path \in Paths, how \in {"Missing", "Null", "Redacted", "Unread"} : Withhold(path, how)
  \/ AddToken

WithheldSpec == WithheldInit /\ [][WithheldNext]_withheldVars
-----------------------------------------------------------------------------
Decoding(doc) ==
  CASE subject = "Container" -> Container(doc)
    [] subject = "Network"   -> Network(doc)
    [] subject = "Volume"    -> Volume(doc)
    [] subject = "Summary"   -> ContainerSummary(doc)
    [] subject = "Support"   -> ResourceSupport(doc)
    [] subject = "Mount"     -> MountObservation(doc)
    [] OTHER                 -> Struct(doc, "Other", Rows, Leaf)

\* What was done to the outermost value a row's path leads through.
Cause(row) ==
  LET met == {n \in DOMAIN row.path : SubSeq(row.path, 1, n) \in DOMAIN withheld}
  IN  IF met = {} THEN "Nothing" ELSE withheld[SubSeq(row.path, 1, Min(met))]

\* The findings about fields that can still be seen.
About == [Mount |-> "mounts", NetworkMode |-> "network_mode", Healthcheck |-> "healthcheck"]
Visible(findings) ==
  {f \in findings : \A i \in DOMAIN Rows : Rows[i].name = About[f[2]] => Cause(Rows[i]) = "Nothing"}

\* Withholding is exact: a field whose value, or any section around it, is
\* withheld is reported as withheld in just that way and yields no data, every
\* other field reads as from the whole document, and a document is refused
\* only for a value of the wrong type, by the first field that meets it.  Findings
\* about visible fields stay, and no others appear; what the daemon says of its
\* resource support is unknown exactly when it is withheld.
WithheldExactly ==
  \A decoding \in {[doc \in {document, Whole} |-> Decoding(doc)]} :
    LET decoded == decoding[document]
        whole == decoding[Whole].ok
        bad == {i \in DOMAIN Rows : Cause(Rows[i]) = "Unread"}
    IN  IF bad # {} THEN decoded = Error("InvalidShape", Rows[Min(bad)].field)
        ELSE /\ ~Failed(decoded)
             /\ \A i \in DOMAIN Rows :
                  LET row == Rows[i] IN
                  decoded.ok[row.name] = IF Cause(row) = "Nothing" THEN whole[row.name]
                                         ELSE Unavailable(Cause(row), row.origin)
             /\ subject = "Container" => Findings(decoded.ok) = Visible(Findings(whole))
             /\ subject = "Support" => \A i \in DOMAIN Rows :
                  Reported(decoded.ok[Rows[i].name]) = "Unknown" <=> Cause(Rows[i]) # "Nothing"

\* "An unknown token cannot conceal a contradictory or duplicated known mode":
\* what a mode means depends on which options it has, not on their order.
Times(class) == Cardinality({i \in DOMAIN mode : ClassOf(mode[i]) = class})
ModeByTokens ==
  LET classes == {"access", "relabel", "propagation", "consistency", "copy"}
      result == ModeOf(mode, "Mount")
  IN  /\ Failed(result) <=> \/ Len(mode) > MaxModeTokens \/ "" \in ToSet(mode)
                            \/ \E class \in classes : Times(class) > 1
      /\ ~Failed(result) =>
           IF \A token \in ToSet(mode) : token \in {"ro", "rw", "z", "Z"}
           THEN ToSet(mode) = {result.ok.access, result.ok.relabel} \ {None}
           ELSE result.ok = [unsupported |-> TRUE]
=============================================================================
