------------------------------ MODULE Selection -----------------------------
(***************************************************************************)
(* selected_ids() of src/acquisition.rs: which listed containers a         *)
(* selector picks.  The walk calls it on the list it has just read, the    *)
(* decoder calls it again on the list it finds in a capture.               *)
(*                                                                         *)
(* A list is id -> [names, labelled]; a name is the sequence of its parts, *)
(* so that it may be a prefix of another; labelled is whether the entry    *)
(* carries the selector's label.  Ids, names and labels are well formed.   *)
(***************************************************************************)
EXTENDS Integers, FiniteSets, Sequences, Functions

ListSelectors == {"ContainerNames", "NamePrefix", "Label", "AllContainers", "Discovery"}

Named(list, name) == {id \in DOMAIN list : name \in list[id].names}
StartsWith(name, prefix) == Len(prefix) <= Len(name) /\ SubSeq(name, 1, Len(prefix)) = prefix
Prefixed(list, prefix) == {id \in DOMAIN list : \E name \in list[id].names : StartsWith(name, prefix)}

Matches(selector, list) ==
  CASE selector.kind = "AllContainers"  -> DOMAIN list
    [] selector.kind = "Discovery"      -> {}
    [] selector.kind = "Label"          -> {id \in DOMAIN list : list[id].labelled}
    [] selector.kind = "NamePrefix"     -> Prefixed(list, selector.items[1])
    [] selector.kind = "ContainerNames" -> UNION {Named(list, name) : name \in Range(selector.items)}

\* A prefix or a label must pick something, a name exactly one container, and
\* no name may be asked for twice.
SelectionFails(selector, list) ==
  \/ selector.kind \in {"NamePrefix", "Label"} /\ Matches(selector, list) = {}
  \/ /\ selector.kind = "ContainerNames"
     /\ \/ \E name \in Range(selector.items) : Cardinality(Named(list, name)) # 1
        \/ ~IsInjective(selector.items)
=============================================================================
