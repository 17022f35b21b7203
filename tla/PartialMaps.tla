---------------------------- MODULE PartialMaps ----------------------------
(* A HashMap or BTreeMap is a function whose domain is the set of its keys. *)

Store(map, key, value) == [k \in DOMAIN map \cup {key} |-> IF k = key THEN value ELSE map[k]]

Without(map, keys) == [k \in DOMAIN map \ keys |-> map[k]]
=============================================================================
