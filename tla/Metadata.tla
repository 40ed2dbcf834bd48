------------------------------ MODULE Metadata ------------------------------
(***************************************************************************)
(* MessageMetadata: the bounded, namespaced headers of a message.          *)
(*                                                                         *)
(* Entries are a function from keys to the sizes of their values; a key    *)
(* counts one byte. What a value says is left to the modules that use it.  *)
(***************************************************************************)
EXTENDS Integers, Sequences, FiniteSets, SequencesExt, OrderedChecks

CONSTANTS MaxEntries, MaxValueBytes, MaxTotalBytes

Empty == <<>>
TotalBytes(entries) == FoldFunction(+, 0, [k \in DOMAIN entries |-> 1 + entries[k]])

\* insert, for a key that validate_key accepts.
MetadataVerdict(entries, key, size) ==
    LET others == [k \in DOMAIN entries \ {key} |-> entries[k]]
    IN  FirstFailure(<<
        <<size > MaxValueBytes, "ValueTooLarge">>,
        <<key \notin DOMAIN entries /\ Cardinality(DOMAIN entries) >= MaxEntries,
          "EntryCapacityExceeded">>,
        <<TotalBytes(others) + 1 + size > MaxTotalBytes, "TotalBytesExceeded">>>>)

Inserted(entries, key, size) ==
    [k \in DOMAIN entries \cup {key} |-> IF k = key THEN size ELSE entries[k]]
Removed(entries, keys) == [k \in DOMAIN entries \ keys |-> entries[k]]

\* A series of insertions, given as pairs, that ends at the first one refused.
InsertAll(entries, pairs) ==
    FoldLeft(LAMBDA so, p :
                IF so.verdict # Ok THEN so
                ELSE [verdict |-> MetadataVerdict(so.entries, p[1], p[2]),
                      entries |-> Inserted(so.entries, p[1], p[2])],
             [verdict |-> Ok, entries |-> entries], pairs)
=============================================================================
