-------------------------------- MODULE Filters --------------------------------
(* The loop that keeps some elements of a list, in their order: the automatic   *)
(* reader's queue without forgotten devices, a subscriber's new entries.        *)
EXTENDS Naturals, Sequences

\* The elements of s that are not in ds.
Without(s, ds) ==
  LET kept[n \in 0 .. Len(s)] == IF n = 0 THEN <<>>
                                 ELSE IF s[n] \in ds THEN kept[n - 1]
                                 ELSE Append(kept[n - 1], s[n])
  IN kept[Len(s)]
=============================================================================
