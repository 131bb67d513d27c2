---------------------------- MODULE PartDocument ----------------------------
(***************************************************************************)
(* The document that the mutation tools edit: the feed and the spindle     *)
(* speed of each operation (src/src/backend.ts).                           *)
(***************************************************************************)
CONSTANTS
    Operations,  \* operations of the document
    Fields,      \* what a change may set: the feed, the spindle speed
    Values       \* quantities; quantities are told apart by equality alone

Documents == [Operations -> [Fields -> Values]]

\* A change sets at least one field.
Changes == UNION {[F -> Values] : F \in (SUBSET Fields) \ {{}}}

\* The document after `changes` to operation op (applyQuantity).
With(d, op, changes) ==
    [d EXCEPT ![op] = [f \in Fields |-> IF f \in DOMAIN changes THEN changes[f] ELSE @[f]]]

\* Operation op has the values of `part`.
Holds(d, op, part) == \A f \in DOMAIN part : d[op][f] = part[f]

\* The values that `changes` to op replaces.
Before(d, op, changes) == [f \in DOMAIN changes |-> d[op][f]]
=============================================================================
