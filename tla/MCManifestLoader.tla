-------------------------- MODULE MCManifestLoader --------------------------
(***************************************************************************)
(* Small instance of ManifestLoader: a settlement of one date, its         *)
(* correction under the same key, and a second file that claims the        *)
(* revision of the correction.                                             *)
(***************************************************************************)
EXTENDS ManifestLoader, TLC

CONSTANTS first, correction, rival, fileA, fileB

MCPlaced ==
  LET Put(k, f, r, sha, c) ==
        [key |-> k, file |-> f,
         manifest |-> [revision |-> r, sha |-> sha, control |-> c, sound |-> TRUE]]
  IN  [x \in Delivery |->
         CASE x = first      -> Put("k1", fileA, 1, fileA, 2)
           [] x = correction -> Put("k1", fileB, 2, fileB, 3)
           [] x = rival      -> Put("k2", fileA, 2, fileA, 2)]

MCBusinessDate == [k \in Key |-> 1]
MCControl      == [f \in {fileA, fileB} |-> IF f = fileA THEN 2 ELSE 3]
MCSettlement   == [date : {1}, revision : 1 .. 2, sha : {fileA, fileB}]

MCSymmetry == Permutations(Invocation)
=============================================================================
