----------------------- MODULE MCBackupRepository -----------------------
(* Bounds for TLC: a publication; the same with another request and other   *)
(* contents, and with other contents alone; another id with the same key;   *)
(* and another id and key, with a small bundle or a large one.  Two small   *)
(* bundles fill the repository, and so does a large one.                    *)
EXTENDS BackupRepository, TLC
CONSTANTS i1, i2, k1, k2, d1, d2, small, large, p1, p2, p3

MCSizeOf == small :> 1 @@ large :> 2
Request(i, k, d, c) == [id |-> i, key |-> k, digest |-> d, data |-> c]
MCRequests ==
  {Request(i1, k1, d1, small), Request(i1, k1, d2, large), Request(i1, k1, d1, large),
   Request(i2, k1, d1, small), Request(i2, k2, d2, small),
   Request(i2, k2, d2, large)}
Symmetry == Permutations(Procs)
=============================================================================
