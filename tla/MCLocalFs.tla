------------------------------ MODULE MCLocalFs ------------------------------
(* Instances of LocalFs for TLC. *)
EXTENDS LocalFs, TLC

CallSymmetry == Permutations(Uploads) \cup Permutations(Checks) \cup Permutations(Gets)

\* Two uploads without TTL and a delete, with I/O errors and a restart.
Permanent == [uploads |-> 2, deletes |-> 1, ttls |-> {Forever}, maxTime |-> 1,
              maxCrashes |-> 1, ioFaults |-> TRUE]

\* One upload and a restart; with I/O errors, with a TTL or without.
Expiring(faults) ==
    [uploads |-> 1, deletes |-> 0, ttls |-> {1, IF faults THEN Forever ELSE 0},
     maxTime |-> 3, maxCrashes |-> 1, ioFaults |-> faults]

\* Two uploads with a TTL.
Renewed == [uploads |-> 2, deletes |-> 0, ttls |-> {1}, maxTime |-> 2,
            maxCrashes |-> 0, ioFaults |-> FALSE]

Every == {Permanent, Expiring(FALSE), Expiring(TRUE)}
Racing == {Renewed}

=============================================================================
