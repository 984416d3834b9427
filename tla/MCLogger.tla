------------------------------ MODULE MCLogger ------------------------------
(* Values for the constants of Logger, for TLC. *)
EXTENDS Logger, TLC

\* The levels of the repository as shipped, a file level that leaves only
\* errors, and closed files with an open console; errors to stdout and stderr.
MCConfigs ==
  { [file_level |-> 0, stream_level |-> 0, streams |-> {}],
    [file_level |-> 2, stream_level |-> 1, streams |-> {4}],
    [file_level |-> 9, stream_level |-> 2, streams |-> {1, 8}] }

MCSymmetry == Permutations(Threads) \cup Permutations(Files)
=============================================================================
