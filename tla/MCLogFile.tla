----------------------------- MODULE MCLogFile -----------------------------
(* Values for the constants of LogFile, for TLC. *)
EXTENDS LogFileRotation

\* A record of two units rotates at once, one of one unit does not.  Buffered
\* and unbuffered, renaming and compressing handles; two backups, so that the
\* third rotation overwrites the oldest.
MCConfigs ==
  [max_file_size : {1}, max_bak_num : {0, 1, 2},
   io_cap : {0, 2}, compress : BOOLEAN]

MCThreads == Permutations(Threads)

=============================================================================
