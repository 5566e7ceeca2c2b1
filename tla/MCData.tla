------------------------------- MODULE MCData -------------------------------
(***************************************************************************)
(* The hash table, and the archives that are read as file systems, are     *)
(* checked in one run.  A behaviour is one of one of them, and part says   *)
(* of which.                                                               *)
(*                                                                         *)
(* For the hash table, a key is its own hash value; as in the code the     *)
(* bucket is taken with the mask numBuckets - 1 although the first table   *)
(* has a number of buckets that is no power of two (10 in the code, 3      *)
(* here).                                                                  *)
(***************************************************************************)
EXTENDS JsiHash, Bitwise, Sequences

VARIABLES part,
          disk, archiveHash, fileHash, link, file, order, clean, crashed,
          builds, mountings, reads

zipVars == <<disk, archiveHash, fileHash, link, file, order, clean, crashed,
             builds, mountings, reads>>

Masked == [k \in Keys, n \in 1..MaxBuckets |-> k & (n - 1)]
MaskIndex(k, n) == Masked[k, n]

-----------------------------------------------------------------------------
\* A program, and an archive made by another program that did not compress; an archive
\* with a table that is cut off.
Z0 == INSTANCE ZipFs WITH Sources <- [x |-> <<1, 2, 3, 4>>, y |-> <<1>>], Dirs <- {"d"},
         FileLists <- {}, Archives <- {"a", "b"}, Initial <- {}, MountPoints <- {"m"},
         Files <- {"f", "g"}, Sizes <- {1, 3}, BUFSIZ <- 2, COMPR_BUF_SIZE <- 3,
         MaxBuilds <- 1, MaxMounts <- 2, MaxReads <- 4

Stored == << <<"exe">>, Z0!LocalHeader(4, 4, FALSE),
             Z0!Plain("x", 1), Z0!Plain("x", 2), Z0!Plain("x", 3), Z0!Plain("x", 4),
             Z0!LocalHeader(1, 1, FALSE), Z0!Plain("y", 1),
             Z0!Toc(<<Z0!Entry("x", 1), Z0!Entry("y", 6)>>) >>
CutOff == << Z0!LocalHeader(1, 1, FALSE), Z0!Plain("y", 1),
             Z0!Toc(<<Z0!Entry("y", 0), Z0!IllFormed>>) >>

Z == INSTANCE ZipFs WITH Sources <- [x |-> <<1, 2, 3, 4>>, y |-> <<1>>], Dirs <- {"d"},
        FileLists <- {<<"x", "y">>, <<"y", "d">>, <<"x", "missing">>},
        Archives <- {"a", "b"},
        Initial <- {[a |-> Z0!NoFile, b |-> Stored], [a |-> <<Z0!Program>>, b |-> Stored],
                    [a |-> Z0!NoFile, b |-> CutOff]},
        MountPoints <- {"m"}, Files <- {"f", "g"}, Sizes <- {1, 3},
        BUFSIZ <- 2, COMPR_BUF_SIZE <- 3, MaxBuilds <- 1, MaxMounts <- 2, MaxReads <- 4

NoZip == /\ disk = <<>> /\ archiveHash = <<>> /\ fileHash = <<>> /\ link = <<>>
         /\ file = <<>> /\ order = <<>> /\ clean = <<>> /\ crashed = FALSE
         /\ builds = 0 /\ mountings = 0 /\ reads = 0

DataInit == \/ part = "hash" /\ Init /\ NoZip
            \/ part = "zip" /\ Init /\ Z!Init

DataNext == \/ part = "hash" /\ Next /\ UNCHANGED <<part, zipVars>>
            \/ part = "zip" /\ Z!Next /\ UNCHANGED <<part, vars>>

DataSpec == DataInit /\ [][DataNext]_<<part, vars, zipVars>>

\* The properties of the archives, under the names they have in ZipFs.
FilesSound == part = "zip" => Z!FilesSound
ZipSound == part = "zip" => Z!ZipSound
=============================================================================
