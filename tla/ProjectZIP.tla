------------------------------ MODULE ProjectZIP -----------------------------
(***************************************************************************)
(* The installation projects an STM can hold: each is a ZIP, in pieces of  *)
(* the size the STM sends them in, and the limits project/download.go sets *)
(* for it.  The last piece holds the central directory, with the checksum  *)
(* of every entry: two projects never end in the same piece.               *)
(***************************************************************************)
EXTENDS Integers, Sequences

CONSTANTS
    Projects,        \* the projects the STM may hold
    PiecesOf,        \* the chunks of each project, in order
    Bytes,           \* the size of a piece
    Nothing,         \* an empty payload
    MaxChunks,       \* limit: requests of a download
    MaxZIPBytes      \* limit: size of the ZIP

Pieces == {Nothing} \cup UNION {{PiecesOf[p][k] : k \in 1..Len(PiecesOf[p])} :
                                    p \in Projects}

ASSUME LimitsAssumption == MaxChunks \in Nat \ {0} /\ MaxZIPBytes \in Nat
ASSUME ProjectsAssumption ==
    /\ \A p \in Projects : PiecesOf[p] \in Seq(Pieces) /\ PiecesOf[p] # <<>>
    /\ Bytes \in [Pieces -> Nat] /\ Bytes[Nothing] = 0
ASSUME CentralDirectoryAssumption ==
    \A p, q \in Projects :
        PiecesOf[p][Len(PiecesOf[p])] = PiecesOf[q][Len(PiecesOf[q])] => p = q
=============================================================================
