------------------------------- MODULE Download ------------------------------
(***************************************************************************)
(* The download of the installation project, chunk by chunk, and the two   *)
(* members taken from the ZIP it makes (project/download.go), against an   *)
(* STM whose project an electrician may replace between two chunks.        *)
(*                                                                         *)
(* An operator under a comment that begins with BUG is part of no          *)
(* specification: it is the definition after it with a mistake in it.      *)
(***************************************************************************)
EXTENDS ProjectZIP

VARIABLES
    at,             \* where Download is
    i,              \* its loop variable: the next chunk
    expectedTotal,  \* the total of the first chunk, or -1
    buf, size,      \* the pieces of the ZIP so far, and buf.Len()
    chunk,          \* the answer to the request in flight
    project,        \* the project in the STM
    seen            \* history: what it has been since the download began

vars == <<at, i, expectedTotal, buf, size, chunk, project, seen>>

(* What the STM answers to readFile(0, n, 1) while it holds p: a chunk of  *)
(* p that says which one it is, or a reply without payload.                *)
Answers(p, n) ==
    LET total == Len(PiecesOf[p]) IN
    {[cur |-> k, total |-> total, bin |-> PiecesOf[p][k + 1]] :
        k \in 0..(total - 1)}
    \cup {[cur |-> n, total |-> t, bin |-> Nothing] :
        t \in {0, total, MaxChunks + 1}}

NoChunk == [cur |-> -1, total |-> 0, bin |-> Nothing]

TypeOK ==
    /\ at \in {"loop", "asked", "answered", "done", "failed"}
    /\ i \in Nat /\ expectedTotal \in Int /\ size \in Nat
    /\ buf \in Seq(Pieces)
    /\ chunk \in [cur : Int, total : Int, bin : Pieces]
    /\ project \in Projects /\ seen \subseteq Projects

Init ==
    /\ at = "loop" /\ i = 0 /\ expectedTotal = -1
    /\ buf = <<>> /\ size = 0 /\ chunk = NoChunk
    /\ project \in Projects /\ seen = {project}

EditProject ==
    /\ \E p \in Projects \ {project} : project' = p /\ seen' = seen \cup {p}
    /\ UNCHANGED <<at, i, expectedTotal, buf, size, chunk>>

(* The top of the loop: too many requests, or one more.                    *)
AskChunk ==
    /\ at = "loop"
    /\ at' = IF i >= MaxChunks THEN "failed" ELSE "asked"
    /\ UNCHANGED <<i, expectedTotal, buf, size, chunk, project, seen>>

AnswerChunk ==
    /\ at = "asked"
    /\ at' = "answered"
    /\ chunk' \in Answers(project, i)
    /\ UNCHANGED <<i, expectedTotal, buf, size, project, seen>>

(* BUG: the order of the chunks is not checked.                            *)
AcceptsAnyOrder(c) ==
    /\ c.total \in 1..MaxChunks
    /\ expectedTotal \in {-1, c.total}
    /\ Bytes[c.bin] > 0
    /\ size + Bytes[c.bin] <= MaxZIPBytes

(* The checks of one chunk, each of which ends the download.               *)
Accepts(c) ==
    /\ c.total \in 1..MaxChunks
    /\ expectedTotal \in {-1, c.total}
    /\ c.cur = i
    /\ c.cur < c.total
    /\ Bytes[c.bin] > 0
    /\ size + Bytes[c.bin] <= MaxZIPBytes

(* BUG: the chunk before the last one ends the download.                   *)
TakeChunkEndsEarly(c) ==
    /\ at = "answered" /\ Accepts(c)
    /\ buf' = Append(buf, c.bin)
    /\ size' = size + Bytes[c.bin]
    /\ expectedTotal' = c.total
    /\ chunk' = NoChunk
    /\ IF c.cur + 1 >= c.total - 1
         THEN at' = "done" /\ i' = i
         ELSE at' = "loop" /\ i' = i + 1
    /\ UNCHANGED <<project, seen>>

TakeChunk(c) ==
    /\ at = "answered" /\ Accepts(c)
    /\ buf' = Append(buf, c.bin)
    /\ size' = size + Bytes[c.bin]
    /\ expectedTotal' = c.total
    /\ chunk' = NoChunk
    /\ IF c.cur >= c.total - 1
         THEN at' = "done" /\ i' = i
         ELSE at' = "loop" /\ i' = i + 1
    /\ UNCHANGED <<project, seen>>

RefuseChunk(c) ==
    /\ at = "answered" /\ ~Accepts(c)
    /\ at' = "failed" /\ chunk' = NoChunk
    /\ UNCHANGED <<i, expectedTotal, buf, size, project, seen>>

(* ReadFile returns an error, whatever the STM did or did not answer.      *)
ReadFails ==
    /\ at \in {"asked", "answered"}
    /\ at' = "failed" /\ chunk' = NoChunk
    /\ UNCHANGED <<i, expectedTotal, buf, size, project, seen>>

Next == EditProject \/ AskChunk \/ AnswerChunk
        \/ TakeChunk(chunk) \/ RefuseChunk(chunk) \/ ReadFails

Spec == Init /\ [][Next]_vars

-----------------------------------------------------------------------------
(* Extract: the members of the archive.  An entry has a name, the size its *)
(* directory entry declares, its real size and whether it can be opened    *)
(* and read to its end with the right checksum.                            *)

Readable(e, maxEntryBytes) ==
    e.declared <= maxEntryBytes /\ e.sound /\ e.actual <= maxEntryBytes

Wanted == {"project.ppfx", "project.tpfx"}

(* The entries whose content Extract returns, none when it fails: too many *)
(* entries, a wanted member that is there twice or cannot be read, or no   *)
(* project.ppfx.                                                           *)
Extract(entries, maxEntries, maxEntryBytes) ==
    LET Indices(name) == {k \in 1..Len(entries) : entries[k].name = name}
        fails ==
          \/ Len(entries) > maxEntries
          \/ \E name \in Wanted : \E j, k \in Indices(name) : j # k
          \/ \E name \in Wanted : \E k \in Indices(name) :
                ~Readable(entries[k], maxEntryBytes)
          \/ Indices("project.ppfx") = {}
    IN  IF fails THEN {}
        ELSE {entries[k] : k \in UNION {Indices(name) : name \in Wanted}}

-----------------------------------------------------------------------------
(* Properties.                                                             *)

(* A download that ends well holds a project the STM really had while it   *)
(* ran, whole and in order, if its ZIP opens at all: chunks of two         *)
(* projects never make up a third (the checks of Download, and the         *)
(* checksums readEntry reaches by reading an entry to its end).            *)
LoadedWasThere ==
    at = "done" => \A p \in Projects : buf = PiecesOf[p] => p \in seen

(* Each piece is at its place in a project the STM has held, and all those *)
(* projects have the same number of chunks: an edit during the download    *)
(* that changes the length is noticed (download.go:56).                    *)
PiecesInPlace ==
    /\ Len(buf) <= MaxChunks /\ size <= MaxZIPBytes
    /\ \A k \in 1..Len(buf) : \E p \in seen :
          Len(PiecesOf[p]) = expectedTotal /\ buf[k] = PiecesOf[p][k]
    /\ at = "done" => Len(buf) = expectedTotal

(* The limit on the number of requests (download.go:44) is never what      *)
(* stops a download: the checks on total and cur end it before.            *)
NeverTooManyChunks == at = "loop" => i < MaxChunks
=============================================================================
