---------------------------- MODULE DownloadProofs ---------------------------
(***************************************************************************)
(* What a download may end with, for any projects, chunk sizes and limits. *)
(***************************************************************************)
EXTENDS Download, TLAPS

Loading == at \in {"loop", "asked", "answered"}

(* The position in the loop against the buffer and the expected total.     *)
Position ==
    /\ Loading => i = Len(buf)
    /\ Loading /\ buf = <<>> => expectedTotal = -1
    /\ buf # <<>> => expectedTotal \in 1..MaxChunks
    /\ Loading /\ buf # <<>> => i < expectedTotal

(* The answer in flight is one the STM gave for a project it has held.     *)
Truthful ==
    /\ project \in seen
    /\ at = "answered" => \E p \in seen : chunk \in Answers(p, i)

InPlace ==
    \A k \in 1..Len(buf) : \E p \in seen :
        Len(PiecesOf[p]) = expectedTotal /\ buf[k] = PiecesOf[p][k]

Bounds ==
    /\ Len(buf) <= MaxChunks /\ size <= MaxZIPBytes
    /\ at = "done" => Len(buf) = expectedTotal

IInv == TypeOK /\ Position /\ Truthful /\ InPlace /\ Bounds

LEMMA NothingIsAPiece == Nothing \in Pieces
  BY DEF Pieces

LEMMA PiecesTyped ==
  ASSUME NEW p \in Projects, NEW k \in 1..Len(PiecesOf[p])
  PROVE  PiecesOf[p][k] \in Pieces
  BY DEF Pieces

LEMMA AnswersTyped ==
  ASSUME NEW p \in Projects, NEW n \in Nat, NEW c \in Answers(p, n)
  PROVE  c \in [cur : Int, total : Int, bin : Pieces]
  <1>1. Len(PiecesOf[p]) \in Nat
    BY ProjectsAssumption
  <1>2. CASE \E k \in 0..(Len(PiecesOf[p]) - 1) :
               c = [cur |-> k, total |-> Len(PiecesOf[p]),
                    bin |-> PiecesOf[p][k + 1]]
    <2>1. PICK k \in 0..(Len(PiecesOf[p]) - 1) :
               c = [cur |-> k, total |-> Len(PiecesOf[p]),
                    bin |-> PiecesOf[p][k + 1]]
      BY <1>2
    <2>2. k + 1 \in 1..Len(PiecesOf[p])
      BY <1>1
    <2> QED
      BY <1>1, <2>1, <2>2, PiecesTyped
  <1>3. CASE \E t \in {0, Len(PiecesOf[p]), MaxChunks + 1} :
               c = [cur |-> n, total |-> t, bin |-> Nothing]
    BY <1>1, <1>3, NothingIsAPiece, LimitsAssumption
  <1> QED
    BY <1>2, <1>3 DEF Answers

(* A chunk that passes the checks is the next piece of a project the STM   *)
(* has held.                                                               *)
LEMMA AcceptedIsNext ==
  ASSUME TypeOK, Truthful, at = "answered", Accepts(chunk)
  PROVE  \E p \in seen : /\ Len(PiecesOf[p]) = chunk.total
                         /\ i + 1 \in 1..Len(PiecesOf[p])
                         /\ chunk.bin = PiecesOf[p][i + 1]
  <1>1. PICK p \in seen : chunk \in Answers(p, i)
    BY DEF Truthful
  <1>2. p \in Projects /\ Len(PiecesOf[p]) \in Nat
    BY ProjectsAssumption DEF TypeOK
  <1>3. chunk.bin # Nothing
    BY ProjectsAssumption DEF Accepts
  <1>4. PICK k \in 0..(Len(PiecesOf[p]) - 1) :
               chunk = [cur |-> k, total |-> Len(PiecesOf[p]),
                        bin |-> PiecesOf[p][k + 1]]
    BY <1>1, <1>3 DEF Answers
  <1> QED
    BY <1>2, <1>4 DEF Accepts, TypeOK

LEMMA InitHolds == Init => IInv
  <1> SUFFICES ASSUME Init PROVE IInv
    OBVIOUS
  <1>1. TypeOK
    BY NothingIsAPiece DEF Init, TypeOK, NoChunk
  <1> QED
    BY <1>1, LimitsAssumption
       DEF Init, IInv, Position, Truthful, InPlace, Bounds, Loading

LEMMA EditKeeps == IInv /\ EditProject => IInv'
  BY DEF IInv, TypeOK, Position, Truthful, InPlace, Bounds, Loading,
         EditProject, Answers

LEMMA AskKeeps == IInv /\ AskChunk => IInv'
  BY DEF IInv, TypeOK, Position, Truthful, InPlace, Bounds, Loading, AskChunk

LEMMA AnswerKeeps == IInv /\ AnswerChunk => IInv'
  <1> SUFFICES ASSUME IInv, AnswerChunk PROVE IInv'
    OBVIOUS
  <1>1. chunk' \in [cur : Int, total : Int, bin : Pieces]
    BY AnswersTyped DEF IInv, TypeOK, AnswerChunk
  <1>2. TypeOK'
    BY <1>1 DEF IInv, TypeOK, AnswerChunk
  <1>3. Truthful'
    BY DEF IInv, Truthful, AnswerChunk, Answers
  <1> QED
    BY <1>2, <1>3 DEF IInv, Position, InPlace, Bounds, Loading, AnswerChunk

LEMMA TakeKeeps == IInv /\ TakeChunk(chunk) => IInv'
  <1> SUFFICES ASSUME IInv, TakeChunk(chunk) PROVE IInv'
    OBVIOUS
  <1> USE DEF IInv, Loading
  <1>1. PICK p \in seen : /\ Len(PiecesOf[p]) = chunk.total
                          /\ i + 1 \in 1..Len(PiecesOf[p])
                          /\ chunk.bin = PiecesOf[p][i + 1]
    BY AcceptedIsNext DEF TakeChunk
  <1>2. /\ chunk.cur \in Int /\ chunk.total \in Int /\ chunk.bin \in Pieces
        /\ Bytes[chunk.bin] \in Nat
    BY ProjectsAssumption DEF TypeOK
  <1>3. /\ Len(buf') = Len(buf) + 1 /\ buf' # <<>>
        /\ buf'[Len(buf) + 1] = chunk.bin
        /\ \A k \in 1..Len(buf) : buf'[k] = buf[k]
        /\ buf' \in Seq(Pieces)
    BY <1>2 DEF TakeChunk, TypeOK
  <1>4. i = Len(buf) /\ chunk.cur = i /\ chunk.total \in 1..MaxChunks
        /\ i < chunk.total /\ expectedTotal \in {-1, chunk.total}
    BY DEF TakeChunk, Accepts, Position
  <1>5. TypeOK'
    BY <1>2, <1>3 DEF TakeChunk, TypeOK, NoChunk, Accepts, Pieces
  <1>6. Position'
    BY <1>2, <1>3, <1>4 DEF TakeChunk, Position, TypeOK
  <1>7. Truthful'
    BY DEF TakeChunk, Truthful
  <1>8. InPlace'
    <2> SUFFICES ASSUME NEW k \in 1..Len(buf')
                 PROVE  \E q \in seen' : /\ Len(PiecesOf[q]) = expectedTotal'
                                         /\ buf'[k] = PiecesOf[q][k]
      BY DEF InPlace
    <2>1. CASE k \in 1..Len(buf)
      <3>1. buf # <<>> /\ expectedTotal = chunk.total
        BY <1>4, <2>1, LimitsAssumption DEF Position, TypeOK
      <3> QED
        BY <1>3, <2>1, <3>1 DEF InPlace, TakeChunk
    <2>2. CASE k = Len(buf) + 1
      BY <1>1, <1>3, <1>4, <2>2 DEF TakeChunk
    <2> QED
      BY <1>3, <2>1, <2>2 DEF TypeOK
  <1>9. Bounds'
    BY <1>2, <1>3, <1>4, LimitsAssumption
       DEF TakeChunk, Bounds, TypeOK, Accepts
  <1> QED
    BY <1>5, <1>6, <1>7, <1>8, <1>9

LEMMA RefuseKeeps == IInv /\ (RefuseChunk(chunk) \/ ReadFails) => IInv'
  BY NothingIsAPiece
     DEF IInv, TypeOK, Position, Truthful, InPlace, Bounds, Loading,
         RefuseChunk, ReadFails, NoChunk

LEMMA Invariance == Spec => []IInv
  <1>1. IInv /\ [Next]_vars => IInv'
    <2>1. IInv /\ UNCHANGED vars => IInv'
      BY DEF IInv, TypeOK, Position, Truthful, InPlace, Bounds, Loading, vars,
             Answers
    <2> QED
      BY <2>1, EditKeeps, AskKeeps, AnswerKeeps, TakeKeeps, RefuseKeeps
         DEF Next
  <1> QED
    BY <1>1, InitHolds, PTL DEF Spec

(* The variables of a download always have their types.                    *)
THEOREM TypeCorrect == Spec => []TypeOK
  <1>1. IInv => TypeOK
    BY DEF IInv
  <1> QED
    BY <1>1, Invariance, PTL

(* A download that ends well and opens holds a project the STM had while   *)
(* it ran: edits between two chunks never make up a third project          *)
(* (download.go, Download and readEntry).                                  *)
THEOREM NoMixedProject == Spec => []LoadedWasThere
  <1>1. ASSUME IInv PROVE LoadedWasThere
    <2> SUFFICES ASSUME at = "done", NEW q \in Projects, buf = PiecesOf[q]
                 PROVE  q \in seen
      BY DEF LoadedWasThere
    <2>1. Len(buf) = expectedTotal /\ Len(buf) \in 1..Len(buf)
      BY <1>1, ProjectsAssumption DEF IInv, Bounds, TypeOK
    <2>2. PICK p \in seen : /\ Len(PiecesOf[p]) = expectedTotal
                            /\ buf[Len(buf)] = PiecesOf[p][Len(buf)]
      BY <1>1, <2>1 DEF IInv, InPlace
    <2>3. p \in Projects
      BY <1>1 DEF IInv, TypeOK
    <2> QED
      BY <2>1, <2>2, <2>3, CentralDirectoryAssumption
  <1> QED
    BY <1>1, Invariance, PTL

(* Every piece is where a project of the expected length has it, and a     *)
(* download that ends well has them all (download.go, Download).           *)
THEOREM WholeAndInOrder == Spec => []PiecesInPlace
  <1>1. IInv => PiecesInPlace
    BY DEF IInv, InPlace, Bounds, PiecesInPlace
  <1> QED
    BY <1>1, Invariance, PTL

(* The limit on the number of requests never stops a download: the branch  *)
(* at download.go:44 is not reached.                                       *)
THEOREM LimitNeverReached == Spec => []NeverTooManyChunks
  <1>1. IInv => NeverTooManyChunks
    BY LimitsAssumption
       DEF IInv, TypeOK, Position, Loading, NeverTooManyChunks
  <1> QED
    BY <1>1, Invariance, PTL
=============================================================================
