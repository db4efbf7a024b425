------------------------ MODULE CaptureSessionProofs ------------------------
(***************************************************************************)
(* What TLAPS proves of CaptureSession for every capacity, chunk length    *)
(* and number of blocks, pauses and faults: where every block is, in what  *)
(* order, which losses are recorded, how chunks tile the tape, what a      *)
(* session that stops leaves behind, and that the threads implement        *)
(* Recorder.  The three parts that need the two waits of the controlling   *)
(* thread not to expire say so.                                            *)
(***************************************************************************)
EXTENDS CaptureSession, FiniteSetTheorems, TLAPS

-----------------------------------------------------------------------------
(* Types *)

LEMMA RangeType == ASSUME NEW S, NEW s \in Seq(S) PROVE Range(s) \subseteq S
BY DEF Range

LEMMA TakePendingType == ASSUME TypeOK, TakePending
                         PROVE  pending' = 0 /\ gaps' \in Seq(Gap)
<1>1. pending # 0 =>
        [reason |-> "queue_overflow", at |-> Len(tape), lost |-> pending] \in Gap
  BY DEF TypeOK, QueueType, DiscType, Gap
<1>. QED
  BY <1>1 DEF TypeOK, DiscType, TakePending

LEMMA ChunkType == ASSUME NEW s \in Nat, NEW e \in Nat, NEW f \in BOOLEAN
                   PROVE  Chunk(s, e, f) \in [start : Nat, end : Nat, final : BOOLEAN]
BY DEF Chunk

LEMMA WriteBlockType ==
  ASSUME TypeOK, NEW b \in Blocks, WriteBlock(b)
  PROVE  /\ tape' \in Seq(Blocks) /\ chunkStart' \in Nat
         /\ chunks' \subseteq [start : Nat, end : Nat, final : BOOLEAN]
<1>1. Len(tape) + 1 \in Nat /\ tape' \in Seq(Blocks)
  BY DEF TypeOK, DiscType, WriteBlock
<1>. QED
  BY <1>1, ChunkType DEF TypeOK, DiscType, WriteBlock

LEMMA WriteFailsType ==
  ASSUME TypeOK, NEW b \in Blocks, NEW rest \in SUBSET Blocks, WriteFails(b, rest)
  PROVE  /\ tape' \in Seq(Blocks) /\ chunkStart' \in Nat /\ broken' \subseteq Blocks
         /\ chunks' \subseteq [start : Nat, end : Nat, final : BOOLEAN]
<1>1. Len(tape) + 1 \in Nat /\ tape' \in Seq(Blocks)
  <2>1. UNCHANGED tape \/ tape' = Append(tape, b)
    BY DEF WriteFails
  <2>. QED
    BY <2>1 DEF TypeOK, DiscType
<1>2. broken' \subseteq Blocks
  BY DEF TypeOK, DiscType, WriteFails
<1>. QED
  BY <1>1, <1>2, ChunkType DEF TypeOK, DiscType, WriteFails

LEMMA EndChunkType ==
  ASSUME TypeOK, NEW f \in BOOLEAN, EndChunk(f)
  PROVE  /\ tape' \in Seq(Blocks) /\ chunkStart' \in Nat
         /\ chunks' \subseteq [start : Nat, end : Nat, final : BOOLEAN]
<1>1. Len(tape) \in Nat
  BY DEF TypeOK, DiscType
<1>. QED
  BY <1>1, ChunkType DEF TypeOK, DiscType, EndChunk


LEMMA CallbackKeepsTypes == ASSUME TypeOK, Callback PROVE TypeOK'
<1>. USE ConstantsAssumption DEF TypeOK, SessionType, QueueType, CallbackType,
       WriterType, CallType, BoundType, Blocks, Holding, States, DrainSteps,
       WriteSteps, queueVars, writerVars, callVars, discVars
<1>1. CASE Deliver
  BY <1>1 DEF Deliver, DiscType
<1>2. CASE PutAccepted
  <2>1. QueueType'
    BY <1>2 DEF PutAccepted, QueueFull
  <2>2. CallbackType'
    BY <1>2 DEF PutAccepted, QueueFull
  <2>. QED
    BY <1>2, <2>1, <2>2 DEF PutAccepted, DiscType
<1>3. CASE PutRefused
  <2>1. QueueType'
    BY <1>3 DEF PutRefused, QueueFull
  <2>2. CallbackType'
    BY <1>3 DEF PutRefused, QueueFull
  <2>. QED
    BY <1>3, <2>1, <2>2 DEF PutRefused, DiscType
<1>4. CASE Tally
  <2>1. QueueType'
    BY <1>4 DEF Tally
  <2>2. CallbackType'
    BY <1>4 DEF Tally
  <2>. QED
    BY <1>4, <2>1, <2>2 DEF Tally, DiscType
<1>. QED
  BY <1>1, <1>2, <1>3, <1>4 DEF Callback

LEMMA WriterKeepsTypes == ASSUME TypeOK, Writer PROVE TypeOK'
<1>. USE ConstantsAssumption DEF TypeOK, SessionType, QueueType, CallbackType,
       WriterType, CallType, BoundType, Blocks, Holding, States, DrainSteps,
       WriteSteps, queueVars, writerVars, callVars, discVars
<1>1. CASE WriterPops
  BY <1>1 DEF WriterPops, DiscType
<1>2. CASE WriterFindsNothing
  BY <1>2 DEF WriterFindsNothing, DiscType
<1>3. CASE WriterRests
  BY <1>3 DEF WriterRests, DiscType
<1>4. CASE WriterBusy
  <2>1. WriterType'
    BY <1>4 DEF WriterBusy
  <2>. QED
    BY <1>4, <2>1 DEF WriterBusy, DiscType
<1>5. CASE WriterTakesLoss
  BY <1>5, TakePendingType DEF WriterTakesLoss, DiscType
<1>6. CASE WriterWrites
  BY <1>6, WriteBlockType DEF WriterWrites, DiscType
<1>7. CASE WriterSettles
  BY <1>7 DEF WriterSettles, DiscType
<1>8. CASE WriterRaises
  BY <1>8, WriteFailsType DEF WriterRaises, Fault, DiscType
<1>9. CASE WriterDies
  <2>1. SessionType'
    BY <1>9 DEF WriterDies, Failed
  <2>2. WriterType'
    BY <1>9 DEF WriterDies, Failed
  <2>. QED
    BY <1>9, <2>1, <2>2 DEF WriterDies, DiscType
<1>. QED
  BY <1>1, <1>2, <1>3, <1>4, <1>5, <1>6, <1>7, <1>8, <1>9 DEF Writer

LEMMA CallKeepsTypes == ASSUME TypeOK, Call PROVE TypeOK'
<1>. USE ConstantsAssumption DEF TypeOK, SessionType, QueueType, CallbackType,
       WriterType, CallType, BoundType, Blocks, Holding, States, DrainSteps,
       WriteSteps, queueVars, writerVars, callVars, discVars
<1>1. CASE Start
  <2>1. SessionType'
    BY <1>1 DEF Start
  <2>2. WriterType'
    BY <1>1 DEF Start
  <2>3. CallType'
    BY <1>1 DEF Start
  <2>. QED
    BY <1>1, <2>1, <2>2, <2>3 DEF Start, DiscType
<1>2. CASE Pause
  BY <1>2 DEF Pause, DiscType
<1>3. CASE Resume
  <2>1. SessionType'
    BY <1>3 DEF Resume
  <2>2. WriterType'
    BY <1>3 DEF Resume
  <2>3. CallType'
    BY <1>3 DEF Resume
  <2>4. DiscType'
    <3>1. [reason |-> "paused", at |-> Len(tape), lost |-> 0] \in Gap
      BY DEF DiscType, Gap
    <3>. QED
      BY <1>3, <3>1 DEF Resume, DiscType
  <2>. QED
    BY <1>3, <2>1, <2>2, <2>3, <2>4 DEF Resume, DiscType
<1>4. CASE Stop
  BY <1>4 DEF Stop, DiscType
<1>5. CASE Abandon
  BY <1>5 DEF Abandon, DiscType
<1>6. CASE ReturnAtOnce
  BY <1>6 DEF ReturnAtOnce, Finished, DiscType
<1>. QED
  BY <1>1, <1>2, <1>3, <1>4, <1>5, <1>6 DEF Call

LEMMA ControllerKeepsTypes == ASSUME TypeOK, Controller PROVE TypeOK'
<1>. USE ConstantsAssumption DEF TypeOK, SessionType, QueueType, CallbackType,
       WriterType, CallType, BoundType, Blocks, Holding, States, DrainSteps,
       WriteSteps, queueVars, writerVars, callVars, discVars
<1>1. CASE StreamOpens
  BY <1>1 DEF StreamOpens, Return, DiscType
<1>2. CASE StreamRefused
  BY <1>2 DEF StreamRefused, Return, Fault, Failed, DiscType
<1>3. CASE StopStream
  <2>1. SessionType'
    BY <1>3 DEF StopStream
  <2>2. CallType'
    BY <1>3 DEF StopStream
  <2>. QED
    BY <1>3, <2>1, <2>2 DEF StopStream, DiscType
<1>4. CASE AwaitDrained
  BY <1>4 DEF AwaitDrained, Drained, AfterDrain, DiscType
<1>5. CASE AwaitTakesOver
  BY <1>5 DEF AwaitTakesOver, TakeQueue, DiscType
<1>6. CASE Shutdown
  <2>1. QueueType'
    BY <1>6 DEF Shutdown
  <2>2. CallType'
    BY <1>6 DEF Shutdown
  <2>. QED
    BY <1>6, <2>1, <2>2 DEF Shutdown, DiscType
<1>7. CASE Join
  <2>1. SessionType'
    BY <1>7 DEF Join, TakeQueue
  <2>2. QueueType'
    BY <1>7 DEF Join, TakeQueue
  <2>3. CallType'
    BY <1>7 DEF Join, TakeQueue
  <2>. QED
    BY <1>7, <2>1, <2>2, <2>3 DEF Join, DiscType
<1>8. CASE DrainTakesLoss
  BY <1>8, TakePendingType DEF DrainTakesLoss, WriteStep, DiscType
<1>9. CASE DrainWrites
  BY <1>9, WriteBlockType DEF DrainWrites, DrainStep, DiscType
<1>10. CASE DrainRaises
  <2>1. SessionType'
    BY <1>10 DEF DrainRaises, Fault, Failed, DrainOver
  <2>2. WriterType'
    BY <1>10 DEF DrainRaises, Fault, Failed, DrainOver
  <2>3. CallType'
    BY <1>10 DEF DrainRaises, Fault, Failed, DrainOver
  <2>4. DiscType'
    <3>1. Head(citems) \in Blocks /\ Tail(citems) \in Seq(Blocks)
      BY <1>10 DEF DrainRaises
    <3>2. Range(Tail(citems)) \subseteq Blocks
      BY <3>1, RangeType
    <3>3. WriteFails(Head(citems), Range(Tail(citems))) /\ UNCHANGED gaps
      BY <1>10 DEF DrainRaises
    <3>. QED
      BY <3>1, <3>2, <3>3, WriteFailsType DEF DiscType
  <2>5. BoundType'
    BY <1>10 DEF DrainRaises, Fault, Failed, DrainOver
  <2>. QED
    BY <1>10, <2>1, <2>2, <2>3, <2>4, <2>5 DEF DrainRaises, DiscType
<1>11. CASE DrainEscapes
  <2>1. QueueType'
    BY <1>11, TakePendingType DEF DrainEscapes, Fault, Return
  <2>2. CallType'
    BY <1>11 DEF DrainEscapes, Fault, Return
  <2>3. DiscType'
    <3>1. Range(citems) \subseteq Blocks
      BY RangeType
    <3>2. TakePending /\ broken' = broken \cup Range(citems)
          /\ UNCHANGED <<tape, chunkStart, chunks>>
      BY <1>11 DEF DrainEscapes
    <3>. QED
      BY <3>1, <3>2, TakePendingType DEF DiscType
  <2>4. BoundType'
    BY <1>11 DEF DrainEscapes, Fault, Return
  <2>. QED
    BY <1>11, <2>1, <2>2, <2>3, <2>4 DEF DrainEscapes, DiscType
<1>12. CASE DrainEnds
  BY <1>12 DEF DrainEnds, DrainOver, DiscType
<1>13. CASE PauseFinishes
  <2>1. CallType'
    BY <1>13 DEF PauseFinishes, Fault, Return
  <2>2. DiscType'
    BY <1>13, EndChunkType DEF PauseFinishes, Fault, Return, DiscType
  <2>3. BoundType'
    <3>1. Fault \/ UNCHANGED faults
      BY <1>13 DEF PauseFinishes
    <3>2. UNCHANGED pauses
      BY <1>13 DEF PauseFinishes
    <3>. QED
      BY <3>1, <3>2 DEF Fault
  <2>. QED
    BY <1>13, <2>1, <2>2, <2>3 DEF PauseFinishes, DiscType
<1>14. CASE StopFinishes
  <2>1. SessionType'
    BY <1>14 DEF StopFinishes, Fault, Return
  <2>2. WriterType'
    BY <1>14 DEF StopFinishes, Fault, Return
  <2>3. CallType'
    BY <1>14 DEF StopFinishes, Fault, Return
  <2>4. DiscType'
    BY <1>14, EndChunkType DEF StopFinishes, Fault, Return, DiscType
  <2>5. BoundType'
    <3>1. Fault \/ UNCHANGED faults
      BY <1>14 DEF StopFinishes
    <3>2. UNCHANGED pauses
      BY <1>14 DEF StopFinishes
    <3>. QED
      BY <3>1, <3>2 DEF Fault
  <2>. QED
    BY <1>14, <2>1, <2>2, <2>3, <2>4, <2>5 DEF StopFinishes, DiscType
<1>15. CASE StopEscapes
  <2>1. CallType'
    BY <1>15 DEF StopEscapes, Fault, Return
  <2>2. DiscType'
    BY <1>15, EndChunkType DEF StopEscapes, Fault, Return, DiscType
  <2>3. BoundType'
    BY <1>15 DEF StopEscapes, Fault, Return
  <2>. QED
    BY <1>15, <2>1, <2>2, <2>3 DEF StopEscapes, DiscType
<1>16. CASE AbandonFinishes
  <2>1. SessionType'
    BY <1>16 DEF AbandonFinishes, Return
  <2>2. WriterType'
    BY <1>16 DEF AbandonFinishes, Return
  <2>3. CallType'
    BY <1>16 DEF AbandonFinishes, Return
  <2>4. DiscType'
    BY <1>16, EndChunkType DEF AbandonFinishes, Return, DiscType
  <2>. QED
    BY <1>16, <2>1, <2>2, <2>3, <2>4 DEF AbandonFinishes, DiscType
<1>17. CASE StartFinishes
  BY <1>17 DEF StartFinishes, Return, DiscType
<1>. QED
  BY <1>1, <1>2, <1>3, <1>4, <1>5, <1>6, <1>7, <1>8, <1>9, <1>10, <1>11, <1>12, <1>13,
     <1>14, <1>15, <1>16, <1>17 DEF Controller

-----------------------------------------------------------------------------
(* TypeOK is inductive. *)

LEMMA InitTypes == Init => TypeOK
<1>. SUFFICES ASSUME Init PROVE TypeOK
  OBVIOUS
<1>. USE ConstantsAssumption DEF Init
<1>1. SessionType /\ WriterType
  BY DEF SessionType, States, WriterType, Holding
<1>2. QueueType
  <2>1. queue \in Seq(Blocks) /\ Len(queue) <= QueueCap
    <3>1. Len(queue) = 0 /\ queue \in Seq(Blocks)
      OBVIOUS
    <3>. QED
      BY <3>1
  <2>2. closed \in BOOLEAN /\ pending \in Nat /\ dropped \subseteq Blocks
    OBVIOUS
  <2>. QED
    BY <2>1, <2>2 DEF QueueType
<1>3. CallbackType
  BY DEF CallbackType
<1>4. CallType
  <2>1. cpc \notin WriteSteps
    BY DEF WriteSteps
  <2>2. citems \in Seq(Blocks)
    OBVIOUS
  <2>3. thread \in BOOLEAN /\ stopEvent \in BOOLEAN
    OBVIOUS
  <2>. QED
    BY <2>1, <2>2, <2>3, Zenon DEF CallType
<1>5. DiscType
  BY DEF DiscType
<1>6. BoundType
  BY DEF BoundType
<1>. QED
  BY <1>1, <1>2, <1>3, <1>4, <1>5, <1>6 DEF TypeOK

LEMMA NextTypes == TypeOK /\ [Next]_vars => TypeOK'
<1>. SUFFICES ASSUME TypeOK, [Next]_vars PROVE TypeOK'
  OBVIOUS
<1>1. CASE Next
  BY <1>1, CallbackKeepsTypes, WriterKeepsTypes, CallKeepsTypes, ControllerKeepsTypes
     DEF Next
<1>2. CASE UNCHANGED vars
  BY <1>2 DEF vars, queueVars, writerVars, callVars, discVars, TypeOK, SessionType,
     QueueType, CallbackType, WriterType, CallType, DiscType, BoundType
<1>. QED
  BY <1>1, <1>2

\* Every variable keeps its type: the queue never exceeds its capacity, and a
\* thread that is about to put, write or drain a block has one in its hands.
THEOREM Typed == Spec => []TypeOK
<1>. QED
  BY InitTypes, NextTypes, PTL DEF Spec

-----------------------------------------------------------------------------
(***************************************************************************)
(* Every delivered block is in exactly one place.                          *)
(*                                                                         *)
(* The pipeline is a concatenation of five pieces.  The proof reasons on   *)
(* the sets of blocks in each piece: no piece holds a block twice, and no  *)
(* two of them hold the same block.                                        *)
(***************************************************************************)

OneEach(s) == \A i, j \in DOMAIN s : s[i] = s[j] => i = j

-----------------------------------------------------------------------------
(* Sequences *)

LEMMA EmptyPiece == ASSUME NEW s, s = <<>> PROVE Range(s) = {} /\ OneEach(s)
<1>1. \A i \in DOMAIN s : FALSE
  OBVIOUS
<1>. QED
  BY <1>1, Zenon DEF Range, OneEach

LEMMA SinglePiece == ASSUME NEW e PROVE Range(<<e>>) = {e} /\ OneEach(<<e>>)
BY DEF Range, OneEach

\* Where the elements of a concatenation come from.
LEMMA CatPlaces ==
  ASSUME NEW s \in Seq(Int), NEW t \in Seq(Int), NEW c, c = s \o t
  PROVE  /\ c \in Seq(Int) /\ DOMAIN c = 1..(Len(s) + Len(t))
         /\ DOMAIN s = 1..Len(s) /\ DOMAIN t = 1..Len(t)
         /\ Len(s) \in Nat /\ Len(t) \in Nat
         /\ \A i \in DOMAIN s : i \in DOMAIN c /\ c[i] = s[i]
         /\ \A i \in DOMAIN t : Len(s) + i \in DOMAIN c /\ c[Len(s) + i] = t[i]
         /\ \A i \in DOMAIN c : \/ i \in DOMAIN s
                                \/ i - Len(s) \in DOMAIN t /\ c[i] = t[i - Len(s)]
<1>1. /\ c \in Seq(Int) /\ DOMAIN c = 1..(Len(s) + Len(t))
      /\ DOMAIN s = 1..Len(s) /\ DOMAIN t = 1..Len(t)
      /\ Len(s) \in Nat /\ Len(t) \in Nat
  OBVIOUS
<1>2. \A i \in DOMAIN s : i \in DOMAIN c /\ c[i] = s[i]
  BY <1>1
<1>3. \A i \in DOMAIN t : Len(s) + i \in DOMAIN c /\ c[Len(s) + i] = t[i]
  BY <1>1
<1>4. \A i \in DOMAIN c : i \in DOMAIN s \/ (i - Len(s) \in DOMAIN t /\ c[i] = t[i - Len(s)])
  BY <1>1
<1>. QED
  BY <1>1, <1>2, <1>3, <1>4

LEMMA CatRange ==
  ASSUME NEW s \in Seq(Int), NEW t \in Seq(Int)
  PROVE  s \o t \in Seq(Int) /\ Range(s \o t) = Range(s) \cup Range(t)
<1>. DEFINE c == s \o t
<1>0. /\ c \in Seq(Int)
      /\ \A i \in DOMAIN s : i \in DOMAIN c /\ c[i] = s[i]
      /\ \A i \in DOMAIN t : Len(s) + i \in DOMAIN c /\ c[Len(s) + i] = t[i]
      /\ \A i \in DOMAIN c : \/ i \in DOMAIN s
                             \/ i - Len(s) \in DOMAIN t /\ c[i] = t[i - Len(s)]
  BY CatPlaces
<1>. HIDE DEF c
<1>1. Range(s) \cup Range(t) \subseteq Range(c)
  <2>1. \A i \in DOMAIN s : s[i] \in Range(c)
    BY <1>0 DEF Range
  <2>2. \A i \in DOMAIN t : t[i] \in Range(c)
    BY <1>0 DEF Range
  <2>. QED
    BY <2>1, <2>2 DEF Range
<1>2. Range(c) \subseteq Range(s) \cup Range(t)
  <2>. SUFFICES ASSUME NEW i \in DOMAIN c PROVE c[i] \in Range(s) \cup Range(t)
    BY DEF Range
  <2>1. \/ i \in DOMAIN s /\ c[i] = s[i]
        \/ i - Len(s) \in DOMAIN t /\ c[i] = t[i - Len(s)]
    BY <1>0
  <2>. QED
    BY <2>1 DEF Range
<1>. QED
  BY <1>0, <1>1, <1>2 DEF c

LEMMA CatOneEach ==
  ASSUME NEW s \in Seq(Int), NEW t \in Seq(Int)
  PROVE  OneEach(s \o t) <=> OneEach(s) /\ OneEach(t) /\ Range(s) \cap Range(t) = {}
<1>. DEFINE c == s \o t
<1>0. c = s \o t
  OBVIOUS
<1>. HIDE DEF c
<1>1. /\ DOMAIN s = 1..Len(s) /\ DOMAIN t = 1..Len(t) /\ Len(s) \in Nat
      /\ \A i \in DOMAIN s : i \in DOMAIN c /\ c[i] = s[i]
      /\ \A i \in DOMAIN t : Len(s) + i \in DOMAIN c /\ c[Len(s) + i] = t[i]
      /\ \A i \in DOMAIN c : \/ i \in DOMAIN s
                             \/ i - Len(s) \in DOMAIN t /\ c[i] = t[i - Len(s)]
      /\ DOMAIN c = 1..(Len(s) + Len(t)) /\ Len(t) \in Nat
  BY <1>0, CatPlaces
<1>2. ASSUME OneEach(c) PROVE OneEach(s) /\ OneEach(t) /\ Range(s) \cap Range(t) = {}
  <2>1. OneEach(s)
    BY <1>1, <1>2 DEF OneEach
  <2>2. OneEach(t)
    <3>. SUFFICES ASSUME NEW i \in DOMAIN t, NEW j \in DOMAIN t, t[i] = t[j] PROVE i = j
      BY DEF OneEach
    <3>1. Len(s) + i = Len(s) + j
      BY <1>1, <1>2 DEF OneEach
    <3>. QED
      BY <1>1, <3>1
  <2>3. \A i \in DOMAIN s, j \in DOMAIN t : i # Len(s) + j
    BY <1>1
  <2>4. \A i \in DOMAIN s, j \in DOMAIN t : s[i] # t[j]
    BY <1>1, <1>2, <2>3 DEF OneEach
  <2>. QED
    BY <2>1, <2>2, <2>4 DEF Range
<1>3. ASSUME OneEach(s), OneEach(t), Range(s) \cap Range(t) = {} PROVE OneEach(c)
  <2>. SUFFICES ASSUME NEW i \in DOMAIN c, NEW j \in DOMAIN c, c[i] = c[j] PROVE i = j
    BY DEF OneEach
  <2>0. \A k \in DOMAIN s, l \in DOMAIN t : s[k] # t[l]
    BY <1>3 DEF Range
  <2>1. CASE i \in DOMAIN s /\ j \in DOMAIN s
    BY <2>1, <1>1, <1>3 DEF OneEach
  <2>2. CASE i \notin DOMAIN s /\ j \notin DOMAIN s
    <3>1. i - Len(s) = j - Len(s)
      BY <2>2, <1>1, <1>3 DEF OneEach
    <3>. QED
      BY <3>1, <1>1
  <2>3. CASE i \in DOMAIN s /\ j \notin DOMAIN s
    BY <2>0, <2>3, <1>1
  <2>4. CASE i \notin DOMAIN s /\ j \in DOMAIN s
    BY <2>0, <2>4, <1>1
  <2>. QED
    BY <2>1, <2>2, <2>3, <2>4
<1>. QED
  BY <1>0, <1>2, <1>3

LEMMA AppendPiece ==
  ASSUME NEW s \in Seq(Int), NEW e \in Int
  PROVE  /\ Append(s, e) \in Seq(Int)
         /\ Range(Append(s, e)) = Range(s) \cup {e}
         /\ OneEach(Append(s, e)) <=> OneEach(s) /\ e \notin Range(s)
<1>. DEFINE t == <<e>>
<1>1. Append(s, e) = s \o t /\ t \in Seq(Int)
  OBVIOUS
<1>2. Range(t) = {e} /\ OneEach(t)
  BY SinglePiece
<1>. HIDE DEF t
<1>3. /\ Range(s \o t) = Range(s) \cup Range(t)
      /\ OneEach(s \o t) <=> OneEach(s) /\ OneEach(t) /\ Range(s) \cap Range(t) = {}
  BY <1>1, CatRange, CatOneEach
<1>4. Append(s, e) \in Seq(Int)
  OBVIOUS
<1>. QED
  BY <1>1, <1>2, <1>3, <1>4, Zenon

LEMMA PopPiece ==
  ASSUME NEW s \in Seq(Int), s # <<>>
  PROVE  /\ Head(s) \in Int /\ Tail(s) \in Seq(Int)
         /\ Range(s) = {Head(s)} \cup Range(Tail(s))
         /\ OneEach(s) <=> OneEach(Tail(s)) /\ Head(s) \notin Range(Tail(s))
<1>. DEFINE h == <<Head(s)>>
<1>1. s = h \o Tail(s) /\ h \in Seq(Int) /\ Tail(s) \in Seq(Int) /\ Head(s) \in Int
  OBVIOUS
<1>2. Range(h) = {Head(s)} /\ OneEach(h)
  BY SinglePiece
<1>. HIDE DEF h
<1>3. /\ Range(h \o Tail(s)) = Range(h) \cup Range(Tail(s))
      /\ OneEach(h \o Tail(s)) <=>
              OneEach(h) /\ OneEach(Tail(s)) /\ Range(h) \cap Range(Tail(s)) = {}
  BY <1>1, CatRange, CatOneEach
<1>. QED
  BY <1>1, <1>2, <1>3, Zenon

-----------------------------------------------------------------------------
(* The controlling thread holds blocks only while it drains. *)

Draining == DrainSteps \cup WriteSteps

CallInv ==
    /\ op = "none" <=> cpc = "ready"
    /\ cpc \notin Draining => citems = <<>>
    /\ cpc \in {"drain", "drainWrite", "shutdown", "join"} => op # "pause"
    /\ cpc \in {"drainLast", "drainLastWrite", "finish"} => op = "pause" \/ ~thread
    /\ cpc = "join" => ~thread
    /\ op \in {"stop", "abandon"} => state = "STOPPING"
    /\ op = "start" => state = "FAILED" \/ (cpc = "open" /\ state = "RUNNING")
    /\ op = "resume" => cpc = "open" /\ state \in {"RUNNING", "FAILED"}
    /\ cpc = "open" => op \in {"start", "resume"}

LEMMA InitCall == Init => CallInv
BY DEF Init, CallInv, Draining, DrainSteps, WriteSteps

LEMMA NextCall == ASSUME TypeOK, CallInv, [Next]_vars PROVE CallInv'
<1>. USE DEF CallInv, Draining, DrainSteps, WriteSteps, callVars
<1>1. CASE Callback
  BY <1>1 DEF Callback, Deliver, PutAccepted, PutRefused, Tally
<1>2. CASE Writer
  BY <1>2 DEF Writer, WriterPops, WriterFindsNothing, WriterRests, WriterBusy,
       WriterTakesLoss, WriterWrites, WriterSettles, WriterRaises, WriterDies, Failed
<1>3. CASE Call
  BY <1>3 DEF Call, Start, Pause, Resume, Stop, Abandon, ReturnAtOnce
<1>4. CASE Controller
  <2>. USE DEF TypeOK, CallType, SessionType
  <2>0. CASE StreamOpens \/ StopStream \/ AwaitDrained
    BY <2>0 DEF StreamOpens, StopStream, AwaitDrained, AfterDrain, Return
  <2>1. CASE StreamRefused \/ Shutdown
    BY <2>1 DEF StreamRefused, Shutdown, Return, Failed
  <2>2. CASE AwaitTakesOver \/ Join
    BY <2>2 DEF AwaitTakesOver, Join, TakeQueue
  <2>3. CASE DrainTakesLoss \/ DrainWrites
    BY <2>3 DEF DrainTakesLoss, DrainWrites, WriteStep, DrainStep
  <2>4. CASE DrainRaises \/ DrainEscapes \/ DrainEnds
    BY <2>4 DEF DrainRaises, DrainEscapes, DrainEnds, DrainOver, Return, Failed
  <2>5. CASE PauseFinishes \/ StopFinishes \/ StopEscapes \/ AbandonFinishes
               \/ StartFinishes
    BY <2>5 DEF PauseFinishes, StopFinishes, StopEscapes, AbandonFinishes,
         StartFinishes, Return
  <2>. QED
    BY <1>4, <2>0, <2>1, <2>2, <2>3, <2>4, <2>5 DEF Controller
<1>5. CASE UNCHANGED vars
  BY <1>5 DEF vars
<1>. QED
  BY <1>1, <1>2, <1>3, <1>4, <1>5 DEF Next

-----------------------------------------------------------------------------
(* The pieces of the pipeline *)

InWriter == IF witem = 0 THEN {} ELSE {witem}
InCallback == IF cb.pc = "put" THEN {cb.block} ELSE {}
Kept == Range(tape) \cup InWriter \cup Range(citems) \cup Range(queue) \cup InCallback

Scattered ==
    /\ OneEach(tape) /\ OneEach(citems) /\ OneEach(queue)
    /\ Range(tape) \cap (InWriter \cup Range(citems) \cup Range(queue) \cup InCallback) = {}
    /\ InWriter \cap (Range(citems) \cup Range(queue) \cup InCallback) = {}
    /\ Range(citems) \cap (Range(queue) \cup InCallback) = {}
    /\ Range(queue) \cap InCallback = {}

Accounted ==
    /\ Kept \cup dropped \cup broken = 1..delivered
    /\ Kept \cap (dropped \cup broken) = {} /\ dropped \cap broken = {}

pieces == <<tape, witem, citems, queue, cb, dropped, broken, delivered>>

LEMMA WiderSeq == ASSUME NEW S, NEW T, S \subseteq T, NEW s \in Seq(S)
                  PROVE  s \in Seq(T)
OBVIOUS

LEMMA Numbers ==
  ASSUME TypeOK
  PROVE  /\ tape \in Seq(Int) /\ citems \in Seq(Int) /\ queue \in Seq(Int)
         /\ witem \in Int /\ cb.block \in Int /\ delivered \in Nat
         /\ Range(tape) \subseteq Int /\ Range(citems) \subseteq Int
         /\ Range(queue) \subseteq Int
<1>1. Blocks \subseteq Int
  BY DEF Blocks
<1>2. /\ tape \in Seq(Int) /\ citems \in Seq(Int) /\ queue \in Seq(Int)
  BY <1>1, WiderSeq DEF TypeOK, DiscType, CallType, QueueType
<1>3. witem \in Int /\ cb.block \in Int /\ delivered \in Nat
  <2>1. witem \in Int
    BY <1>1 DEF TypeOK, WriterType
  <2>2. cb.block \in Int
    <3>1. cb.block \in {0} \/ cb.block \in Blocks
      BY DEF TypeOK, CallbackType
    <3>. QED
      BY <3>1 DEF Blocks
  <2>3. delivered \in Nat
    BY ConstantsAssumption DEF TypeOK, CallbackType
  <2>. QED
    BY <2>1, <2>2, <2>3
<1>. QED
  BY <1>2, <1>3, RangeType

LEMMA NoneTaken == ASSUME CallInv, cpc \notin Draining
                   PROVE  citems = <<>> /\ Range(citems) = {}
<1>1. citems = <<>>
  BY DEF CallInv
<1>. QED
  BY <1>1, EmptyPiece

\* A writer at its queue has no block in hand, and one that writes has one.
LEMMA WriterHolds ==
  ASSUME TypeOK
  PROVE  /\ wpc \in Holding => InWriter = {witem} /\ witem \in Blocks
         /\ wpc \notin Holding => InWriter = {} /\ witem = 0
<1>1. 0 \notin Blocks
  BY DEF Blocks
<1>. QED
  BY <1>1 DEF TypeOK, WriterType, InWriter

\* A set of kept blocks is given up, and counted as dropped or as broken.
LEMMA GiveUp ==
  ASSUME Accounted, NEW L, Kept = Kept' \cup L, Kept' \cap L = {}, UNCHANGED delivered,
         \/ dropped' = dropped \cup L /\ UNCHANGED broken
         \/ broken' = broken \cup L /\ UNCHANGED dropped
  PROVE  Accounted'
BY DEF Accounted

LEMMA CallbackKeepsBlocks ==
  ASSUME TypeOK, Scattered, Accounted, Callback
  PROVE  Scattered' /\ Accounted'
<1>. USE Numbers DEF InWriter, InCallback, Kept
<1>1. CASE Deliver
  <2>. DEFINE b == delivered + 1
  <2>1. /\ UNCHANGED <<tape, witem, citems, queue, dropped, broken>>
        /\ delivered' = b /\ cb.pc = "idle" /\ cb'.pc = "put" /\ cb'.block = b
    BY <1>1 DEF Deliver, queueVars, writerVars, callVars, discVars
  <2>2. InCallback = {} /\ InCallback' = {b} /\ InWriter' = InWriter
    BY <2>1
  <2>. HIDE DEF InCallback, InWriter
  <2>3. Kept' = Kept \cup {b}
    BY <2>1, <2>2
  <2>4. b \notin Kept
    BY DEF Accounted
  <2>5. Scattered'
    BY <2>1, <2>2, <2>4 DEF Scattered
  <2>6. Accounted'
    <3>1. b \notin dropped \cup broken /\ 1..b = (1..delivered) \cup {b}
      BY DEF Accounted
    <3>. HIDE DEF Kept, b
    <3>. QED
      BY <2>1, <2>3, <2>4, <3>1 DEF Accounted
  <2>. QED
    BY <2>5, <2>6
<1>2. CASE PutAccepted
  <2>1. /\ UNCHANGED <<tape, witem, citems, dropped, broken, delivered>>
        /\ queue' = Append(queue, cb.block)
        /\ InCallback = {cb.block} /\ InCallback' = {}
    BY <1>2 DEF PutAccepted, writerVars, callVars, discVars
  <2>2. Range(queue') = Range(queue) \cup {cb.block}
        /\ (OneEach(queue') <=> OneEach(queue) /\ cb.block \notin Range(queue))
    BY <2>1, AppendPiece
  <2>8. Scattered'
    BY <2>1, <2>2 DEF Scattered
  <2>9. Accounted'
    BY <2>1, <2>2 DEF Accounted
  <2>. QED
    BY <2>8, <2>9
<1>3. CASE PutRefused
  <2>1. /\ UNCHANGED <<tape, witem, citems, queue, broken, delivered>>
        /\ dropped' = dropped \cup {cb.block}
        /\ InCallback = {cb.block} /\ InCallback' = {}
    BY <1>3 DEF PutRefused, writerVars, callVars, discVars
  <2>8. Scattered'
    BY <2>1 DEF Scattered
  <2>9. Accounted'
    <3>1. Kept = Kept' \cup {cb.block} /\ Kept' \cap {cb.block} = {}
      BY <2>1 DEF Scattered
    <3>. QED
      BY <2>1, <3>1, GiveUp
  <2>. QED
    BY <2>8, <2>9
<1>4. CASE Tally
  BY <1>4 DEF Tally, writerVars, callVars, discVars, Scattered, Accounted
<1>. QED
  BY <1>1, <1>2, <1>3, <1>4 DEF Callback

LEMMA WriterKeepsBlocks ==
  ASSUME TypeOK, Scattered, Accounted, Writer
  PROVE  Scattered' /\ Accounted'
<1>. USE Numbers DEF InWriter, InCallback, Kept
<1>1. CASE WriterPops
  <2>1. /\ UNCHANGED <<tape, citems, cb, dropped, broken, delivered>>
        /\ queue # <<>> /\ queue' = Tail(queue) /\ witem' = Head(queue)
        /\ wpc = "get"
    BY <1>1 DEF WriterPops, callVars, discVars
  <2>2. InWriter = {}
    BY <2>1, WriterHolds DEF Holding
  <2>3. Range(queue) = {Head(queue)} \cup Range(queue')
        /\ (OneEach(queue) <=> OneEach(queue') /\ Head(queue) \notin Range(queue'))
    BY <2>1, PopPiece
  <2>4. InWriter' = {Head(queue)}
    <3>1. Head(queue) \in Blocks
      BY <2>1 DEF TypeOK, QueueType
    <3>. QED
      BY <2>1, <3>1 DEF Blocks
  <2>8. Scattered'
    BY <2>1, <2>2, <2>3, <2>4 DEF Scattered
  <2>9. Accounted'
    BY <2>1, <2>2, <2>3, <2>4 DEF Accounted
  <2>. QED
    BY <2>8, <2>9
<1>2. CASE WriterWrites
  <2>1. /\ UNCHANGED <<citems, queue, cb, dropped, broken, delivered>>
        /\ tape' = Append(tape, witem) /\ witem' = 0 /\ wpc = "write"
    BY <1>2 DEF WriterWrites, WriteBlock, queueVars, callVars
  <2>2. InWriter = {witem} /\ InWriter' = {}
    BY <2>1, WriterHolds DEF Holding
  <2>3. Range(tape') = Range(tape) \cup {witem}
        /\ (OneEach(tape') <=> OneEach(tape) /\ witem \notin Range(tape))
    BY <2>1, AppendPiece
  <2>8. Scattered'
    BY <2>1, <2>2, <2>3 DEF Scattered
  <2>9. Accounted'
    BY <2>1, <2>2, <2>3 DEF Accounted
  <2>. QED
    BY <2>8, <2>9
<1>3. CASE WriterRaises
  <2>1. /\ UNCHANGED <<citems, queue, cb, dropped, delivered>>
        /\ WriteFails(witem, {}) /\ witem' = 0 /\ wpc = "write"
    BY <1>3 DEF WriterRaises, queueVars, callVars
  <2>2. InWriter = {witem} /\ InWriter' = {}
    BY <2>1, WriterHolds DEF Holding
  <2>3. CASE broken' = broken \cup {witem} /\ UNCHANGED tape
    <3>8. Scattered'
      BY <2>1, <2>2, <2>3 DEF Scattered
    <3>9. Accounted'
      <4>1. Kept = Kept' \cup {witem} /\ Kept' \cap {witem} = {}
        BY <2>1, <2>2, <2>3 DEF Scattered
      <4>. QED
        BY <2>1, <2>3, <4>1, GiveUp
    <3>. QED
      BY <3>8, <3>9
  <2>4. CASE tape' = Append(tape, witem) /\ UNCHANGED broken
    <3>1. Range(tape') = Range(tape) \cup {witem}
          /\ (OneEach(tape') <=> OneEach(tape) /\ witem \notin Range(tape))
      BY <2>4, AppendPiece
    <3>8. Scattered'
      BY <2>1, <2>2, <2>4, <3>1 DEF Scattered
    <3>9. Accounted'
      BY <2>1, <2>2, <2>4, <3>1 DEF Accounted
    <3>. QED
      BY <3>8, <3>9
  <2>. QED
    BY <2>1, <2>3, <2>4 DEF WriteFails
<1>4. CASE WriterFindsNothing \/ WriterRests \/ WriterBusy \/ WriterTakesLoss
             \/ WriterSettles \/ WriterDies
  <2>1. UNCHANGED pieces
    BY <1>4 DEF WriterFindsNothing, WriterRests, WriterBusy, WriterTakesLoss,
         WriterSettles, WriterDies, pieces, queueVars, callVars, discVars
  <2>. QED
    BY <2>1 DEF pieces, Scattered, Accounted
<1>. QED
  BY <1>1, <1>2, <1>3, <1>4 DEF Writer

LEMMA CallKeepsBlocks == ASSUME Call PROVE UNCHANGED pieces
BY DEF Call, Start, Pause, Resume, Stop, Abandon, ReturnAtOnce, pieces, queueVars,
   writerVars, discVars

LEMMA ControllerKeepsBlocks ==
  ASSUME TypeOK, CallInv, Scattered, Accounted, Controller
  PROVE  Scattered' /\ Accounted'
<1>. USE Numbers DEF InWriter, InCallback, Kept
<1>1. CASE AwaitTakesOver \/ Join
  <2>1. /\ UNCHANGED <<tape, witem, cb, dropped, broken, delivered>>
        /\ citems' = queue /\ queue' = <<>>
    BY <1>1 DEF AwaitTakesOver, Join, TakeQueue, writerVars, discVars
  <2>2. Range(citems) = {}
    BY <1>1, NoneTaken DEF AwaitTakesOver, Join, Draining, DrainSteps, WriteSteps
  <2>3. Range(queue') = {} /\ OneEach(queue')
    BY <2>1, EmptyPiece
  <2>8. Scattered'
    BY <2>1, <2>2, <2>3 DEF Scattered
  <2>9. Accounted'
    BY <2>1, <2>2, <2>3 DEF Accounted
  <2>. QED
    BY <2>8, <2>9
<1>2. CASE DrainWrites
  <2>1. /\ UNCHANGED <<witem, queue, cb, dropped, broken, delivered>>
        /\ tape' = Append(tape, Head(citems)) /\ citems' = Tail(citems)
        /\ citems # <<>>
    BY <1>2 DEF DrainWrites, WriteBlock, queueVars, writerVars, TypeOK, CallType
  <2>3. /\ Head(citems) \in Int /\ Range(citems) = {Head(citems)} \cup Range(citems')
        /\ OneEach(citems) <=> OneEach(citems') /\ Head(citems) \notin Range(citems')
    BY <2>1, PopPiece
  <2>4. Range(tape') = Range(tape) \cup {Head(citems)}
        /\ (OneEach(tape') <=> OneEach(tape) /\ Head(citems) \notin Range(tape))
    BY <2>1, <2>3, AppendPiece
  <2>8. Scattered'
    BY <2>1, <2>3, <2>4 DEF Scattered
  <2>9. Accounted'
    BY <2>1, <2>3, <2>4 DEF Accounted
  <2>. QED
    BY <2>8, <2>9
<1>3. CASE DrainRaises
  <2>. DEFINE h == Head(citems)
              rest == Range(Tail(citems))
  <2>1. /\ UNCHANGED <<witem, queue, cb, dropped, delivered>>
        /\ WriteFails(h, rest) /\ citems' = <<>> /\ citems # <<>>
    BY <1>3 DEF DrainRaises, queueVars, writerVars, TypeOK, CallType
  <2>3. /\ h \in Int /\ Range(citems) = {h} \cup rest
        /\ OneEach(citems) => h \notin rest
    BY <2>1, PopPiece
  <2>4. Range(citems') = {} /\ OneEach(citems')
    BY <2>1, EmptyPiece
  <2>. HIDE DEF h, rest
  <2>5. CASE broken' = broken \cup {h} \cup rest /\ UNCHANGED tape
    <3>8. Scattered'
      BY <2>1, <2>3, <2>4, <2>5 DEF Scattered
    <3>9. Accounted'
      <4>1. Kept = Kept' \cup Range(citems) /\ Kept' \cap Range(citems) = {}
        BY <2>1, <2>4, <2>5 DEF Scattered
      <4>2. broken' = broken \cup Range(citems)
        BY <2>3, <2>5
      <4>. QED
        BY <2>1, <4>1, <4>2, GiveUp
    <3>. QED
      BY <3>8, <3>9
  <2>6. CASE tape' = Append(tape, h) /\ broken' = broken \cup rest
    <3>1. Range(tape') = Range(tape) \cup {h}
          /\ (OneEach(tape') <=> OneEach(tape) /\ h \notin Range(tape))
      BY <2>6, <2>3, AppendPiece
    <3>8. Scattered'
      BY <2>1, <2>3, <2>4, <2>6, <3>1 DEF Scattered
    <3>9. Accounted'
      <4>1. Kept = Kept' \cup rest /\ Kept' \cap rest = {}
        BY <2>1, <2>3, <2>4, <3>1 DEF Scattered
      <4>. QED
        BY <2>1, <2>6, <4>1, GiveUp
    <3>. QED
      BY <3>8, <3>9
  <2>. QED
    BY <2>1, <2>5, <2>6 DEF WriteFails
<1>4. CASE DrainEscapes
  <2>1. /\ UNCHANGED <<tape, witem, queue, cb, dropped, delivered>>
        /\ broken' = broken \cup Range(citems) /\ citems' = <<>>
    BY <1>4 DEF DrainEscapes, writerVars
  <2>3. Range(citems') = {} /\ OneEach(citems')
    BY <2>1, EmptyPiece
  <2>4. Scattered'
    BY <2>1, <2>3 DEF Scattered
  <2>5. Kept = Kept' \cup Range(citems) /\ Kept' \cap Range(citems) = {}
    BY <2>1, <2>3 DEF Scattered
  <2>. QED
    BY <2>1, <2>4, <2>5, GiveUp
<1>5. CASE StreamOpens \/ StreamRefused \/ StopStream \/ AwaitDrained \/ Shutdown
             \/ DrainTakesLoss \/ DrainEnds \/ PauseFinishes \/ StopFinishes
             \/ StopEscapes \/ AbandonFinishes \/ StartFinishes
  <2>1. UNCHANGED pieces
    BY <1>5 DEF StreamOpens, StreamRefused, StopStream, AwaitDrained, Shutdown,
         DrainTakesLoss, DrainEnds, PauseFinishes, StopFinishes, StopEscapes,
         AbandonFinishes, StartFinishes, EndChunk, pieces, queueVars, writerVars,
         discVars
  <2>. QED
    BY <2>1 DEF pieces, Scattered, Accounted
<1>. QED
  BY <1>1, <1>2, <1>3, <1>4, <1>5 DEF Controller

BlocksInv == TypeOK /\ CallInv /\ Scattered /\ Accounted

LEMMA InitBlocks == Init => BlocksInv
<1>. SUFFICES ASSUME Init PROVE BlocksInv
  OBVIOUS
<1>1. TypeOK /\ CallInv
  BY InitTypes, InitCall
<1>2. tape = <<>> /\ citems = <<>> /\ queue = <<>>
  BY DEF Init
<1>3. /\ Range(tape) = {} /\ Range(citems) = {} /\ Range(queue) = {}
      /\ OneEach(tape) /\ OneEach(citems) /\ OneEach(queue)
  BY <1>2, EmptyPiece
<1>4. InWriter = {} /\ InCallback = {} /\ dropped = {} /\ broken = {} /\ delivered = 0
  BY DEF Init, InWriter, InCallback
<1>5. Scattered
  BY <1>3, <1>4 DEF Scattered
<1>6. Accounted
  BY <1>3, <1>4 DEF Accounted, Kept
<1>. QED
  BY <1>1, <1>5, <1>6 DEF BlocksInv

LEMMA NextBlocks == BlocksInv /\ [Next]_vars => BlocksInv'
<1>. SUFFICES ASSUME BlocksInv, [Next]_vars PROVE BlocksInv'
  OBVIOUS
<1>1. TypeOK' /\ CallInv'
  BY NextTypes, NextCall DEF BlocksInv
<1>2. CASE Callback \/ Writer \/ Controller
  <2>1. Scattered' /\ Accounted'
    BY <1>2, CallbackKeepsBlocks, WriterKeepsBlocks, ControllerKeepsBlocks DEF BlocksInv
  <2>. QED
    BY <1>1, <2>1 DEF BlocksInv
<1>3. CASE Call \/ UNCHANGED vars
  <2>1. UNCHANGED pieces
    BY <1>3, CallKeepsBlocks DEF vars, queueVars, writerVars, callVars, discVars, pieces
  <2>2. Scattered' /\ Accounted'
    BY <2>1 DEF BlocksInv, pieces, Scattered, Accounted, InWriter, InCallback, Kept
  <2>. QED
    BY <1>1, <2>2 DEF BlocksInv
<1>. QED
  BY <1>2, <1>3 DEF Next

-----------------------------------------------------------------------------
(* The pipeline itself *)

LEMMA EndsOfPipeline ==
  ASSUME TypeOK
  PROVE  /\ Item \in Seq(Int) /\ Range(Item) = InWriter /\ OneEach(Item)
         /\ InHand \in Seq(Int) /\ Range(InHand) = InCallback /\ OneEach(InHand)
<1>1. Item \in Seq(Int) /\ InHand \in Seq(Int)
  BY Numbers DEF Item, InHand
<1>2. Range(Item) = InWriter /\ OneEach(Item)
  <2>1. CASE witem = 0
    BY <2>1, EmptyPiece DEF Item, InWriter
  <2>2. CASE witem # 0
    BY <2>2, SinglePiece DEF Item, InWriter
  <2>. QED
    BY <2>1, <2>2
<1>3. Range(InHand) = InCallback /\ OneEach(InHand)
  <2>1. CASE cb.pc # "put"
    BY <2>1, EmptyPiece DEF InHand, InCallback
  <2>2. CASE cb.pc = "put"
    BY <2>2, SinglePiece DEF InHand, InCallback
  <2>. QED
    BY <2>1, <2>2
<1>. QED
  BY <1>1, <1>2, <1>3

LEMMA WholePipeline ==
  ASSUME TypeOK, Scattered
  PROVE  Pipeline \in Seq(Int) /\ Range(Pipeline) = Kept /\ OneEach(Pipeline)
<1>. DEFINE p2 == tape \o Item
            p3 == p2 \o citems
            p4 == p3 \o queue
<1>1. p2 \in Seq(Int) /\ Range(p2) = Range(tape) \cup InWriter /\ OneEach(p2)
  <2>1. Range(tape) \cap Range(Item) = {}
    BY EndsOfPipeline DEF Scattered
  <2>. QED
    BY <2>1, EndsOfPipeline, Numbers, CatRange, CatOneEach DEF Scattered
<1>. HIDE DEF p2
<1>2. p3 \in Seq(Int) /\ Range(p3) = Range(p2) \cup Range(citems) /\ OneEach(p3)
  <2>1. Range(p2) \cap Range(citems) = {}
    BY <1>1 DEF Scattered
  <2>. QED
    BY <2>1, <1>1, Numbers, CatRange, CatOneEach DEF Scattered
<1>. HIDE DEF p3
<1>3. p4 \in Seq(Int) /\ Range(p4) = Range(p3) \cup Range(queue) /\ OneEach(p4)
  <2>1. Range(p3) \cap Range(queue) = {}
    BY <1>1, <1>2 DEF Scattered
  <2>. QED
    BY <2>1, <1>2, Numbers, CatRange, CatOneEach DEF Scattered
<1>. HIDE DEF p4
<1>4. /\ p4 \o InHand \in Seq(Int) /\ Range(p4 \o InHand) = Range(p4) \cup InCallback
      /\ OneEach(p4 \o InHand)
  <2>1. Range(p4) \cap Range(InHand) = {}
    BY <1>1, <1>2, <1>3, EndsOfPipeline DEF Scattered
  <2>. QED
    BY <2>1, <1>3, EndsOfPipeline, CatRange, CatOneEach
<1>5. Pipeline = p4 \o InHand
  BY DEF Pipeline, p4, p3, p2
<1>6. Range(p4) \cup InCallback = Kept
  BY <1>1, <1>2, <1>3 DEF Kept
<1>. QED
  BY <1>4, <1>5, <1>6

LEMMA AllAccountedFor == BlocksInv => EveryBlockAccountedFor
BY WholePipeline DEF BlocksInv, Accounted, EveryBlockAccountedFor, OneEach

\* Every delivered block is in exactly one place: on the tape, on its way there,
\* dropped, or lost to a write that raised; also when the waits of the controlling
\* thread expire and two threads write.
THEOREM NothingUnaccountedFor == Spec => []EveryBlockAccountedFor
<1>. QED
  BY InitBlocks, NextBlocks, AllAccountedFor, PTL DEF Spec

-----------------------------------------------------------------------------
(***************************************************************************)
(* Blocks reach the tape in the order they were delivered, as long as no   *)
(* wait of the controlling thread expires.  The pieces are ascending, and  *)
(* every block of one is below every block of the pieces behind it; the    *)
(* controlling thread holds blocks only when the writer thread is gone.    *)
(***************************************************************************)

Ascending(s) == \A i, j \in DOMAIN s : i < j => s[i] < s[j]
Below(A, B) == \A a \in A, b \in B : a < b

LEMMA EmptyAscends == ASSUME NEW s, s = <<>> PROVE Ascending(s)
<1>1. \A i \in DOMAIN s : FALSE
  OBVIOUS
<1>. QED
  BY <1>1, Zenon DEF Ascending

LEMMA SingleAscends == ASSUME NEW e PROVE Ascending(<<e>>)
BY DEF Ascending

LEMMA CatAscends ==
  ASSUME NEW s \in Seq(Int), NEW t \in Seq(Int)
  PROVE  Ascending(s \o t) <=> Ascending(s) /\ Ascending(t) /\ Below(Range(s), Range(t))
<1>. DEFINE c == s \o t
<1>0. /\ DOMAIN s = 1..Len(s) /\ DOMAIN t = 1..Len(t) /\ Len(s) \in Nat
      /\ \A i \in DOMAIN s : i \in DOMAIN c /\ c[i] = s[i]
      /\ \A i \in DOMAIN t : Len(s) + i \in DOMAIN c /\ c[Len(s) + i] = t[i]
      /\ \A i \in DOMAIN c : \/ i \in DOMAIN s
                             \/ i - Len(s) \in DOMAIN t /\ c[i] = t[i - Len(s)]
      /\ DOMAIN c = 1..(Len(s) + Len(t)) /\ Len(t) \in Nat
  BY CatPlaces
<1>. HIDE DEF c
<1>1. ASSUME Ascending(c) PROVE Ascending(s) /\ Ascending(t) /\ Below(Range(s), Range(t))
  <2>1. Ascending(s)
    BY <1>0, <1>1 DEF Ascending
  <2>2. Ascending(t)
    BY <1>0, <1>1 DEF Ascending
  <2>3. \A i \in DOMAIN s, j \in DOMAIN t : i < Len(s) + j
    BY <1>0
  <2>4. Below(Range(s), Range(t))
    BY <1>0, <1>1, <2>3 DEF Ascending, Below, Range
  <2>. QED
    BY <2>1, <2>2, <2>4
<1>2. ASSUME Ascending(s), Ascending(t), Below(Range(s), Range(t)) PROVE Ascending(c)
  <2>. SUFFICES ASSUME NEW i \in DOMAIN c, NEW j \in DOMAIN c, i < j PROVE c[i] < c[j]
    BY DEF Ascending
  <2>1. CASE j \in DOMAIN s
    <3>1. i \in DOMAIN s
      BY <2>1, <1>0
    <3>. QED
      BY <2>1, <3>1, <1>0, <1>2 DEF Ascending
  <2>2. CASE i \in DOMAIN s /\ j \notin DOMAIN s
    <3>1. s[i] \in Range(s) /\ t[j - Len(s)] \in Range(t)
      BY <2>2, <1>0 DEF Range
    <3>. QED
      BY <2>2, <3>1, <1>0, <1>2 DEF Below
  <2>3. CASE i \notin DOMAIN s /\ j \notin DOMAIN s
    <3>1. i - Len(s) < j - Len(s)
      BY <1>0
    <3>. QED
      BY <2>3, <3>1, <1>0, <1>2 DEF Ascending
  <2>. QED
    BY <2>1, <2>2, <2>3, <1>0
<1>. QED
  BY <1>1, <1>2 DEF c

LEMMA AppendAscends ==
  ASSUME NEW s \in Seq(Int), NEW e \in Int
  PROVE  Ascending(Append(s, e)) <=> Ascending(s) /\ Below(Range(s), {e})
<1>. DEFINE t == <<e>>
<1>1. Append(s, e) = s \o t /\ t \in Seq(Int)
  OBVIOUS
<1>2. Range(t) = {e} /\ Ascending(t)
  BY SinglePiece, SingleAscends
<1>. HIDE DEF t
<1>. QED
  BY <1>1, <1>2, CatAscends

LEMMA PopAscends ==
  ASSUME NEW s \in Seq(Int), s # <<>>
  PROVE  Ascending(s) <=> Ascending(Tail(s)) /\ Below({Head(s)}, Range(Tail(s)))
<1>. DEFINE h == <<Head(s)>>
<1>1. s = h \o Tail(s) /\ h \in Seq(Int) /\ Tail(s) \in Seq(Int)
  OBVIOUS
<1>2. Range(h) = {Head(s)} /\ Ascending(h)
  BY SinglePiece, SingleAscends
<1>. HIDE DEF h
<1>3. Ascending(h \o Tail(s)) <=>
        Ascending(h) /\ Ascending(Tail(s)) /\ Below(Range(h), Range(Tail(s)))
  BY <1>1, CatAscends
<1>. QED
  BY <1>1, <1>2, <1>3, Zenon

-----------------------------------------------------------------------------
(* The controlling thread takes blocks only from a writer that is gone. *)

Gone == {"none", "exited"}

WriterGone ==
    /\ ~thread /\ cpc # "join" => wpc \in Gone
    /\ cpc \in Draining => wpc \in Gone

LEMMA NextWriterGone ==
  ASSUME ~MayTimeOut, TypeOK, CallInv, WriterGone, [Next]_vars
  PROVE  WriterGone'
<1>. USE DEF WriterGone, Gone, Draining, DrainSteps, WriteSteps, queueVars,
       writerVars, callVars
<1>1. CASE Callback
  BY <1>1 DEF Callback, Deliver, PutAccepted, PutRefused, Tally
<1>2. CASE Writer
  BY <1>2 DEF Writer, WriterPops, WriterFindsNothing, WriterRests, WriterBusy,
       WriterTakesLoss, WriterWrites, WriterSettles, WriterRaises, WriterDies
<1>3. CASE Call
  BY <1>3 DEF Call, Start, Pause, Resume, Stop, Abandon, ReturnAtOnce, CallInv, TypeOK,
       WriterType
<1>4. CASE Controller
  <2>1. CASE StreamOpens \/ StreamRefused \/ StopStream \/ AwaitDrained \/ Shutdown
    BY <2>1 DEF StreamOpens, StreamRefused, StopStream, AwaitDrained, Shutdown,
         AfterDrain, Return, TypeOK, CallType
  <2>2. CASE AwaitTakesOver \/ Join
    BY <2>2 DEF AwaitTakesOver, Join, WriterAlive, TakeQueue
  <2>3. CASE DrainTakesLoss \/ DrainWrites
    BY <2>3 DEF DrainTakesLoss, DrainWrites, WriteStep, DrainStep
  <2>4. CASE DrainRaises \/ DrainEscapes \/ DrainEnds
    BY <2>4 DEF DrainRaises, DrainEscapes, DrainEnds, DrainOver, Return
  <2>5. CASE PauseFinishes \/ StopFinishes \/ StopEscapes \/ AbandonFinishes
               \/ StartFinishes
    BY <2>5 DEF PauseFinishes, StopFinishes, StopEscapes, AbandonFinishes,
         StartFinishes, Return
  <2>. QED
    BY <1>4, <2>1, <2>2, <2>3, <2>4, <2>5 DEF Controller
<1>5. CASE UNCHANGED vars
  BY <1>5 DEF vars
<1>. QED
  BY <1>1, <1>2, <1>3, <1>4, <1>5 DEF Next

-----------------------------------------------------------------------------
(* The order of the pieces *)

InOrder ==
    /\ Ascending(tape) /\ Ascending(citems) /\ Ascending(queue)
    /\ Below(Range(tape), InWriter \cup Range(citems) \cup Range(queue) \cup InCallback)
    /\ Below(InWriter \cup Range(citems), Range(queue) \cup InCallback)
    /\ Below(Range(queue), InCallback)

LEMMA NoItem == ASSUME TypeOK, WriterGone, cpc \in Draining PROVE InWriter = {}
BY WriterHolds DEF WriterGone, Gone, Holding

LEMMA NoTaken == ASSUME CallInv, WriterGone, wpc \notin Gone PROVE Range(citems) = {}
BY NoneTaken DEF WriterGone

LEMMA CallbackInOrder == ASSUME TypeOK, Accounted, InOrder, Callback PROVE InOrder'
<1>. USE Numbers DEF InWriter, InCallback, Below
<1>1. CASE Deliver
  <2>. DEFINE b == delivered + 1
  <2>1. /\ UNCHANGED <<tape, witem, citems, queue>>
        /\ cb.pc = "idle" /\ cb'.pc = "put" /\ cb'.block = b
    BY <1>1 DEF Deliver, queueVars, writerVars, callVars, discVars
  <2>2. InCallback' = {b} /\ InWriter' = InWriter
    BY <2>1
  <2>. HIDE DEF InCallback, InWriter
  <2>3. \A k \in Kept : k < b
    BY DEF Accounted
  <2>4. \A k \in Range(tape) \cup InWriter \cup Range(citems) \cup Range(queue) : k < b
    BY <2>3 DEF Kept
  <2>. QED
    BY <2>1, <2>2, <2>4 DEF InOrder
<1>2. CASE PutAccepted
  <2>1. /\ UNCHANGED <<tape, witem, citems>> /\ queue' = Append(queue, cb.block)
        /\ InCallback = {cb.block} /\ InCallback' = {}
    BY <1>2 DEF PutAccepted, writerVars, callVars, discVars
  <2>2. /\ Range(queue') = Range(queue) \cup {cb.block}
        /\ Ascending(queue') <=> Ascending(queue) /\ Below(Range(queue), {cb.block})
    BY <2>1, AppendPiece, AppendAscends
  <2>. QED
    BY <2>1, <2>2 DEF InOrder
<1>3. CASE PutRefused
  <2>1. UNCHANGED <<tape, witem, citems, queue>> /\ InCallback' = {}
    BY <1>3 DEF PutRefused, writerVars, callVars, discVars
  <2>. QED
    BY <2>1 DEF InOrder
<1>4. CASE Tally
  BY <1>4 DEF Tally, writerVars, callVars, discVars, InOrder
<1>. QED
  BY <1>1, <1>2, <1>3, <1>4 DEF Callback

LEMMA WriterInOrder ==
  ASSUME TypeOK, CallInv, WriterGone, InOrder, Writer PROVE InOrder'
<1>. USE Numbers DEF InWriter, InCallback, Below
<1>1. CASE WriterPops
  <2>1. /\ UNCHANGED <<tape, citems, cb>> /\ wpc = "get"
        /\ queue # <<>> /\ queue' = Tail(queue) /\ witem' = Head(queue)
    BY <1>1 DEF WriterPops, callVars, discVars
  <2>2. Range(citems) = {}
    BY <2>1, NoTaken DEF Gone
  <2>3. /\ Range(queue) = {Head(queue)} \cup Range(queue')
        /\ Ascending(queue) <=> Ascending(queue') /\ Below({Head(queue)}, Range(queue'))
    BY <2>1, PopPiece, PopAscends
  <2>4. InWriter' \subseteq {Head(queue)}
    BY <2>1
  <2>. QED
    BY <2>1, <2>2, <2>3, <2>4 DEF InOrder
<1>2. CASE WriterWrites \/ WriterRaises
  <2>1. /\ UNCHANGED <<citems, queue, cb>> /\ witem' = 0 /\ wpc = "write"
        /\ UNCHANGED tape \/ tape' = Append(tape, witem)
    BY <1>2 DEF WriterWrites, WriteBlock, WriterRaises, WriteFails, queueVars, callVars
  <2>2. InWriter = {witem} /\ InWriter' = {} /\ Range(citems) = {}
    BY <2>1, WriterHolds, NoTaken DEF Holding, Gone
  <2>3. CASE UNCHANGED tape
    BY <2>1, <2>2, <2>3 DEF InOrder
  <2>4. CASE tape' = Append(tape, witem)
    <3>1. /\ Range(tape') = Range(tape) \cup {witem}
          /\ Ascending(tape') <=> Ascending(tape) /\ Below(Range(tape), {witem})
      BY <2>4, AppendPiece, AppendAscends
    <3>. QED
      BY <2>1, <2>2, <3>1 DEF InOrder
  <2>. QED
    BY <2>1, <2>3, <2>4
<1>3. CASE WriterFindsNothing \/ WriterRests \/ WriterBusy \/ WriterTakesLoss
             \/ WriterSettles \/ WriterDies
  <2>1. UNCHANGED pieces
    BY <1>3 DEF WriterFindsNothing, WriterRests, WriterBusy, WriterTakesLoss,
         WriterSettles, WriterDies, pieces, queueVars, callVars, discVars
  <2>. QED
    BY <2>1 DEF pieces, InOrder
<1>. QED
  BY <1>1, <1>2, <1>3 DEF Writer

LEMMA ControllerInOrder ==
  ASSUME TypeOK, CallInv, WriterGone, InOrder, Controller PROVE InOrder'
<1>. USE Numbers DEF InWriter, InCallback, Below
<1>1. CASE AwaitTakesOver \/ Join
  <2>1. UNCHANGED <<tape, witem, cb>> /\ citems' = queue /\ queue' = <<>>
    BY <1>1 DEF AwaitTakesOver, Join, TakeQueue, writerVars, discVars
  <2>2. Range(citems) = {}
    BY <1>1, NoneTaken DEF AwaitTakesOver, Join, Draining, DrainSteps, WriteSteps
  <2>3. Range(queue') = {} /\ Ascending(queue')
    BY <2>1, EmptyPiece, EmptyAscends
  <2>. QED
    BY <2>1, <2>2, <2>3 DEF InOrder
<1>2. CASE DrainWrites \/ DrainRaises
  <2>. DEFINE h == Head(citems)
  <2>1. /\ UNCHANGED <<witem, queue, cb>> /\ citems # <<>> /\ cpc \in Draining
        /\ UNCHANGED tape \/ tape' = Append(tape, h)
        /\ citems' = Tail(citems) \/ citems' = <<>>
    BY <1>2 DEF DrainWrites, WriteBlock, DrainRaises, WriteFails, queueVars, writerVars,
         TypeOK, CallType, Draining
  <2>2. InWriter = {}
    BY <2>1, NoItem
  <2>3. /\ h \in Int /\ Range(citems) = {h} \cup Range(Tail(citems))
        /\ Ascending(citems) <=>
              Ascending(Tail(citems)) /\ Below({h}, Range(Tail(citems)))
    BY <2>1, PopPiece, PopAscends
  <2>4. /\ Range(citems') \subseteq Range(Tail(citems))
        /\ InOrder => Ascending(citems')
    <3>1. CASE citems' = Tail(citems)
      BY <2>3, <3>1 DEF InOrder
    <3>2. CASE citems' = <<>>
      BY <3>2, EmptyPiece, EmptyAscends
    <3>. QED
      BY <2>1, <3>1, <3>2
  <2>. HIDE DEF h
  <2>5. CASE UNCHANGED tape
    BY <2>1, <2>2, <2>3, <2>4, <2>5 DEF InOrder
  <2>6. CASE tape' = Append(tape, h)
    <3>1. /\ Range(tape') = Range(tape) \cup {h}
          /\ Ascending(tape') <=> Ascending(tape) /\ Below(Range(tape), {h})
      BY <2>3, <2>6, AppendPiece, AppendAscends
    <3>. QED
      BY <2>1, <2>2, <2>3, <2>4, <3>1 DEF InOrder
  <2>. QED
    BY <2>1, <2>5, <2>6
<1>3. CASE DrainEscapes
  <2>1. UNCHANGED <<tape, witem, queue, cb>> /\ citems' = <<>>
    BY <1>3 DEF DrainEscapes, writerVars
  <2>2. Range(citems') = {} /\ Ascending(citems')
    BY <2>1, EmptyPiece, EmptyAscends
  <2>. QED
    BY <2>1, <2>2 DEF InOrder
<1>4. CASE StreamOpens \/ StreamRefused \/ StopStream \/ AwaitDrained \/ Shutdown
             \/ DrainTakesLoss \/ DrainEnds \/ PauseFinishes \/ StopFinishes
             \/ StopEscapes \/ AbandonFinishes \/ StartFinishes
  <2>1. UNCHANGED <<tape, witem, citems, queue, cb>>
    BY <1>4 DEF StreamOpens, StreamRefused, StopStream, AwaitDrained, Shutdown,
         DrainTakesLoss, DrainEnds, PauseFinishes, StopFinishes, StopEscapes,
         AbandonFinishes, StartFinishes, EndChunk, queueVars, writerVars, discVars
  <2>. QED
    BY <2>1 DEF InOrder
<1>. QED
  BY <1>1, <1>2, <1>3, <1>4 DEF Controller

OrderInv == BlocksInv /\ WriterGone /\ InOrder

LEMMA InitOrder == Init => OrderInv
<1>. SUFFICES ASSUME Init PROVE OrderInv
  OBVIOUS
<1>1. BlocksInv
  BY InitBlocks
<1>2. tape = <<>> /\ citems = <<>> /\ queue = <<>>
  BY DEF Init
<1>3. /\ Range(tape) = {} /\ Range(citems) = {} /\ Range(queue) = {}
      /\ Ascending(tape) /\ Ascending(citems) /\ Ascending(queue)
  BY <1>2, EmptyPiece, EmptyAscends
<1>4. InWriter = {} /\ InCallback = {}
  BY DEF Init, InWriter, InCallback
<1>5. InOrder
  BY <1>3, <1>4 DEF InOrder, Below
<1>6. WriterGone
  BY DEF Init, WriterGone, Gone
<1>. QED
  BY <1>1, <1>5, <1>6 DEF OrderInv

LEMMA NextOrder == ASSUME ~MayTimeOut, OrderInv, [Next]_vars PROVE OrderInv'
<1>1. BlocksInv' /\ WriterGone'
  BY NextBlocks, NextWriterGone DEF OrderInv, BlocksInv
<1>2. CASE Callback \/ Writer \/ Controller
  <2>1. InOrder'
    BY <1>2, CallbackInOrder, WriterInOrder, ControllerInOrder DEF OrderInv, BlocksInv
  <2>. QED
    BY <1>1, <2>1 DEF OrderInv
<1>3. CASE Call \/ UNCHANGED vars
  <2>1. UNCHANGED pieces
    BY <1>3, CallKeepsBlocks DEF vars, queueVars, writerVars, callVars, discVars, pieces
  <2>2. InOrder'
    BY <2>1 DEF OrderInv, pieces, InOrder, InWriter, InCallback, Below
  <2>. QED
    BY <1>1, <2>2 DEF OrderInv
<1>. QED
  BY <1>2, <1>3 DEF Next

LEMMA PipelineAscends == ASSUME OrderInv PROVE Ascending(Pipeline)
<1>. USE DEF OrderInv, BlocksInv
<1>1. Ascending(Item) /\ Ascending(InHand)
  BY EmptyAscends, SingleAscends DEF Item, InHand
<1>2. InWriter = {} \/ Range(citems) = {}
  BY NoItem, NoneTaken
<1>. DEFINE p2 == tape \o Item
            p3 == p2 \o citems
            p4 == p3 \o queue
<1>3. p2 \in Seq(Int) /\ Range(p2) = Range(tape) \cup InWriter /\ Ascending(p2)
  <2>1. Below(Range(tape), Range(Item))
    BY EndsOfPipeline DEF InOrder, Below
  <2>. QED
    BY <1>1, <2>1, EndsOfPipeline, Numbers, CatRange, CatAscends DEF InOrder
<1>. HIDE DEF p2
<1>4. p3 \in Seq(Int) /\ Range(p3) = Range(p2) \cup Range(citems) /\ Ascending(p3)
  <2>1. Below(Range(p2), Range(citems))
    BY <1>2, <1>3 DEF InOrder, Below
  <2>. QED
    BY <2>1, <1>3, Numbers, CatRange, CatAscends DEF InOrder
<1>. HIDE DEF p3
<1>5. p4 \in Seq(Int) /\ Range(p4) = Range(p3) \cup Range(queue) /\ Ascending(p4)
  <2>1. Below(Range(p3), Range(queue))
    BY <1>3, <1>4 DEF InOrder, Below
  <2>. QED
    BY <2>1, <1>4, Numbers, CatRange, CatAscends DEF InOrder
<1>. HIDE DEF p4
<1>6. Ascending(p4 \o InHand)
  <2>1. Below(Range(p4), Range(InHand))
    BY <1>3, <1>4, <1>5, EndsOfPipeline DEF InOrder, Below
  <2>. QED
    BY <1>1, <2>1, <1>5, EndsOfPipeline, CatAscends
<1>7. Pipeline = p4 \o InHand
  BY DEF Pipeline, p4, p3, p2
<1>. QED
  BY <1>6, <1>7

\* Unless a wait of the controlling thread expires, the tape and everything on
\* its way to it are in the order of delivery (session.py:11-12), for every queue
\* capacity, chunk length and number of blocks, pauses and faults.
THEOREM InOrderOfArrival == ASSUME ~MayTimeOut PROVE Spec => []ArrivalOrder
<1>1. OrderInv /\ [Next]_vars => OrderInv'
  BY NextOrder
<1>2. OrderInv => ArrivalOrder
  BY PipelineAscends DEF Ascending, ArrivalOrder
<1>. QED
  BY InitOrder, <1>1, <1>2, PTL DEF Spec

-----------------------------------------------------------------------------
(***************************************************************************)
(* The gaps recorded and the loss still waiting add up to the dropped      *)
(* counter.  What a list of gaps stands for is defined by recursion on the *)
(* list; that the recursion has one solution, and what one more gap adds   *)
(* to it, are shown by a counterexample of least length.                   *)
(***************************************************************************)

LEMMA LeastNumber == ASSUME NEW I, I \subseteq Nat, I # {}
                     PROVE  \E n \in I : \A m \in I : n <= m
<1>1. PICK n \in I : \A m \in I : ~ (<<m, n>> \in OpToRel(<, Nat))
  BY NatLessThanWellFounded, WFMin
<1>2. \A m \in I : ~(m < n)
  BY <1>1 DEF OpToRel
<1>. QED
  BY <1>2

\* s[i] is what the first i gaps of g stand for.
Sums(s, g, n) ==
    /\ s[0] = 0
    /\ \A i \in 1..n : s[i] = s[i - 1] + g[i].lost

LEMMA SumsAgree ==
  ASSUME NEW g, NEW s, NEW t, NEW n \in Nat, Sums(s, g, n), Sums(t, g, n)
  PROVE  \A i \in 0..n : s[i] = t[i]
<1>. DEFINE Bad == {i \in 0..n : s[i] # t[i]}
<1>1. SUFFICES ASSUME Bad # {} PROVE FALSE
  OBVIOUS
<1>2. PICK m \in Bad : \A k \in Bad : m <= k
  <2>1. Bad \subseteq Nat
    OBVIOUS
  <2>. HIDE DEF Bad
  <2>. QED
    BY <1>1, <2>1, LeastNumber
<1>3. m # 0
  BY DEF Sums
<1>4. m \in 1..n /\ m - 1 \in 0..n /\ m - 1 \notin Bad
  BY <1>2, <1>3
<1>5. s[m - 1] = t[m - 1]
  BY <1>4
<1>. QED
  BY <1>4, <1>5 DEF Sums

LEMMA SumsExist ==
  ASSUME NEW g \in Seq(Gap) PROVE \E s \in [0..Len(g) -> Nat] : Sums(s, g, Len(g))
<1>. DEFINE Bad == {n \in 0..Len(g) : ~ \E s \in [0..n -> Nat] : Sums(s, g, n)}
<1>1. SUFFICES ASSUME Bad # {} PROVE FALSE
  <2>1. Len(g) \in 0..Len(g)
    OBVIOUS
  <2>. QED
    BY <2>1
<1>2. PICK n \in Bad : \A k \in Bad : n <= k
  <2>1. Bad \subseteq Nat
    OBVIOUS
  <2>. HIDE DEF Bad
  <2>. QED
    BY <1>1, <2>1, LeastNumber
<1>3. n # 0
  <2>. SUFFICES ASSUME n = 0 PROVE FALSE
    OBVIOUS
  <2>. DEFINE z == [i \in 0..0 |-> 0]
  <2>1. z \in [0..n -> Nat] /\ z[0] = 0
    OBVIOUS
  <2>2. Sums(z, g, n)
    BY <2>1 DEF Sums
  <2>. QED
    BY <2>1, <2>2
<1>4. n \in 1..Len(g) /\ n - 1 \in 0..Len(g) /\ n - 1 \notin Bad
  <2>1. n \in 1..Len(g)
    BY <1>3
  <2>. HIDE DEF Bad
  <2>2. n - 1 \notin Bad
    BY <1>2, <2>1
  <2>. QED
    BY <2>1, <2>2
<1>5. PICK s \in [0..(n - 1) -> Nat] : Sums(s, g, n - 1)
  BY <1>4
<1>6. g[n].lost \in Nat /\ s[n - 1] \in Nat
  <2>1. g[n] \in Gap
    BY <1>4
  <2>. QED
    BY <1>4, <2>1 DEF Gap
<1>. DEFINE r == [i \in 0..n |-> IF i = n THEN s[n - 1] + g[n].lost ELSE s[i]]
<1>7. r \in [0..n -> Nat]
  BY <1>4, <1>6
<1>8. r[n] = s[n - 1] + g[n].lost /\ \A i \in 0..(n - 1) : r[i] = s[i]
  BY <1>4
<1>. HIDE DEF r
<1>9. Sums(r, g, n)
  <2>1. r[0] = 0
    BY <1>4, <1>5, <1>8 DEF Sums
  <2>2. ASSUME NEW i \in 1..n PROVE r[i] = r[i - 1] + g[i].lost
    <3>1. i - 1 \in 0..(n - 1) /\ r[i - 1] = s[i - 1]
      BY <1>4, <1>8
    <3>2. CASE i = n
      BY <3>1, <3>2, <1>8
    <3>3. CASE i # n
      <4>1. i \in 1..(n - 1) /\ i \in 0..(n - 1)
        BY <1>4, <3>3
      <4>. QED
        BY <4>1, <3>1, <1>5, <1>8 DEF Sums
    <3>. QED
      BY <3>2, <3>3
  <2>. QED
    BY <2>1, <2>2 DEF Sums
<1>. QED
  BY <1>7, <1>9

LEMMA BlocksInIs ==
  ASSUME NEW g \in Seq(Gap), NEW s \in [0..Len(g) -> Nat], Sums(s, g, Len(g))
  PROVE  BlocksIn(g) = s[Len(g)]
<1>. DEFINE n == Len(g)
            Body(f) == [i \in 0..n |-> IF i = 0 THEN 0 ELSE f[i - 1] + g[i].lost]
            sum == CHOOSE f : f = Body(f)
<1>0. n \in Nat
  OBVIOUS
<1>1. BlocksIn(g) = sum[n]
  BY DEF BlocksIn
<1>. HIDE DEF n
<1>2. s = Body(s)
  <2>1. ASSUME NEW i \in 0..n PROVE s[i] = Body(s)[i]
    <3>1. CASE i = 0
      BY <1>0, <3>1 DEF Sums
    <3>2. CASE i # 0
      <4>1. i \in 1..n
        BY <1>0, <3>2
      <4>. QED
        BY <4>1, <3>2 DEF Sums, n
    <3>. QED
      BY <3>1, <3>2
  <2>2. DOMAIN Body(s) = 0..n /\ s \in [0..n -> Nat]
    BY DEF n
  <2>. HIDE DEF Body
  <2>3. s = [i \in 0..n |-> s[i]]
    BY <2>2
  <2>4. Body(s) = [i \in 0..n |-> Body(s)[i]]
    BY DEF Body
  <2>. QED
    BY <2>1, <2>3, <2>4
<1>3. sum = Body(sum)
  BY <1>2, Zenon
<1>. HIDE DEF sum
<1>4. Sums(sum, g, n)
  <2>1. \A i \in 0..n : sum[i] = IF i = 0 THEN 0 ELSE sum[i - 1] + g[i].lost
    BY <1>3
  <2>2. 0 \in 0..n /\ \A i \in 1..n : i \in 0..n /\ i # 0
    BY <1>0
  <2>. QED
    BY <2>1, <2>2 DEF Sums
<1>5. sum[n] = s[n]
  <2>1. n \in 0..n /\ Sums(s, g, n)
    BY <1>0 DEF n
  <2>. QED
    BY <1>0, <1>4, <2>1, SumsAgree
<1>. QED
  BY <1>1, <1>5 DEF n

LEMMA NoGaps == BlocksIn(<<>>) = 0
<1>. DEFINE z == [i \in 0..0 |-> 0]
            g == <<>>
<1>1. g \in Seq(Gap) /\ Len(g) = 0 /\ z \in [0..0 -> Nat] /\ z[0] = 0
  OBVIOUS
<1>2. Sums(z, g, 0)
  BY <1>1 DEF Sums
<1>. HIDE DEF g, z
<1>3. BlocksIn(g) = 0
  BY <1>1, <1>2, BlocksInIs
<1>. QED
  BY <1>3 DEF g

\* A gap adds what it stands for.
LEMMA OneMoreGap ==
  ASSUME NEW g \in Seq(Gap), NEW e \in Gap
  PROVE  BlocksIn(g) \in Nat /\ BlocksIn(Append(g, e)) = BlocksIn(g) + e.lost
<1>. DEFINE h == Append(g, e)
            n == Len(g)
<1>1. /\ h \in Seq(Gap) /\ Len(h) = n + 1 /\ h[n + 1] = e /\ n \in Nat
      /\ \A i \in 1..n : h[i] = g[i]
  OBVIOUS
<1>. HIDE DEF h
<1>2. PICK s \in [0..n -> Nat] : Sums(s, g, n)
  BY SumsExist
<1>3. PICK t \in [0..(n + 1) -> Nat] : Sums(t, h, n + 1)
  BY <1>1, SumsExist
<1>4. BlocksIn(g) = s[n] /\ BlocksIn(h) = t[n + 1]
  BY <1>1, <1>2, <1>3, BlocksInIs
<1>5. t[n + 1] = t[n] + e.lost /\ Sums(t, g, n)
  BY <1>1, <1>3 DEF Sums
<1>6. s[n] = t[n]
  <2>1. n \in Nat /\ n \in 0..n
    BY <1>1
  <2>. QED
    BY <1>2, <1>5, <2>1, SumsAgree
<1>7. s[n] \in Nat
  BY <1>1
<1>. QED
  BY <1>4, <1>5, <1>6, <1>7 DEF h

-----------------------------------------------------------------------------
(* The steps *)

LossInv == BlocksInv /\ LossAccounted

lossVars == <<gaps, pending, cb, dropped>>

LEMMA DroppedIsFinite == ASSUME BlocksInv PROVE IsFiniteSet(dropped)
<1>1. dropped \in SUBSET (1..delivered) /\ delivered \in Nat
  BY Numbers DEF BlocksInv, Accounted
<1>2. IsFiniteSet(1..delivered)
  <2>1. 1 \in Int /\ delivered \in Int
    BY <1>1
  <2>. QED
    BY <2>1, FS_Interval
<1>. QED
  BY <1>1, <1>2, FS_Subset

\* The swap of the pending loss moves it into a gap.
LEMMA SwapKeepsLoss ==
  ASSUME LossInv, TakePending, UNCHANGED <<cb, dropped>> PROVE LossAccounted'
<1>. DEFINE e == [reason |-> "queue_overflow", at |-> Len(tape), lost |-> pending]
<1>1. pending \in Nat /\ gaps \in Seq(Gap) /\ Len(tape) \in Nat
  BY DEF LossInv, BlocksInv, TypeOK, QueueType, DiscType
<1>2. e \in Gap /\ e.lost = pending
  BY <1>1 DEF Gap
<1>3. pending' = 0 /\ gaps' = IF pending = 0 THEN gaps ELSE Append(gaps, e)
  BY DEF TakePending
<1>. HIDE DEF e
<1>4. BlocksIn(gaps) \in Nat /\ BlocksIn(Append(gaps, e)) = BlocksIn(gaps) + pending
  BY <1>1, <1>2, OneMoreGap
<1>5. BlocksIn(gaps') + pending' = BlocksIn(gaps) + pending
  BY <1>1, <1>3, <1>4
<1>. QED
  BY <1>1, <1>3, <1>5 DEF LossInv, LossAccounted

LEMMA CallbackKeepsLoss == ASSUME LossInv, Callback PROVE LossAccounted'
<1>0. BlocksIn(gaps) \in Nat /\ pending \in Nat
  <2>1. gaps \in Seq(Gap) /\ [reason |-> "paused", at |-> 0, lost |-> 0] \in Gap
    BY DEF LossInv, BlocksInv, TypeOK, DiscType, Gap
  <2>. QED
    BY <2>1, OneMoreGap DEF LossInv, BlocksInv, TypeOK, QueueType
<1>1. CASE Deliver \/ PutAccepted
  <2>1. /\ UNCHANGED <<gaps, pending, dropped>>
        /\ cb.pc # "tally" /\ cb'.pc # "tally"
    BY <1>1 DEF Deliver, PutAccepted, queueVars, discVars
  <2>. QED
    BY <2>1 DEF LossInv, LossAccounted
<1>2. CASE PutRefused
  <2>1. /\ UNCHANGED <<gaps, pending>> /\ cb.pc = "put" /\ cb'.pc = "tally"
        /\ dropped' = dropped \cup {cb.block}
    BY <1>2 DEF PutRefused, discVars
  <2>2. cb.block \notin dropped
    BY <2>1 DEF LossInv, BlocksInv, Accounted, Kept, InCallback
  <2>3. Cardinality(dropped') = Cardinality(dropped) + 1
    BY <2>1, <2>2, DroppedIsFinite, FS_AddElement DEF LossInv
  <2>4. BlocksIn(gaps) + pending = Cardinality(dropped)
    BY <1>0, <2>1 DEF LossInv, LossAccounted
  <2>. QED
    BY <1>0, <2>1, <2>3, <2>4 DEF LossAccounted
<1>3. CASE Tally
  <2>1. /\ UNCHANGED <<gaps, dropped>> /\ cb.pc = "tally" /\ cb'.pc = "idle"
        /\ pending' = pending + 1
    BY <1>3 DEF Tally, discVars
  <2>. QED
    BY <1>0, <2>1 DEF LossInv, LossAccounted
<1>. QED
  BY <1>1, <1>2, <1>3 DEF Callback

LEMMA OthersKeepLoss ==
  ASSUME LossInv, Writer \/ Call \/ Controller PROVE LossAccounted'
<1>1. CASE WriterTakesLoss \/ DrainTakesLoss \/ DrainEscapes
  BY <1>1, SwapKeepsLoss DEF WriterTakesLoss, DrainTakesLoss, DrainEscapes
<1>2. CASE Resume
  <2>. DEFINE e == [reason |-> "paused", at |-> Len(tape), lost |-> 0]
  <2>1. UNCHANGED <<pending, cb, dropped>> /\ gaps' = Append(gaps, e)
    BY <1>2 DEF Resume, queueVars
  <2>2. gaps \in Seq(Gap) /\ e \in Gap /\ e.lost = 0
    BY DEF LossInv, BlocksInv, TypeOK, DiscType, Gap
  <2>. HIDE DEF e
  <2>3. BlocksIn(gaps') = BlocksIn(gaps)
    BY <2>1, <2>2, OneMoreGap
  <2>. QED
    BY <2>1, <2>3 DEF LossInv, LossAccounted
<1>3. CASE \/ WriterPops \/ WriterFindsNothing \/ WriterRests \/ WriterBusy
           \/ WriterWrites \/ WriterSettles \/ WriterRaises \/ WriterDies
  <2>1. UNCHANGED lossVars
    BY <1>3 DEF WriterPops, WriterFindsNothing, WriterRests, WriterBusy, WriterWrites,
       WriterSettles, WriterRaises, WriterDies, lossVars, queueVars, discVars
  <2>. QED
    BY <2>1 DEF lossVars, LossInv, LossAccounted
<1>4. CASE Start \/ Pause \/ Stop \/ Abandon \/ ReturnAtOnce
  <2>1. UNCHANGED lossVars
    BY <1>4 DEF Start, Pause, Stop, Abandon, ReturnAtOnce, lossVars, queueVars, discVars
  <2>. QED
    BY <2>1 DEF lossVars, LossInv, LossAccounted
<1>5. CASE \/ StreamOpens \/ StreamRefused \/ StopStream \/ AwaitDrained
           \/ AwaitTakesOver \/ Shutdown \/ Join \/ DrainWrites \/ DrainRaises
           \/ DrainEnds \/ PauseFinishes \/ StopFinishes \/ StopEscapes
           \/ AbandonFinishes \/ StartFinishes
  <2>1. UNCHANGED lossVars
    BY <1>5 DEF StreamOpens, StreamRefused, StopStream, AwaitDrained, AwaitTakesOver,
       Shutdown, Join, TakeQueue, DrainWrites, DrainRaises, DrainEnds, PauseFinishes,
       StopFinishes, StopEscapes, AbandonFinishes, StartFinishes, lossVars, queueVars,
       discVars
  <2>. QED
    BY <2>1 DEF lossVars, LossInv, LossAccounted
<1>. QED
  BY <1>1, <1>2, <1>3, <1>4, <1>5 DEF Writer, Call, Controller

LEMMA InitLoss == Init => LossInv
<1>. SUFFICES ASSUME Init PROVE LossInv
  OBVIOUS
<1>1. gaps = <<>> /\ pending = 0 /\ cb.pc # "tally" /\ dropped = {}
  BY DEF Init
<1>2. LossAccounted
  BY <1>1, NoGaps, FS_EmptySet DEF LossAccounted
<1>. QED
  BY <1>2, InitBlocks DEF LossInv

LEMMA NextLoss == LossInv /\ [Next]_vars => LossInv'
<1>. SUFFICES ASSUME LossInv, [Next]_vars PROVE LossInv'
  OBVIOUS
<1>1. BlocksInv'
  BY NextBlocks DEF LossInv
<1>2. CASE Next
  BY <1>1, <1>2, CallbackKeepsLoss, OthersKeepLoss DEF Next, LossInv
<1>3. CASE UNCHANGED vars
  BY <1>1, <1>3 DEF vars, queueVars, discVars, LossInv, LossAccounted
<1>. QED
  BY <1>2, <1>3

\* Whatever the threads do, the losses recorded and the loss still waiting to be
\* recorded add up to the blocks the queue refused (frame_queue.py, session.py).
THEOREM LossesAddUp == Spec => []LossAccounted
<1>1. LossInv => LossAccounted
  BY DEF LossInv
<1>. QED
  BY InitLoss, NextLoss, <1>1, PTL DEF Spec

-----------------------------------------------------------------------------
(***************************************************************************)
(* Chunks neither overlap nor leave a frame out, whichever of the two      *)
(* threads closes them: the closed chunks are disjoint, cover the tape up  *)
(* to the start of the open one, and none reaches beyond it.               *)
(***************************************************************************)

Tiled ==
    /\ chunkStart <= Len(tape) /\ Len(tape) - chunkStart < ChunkFrames
    /\ \A c \in chunks : c.end <= chunkStart /\ c.end - c.start \in 1..ChunkFrames
    /\ \A f \in 1..chunkStart : \E c \in chunks : c.start < f /\ f <= c.end
    /\ \A c, d \in chunks : c.start < d.end /\ d.start < c.end => c = d

chunkVars == <<tape, chunkStart, chunks>>

LEMMA ChunkNumbers ==
  ASSUME TypeOK
  PROVE  /\ chunkStart \in Nat /\ Len(tape) \in Nat /\ ChunkFrames \in Nat \ {0}
         /\ \A c \in chunks : c.start \in Nat /\ c.end \in Nat
BY ConstantsAssumption DEF TypeOK, DiscType

\* The open chunk is closed at e and the next begins there.
LEMMA CloseChunk ==
  ASSUME TypeOK, Tiled, NEW e \in Nat, e - chunkStart \in 1..ChunkFrames,
         NEW f \in BOOLEAN, chunks' = chunks \cup {Chunk(chunkStart, e, f)},
         chunkStart' = e, Len(tape') = e
  PROVE  Tiled'
<1>. USE ChunkNumbers
<1>. DEFINE n == Chunk(chunkStart, e, f)
<1>1. n.start = chunkStart /\ n.end = e
  BY DEF Chunk
<1>2. chunks' = chunks \cup {n}
  OBVIOUS
<1>. HIDE DEF n
<1>3. chunkStart < e
  OBVIOUS
<1>4. \A c \in chunks' : c.end <= e /\ c.end - c.start \in 1..ChunkFrames
  <2>1. \A c \in chunks : c.end <= e /\ c.end - c.start \in 1..ChunkFrames
    BY <1>3 DEF Tiled
  <2>. QED
    BY <1>1, <1>2, <2>1
<1>5. ASSUME NEW k \in 1..e PROVE \E c \in chunks' : c.start < k /\ k <= c.end
  <2>1. CASE k \in 1..chunkStart
    BY <2>1, <1>2 DEF Tiled
  <2>2. CASE k \notin 1..chunkStart
    BY <2>2, <1>1, <1>2
  <2>. QED
    BY <2>1, <2>2
<1>6. ASSUME NEW c \in chunks', NEW d \in chunks', c.start < d.end, d.start < c.end
      PROVE  c = d
  <2>1. CASE c \in chunks /\ d \in chunks
    BY <2>1, <1>6 DEF Tiled
  <2>2. CASE c = n /\ d \in chunks
    BY <2>2, <1>1, <1>6 DEF Tiled
  <2>3. CASE c \in chunks /\ d = n
    BY <2>3, <1>1, <1>6 DEF Tiled
  <2>. QED
    BY <2>1, <2>2, <2>3, <1>2
<1>7. chunkStart' <= Len(tape') /\ Len(tape') - chunkStart' < ChunkFrames
  OBVIOUS
<1>8. \A c \in chunks' : c.end <= chunkStart'
  BY <1>4
<1>9. \A k \in 1..chunkStart' : \E c \in chunks' : c.start < k /\ k <= c.end
  BY <1>5
<1>. QED
  BY <1>4, <1>6, <1>7, <1>8, <1>9, Zenon DEF Tiled

LEMMA WriteTiles ==
  ASSUME TypeOK, Tiled, NEW b \in Blocks, WriteBlock(b) PROVE Tiled'
<1>. USE ChunkNumbers
<1>1. tape' = Append(tape, b) /\ Len(tape') = Len(tape) + 1
  BY DEF WriteBlock, TypeOK, DiscType
<1>2. CASE Len(tape) + 1 - chunkStart = ChunkFrames
  <2>. DEFINE e == Len(tape) + 1
  <2>1. /\ chunks' = chunks \cup {Chunk(chunkStart, e, TRUE)}
        /\ chunkStart' = e /\ Len(tape') = e
    BY <1>1, <1>2 DEF WriteBlock
  <2>2. e - chunkStart \in 1..ChunkFrames /\ e \in Nat
    BY <1>2
  <2>. HIDE DEF e
  <2>. QED
    BY <2>1, <2>2, CloseChunk
<1>3. CASE Len(tape) + 1 - chunkStart # ChunkFrames
  <2>1. UNCHANGED <<chunks, chunkStart>>
    BY <1>3 DEF WriteBlock
  <2>2. chunkStart <= Len(tape') /\ Len(tape') - chunkStart < ChunkFrames
    BY <1>1, <1>3 DEF Tiled
  <2>. QED
    BY <2>1, <2>2 DEF Tiled
<1>. QED
  BY <1>2, <1>3

LEMMA FailedWriteTiles ==
  ASSUME TypeOK, Tiled, NEW b \in Blocks, NEW rest, WriteFails(b, rest) PROVE Tiled'
<1>. USE ChunkNumbers
<1>1. CASE UNCHANGED <<tape, chunkStart, chunks>>
  BY <1>1 DEF Tiled
<1>2. CASE /\ Len(tape) + 1 - chunkStart = ChunkFrames /\ tape' = Append(tape, b)
           /\ chunks' = chunks \cup {Chunk(chunkStart, Len(tape) + 1, FALSE)}
           /\ chunkStart' = Len(tape) + 1
  <2>. DEFINE e == Len(tape) + 1
  <2>1. /\ chunks' = chunks \cup {Chunk(chunkStart, e, FALSE)}
        /\ chunkStart' = e /\ Len(tape') = e
    BY <1>2 DEF TypeOK, DiscType
  <2>2. e - chunkStart \in 1..ChunkFrames /\ e \in Nat
    BY <1>2
  <2>. HIDE DEF e
  <2>. QED
    BY <2>1, <2>2, CloseChunk
<1>. QED
  BY <1>1, <1>2 DEF WriteFails

LEMMA EndTiles ==
  ASSUME TypeOK, Tiled, NEW f \in BOOLEAN, EndChunk(f) PROVE Tiled'
<1>. USE ChunkNumbers
<1>1. UNCHANGED tape /\ chunkStart' = Len(tape)
  BY DEF EndChunk
<1>2. CASE Len(tape) = chunkStart
  <2>1. UNCHANGED <<tape, chunkStart, chunks>>
    BY <1>1, <1>2 DEF EndChunk
  <2>. QED
    BY <2>1 DEF Tiled
<1>3. CASE Len(tape) # chunkStart
  <2>1. chunks' = chunks \cup {Chunk(chunkStart, Len(tape), f)}
    BY <1>3 DEF EndChunk
  <2>2. Len(tape) - chunkStart \in 1..ChunkFrames
    BY <1>3 DEF Tiled
  <2>. QED
    BY <1>1, <2>1, <2>2, CloseChunk
<1>. QED
  BY <1>2, <1>3

ChunkInv == TypeOK /\ Tiled

LEMMA InitTiles == Init => ChunkInv
<1>. SUFFICES ASSUME Init PROVE ChunkInv
  OBVIOUS
<1>1. tape = <<>> /\ chunkStart = 0 /\ chunks = {} /\ Len(tape) = 0
  BY DEF Init
<1>2. Tiled
  BY <1>1, ConstantsAssumption DEF Tiled
<1>. QED
  BY <1>2, InitTypes DEF ChunkInv

LEMMA NextTiles == ChunkInv /\ [Next]_vars => ChunkInv'
<1>. SUFFICES ASSUME ChunkInv, [Next]_vars PROVE ChunkInv'
  OBVIOUS
<1>. USE DEF ChunkInv
<1>0. TypeOK'
  BY NextTypes
<1>1. CASE WriterWrites \/ WriterRaises
  <2>1. wpc = "write" /\ (WriteBlock(witem) \/ WriteFails(witem, {}))
    BY <1>1 DEF WriterWrites, WriterRaises
  <2>2. witem \in Blocks
    BY <2>1, WriterHolds DEF Holding
  <2>. QED
    BY <1>0, <2>1, <2>2, WriteTiles, FailedWriteTiles
<1>2. CASE DrainWrites \/ DrainRaises
  <2>1. /\ cpc \in WriteSteps
        /\ WriteBlock(Head(citems)) \/ WriteFails(Head(citems), Range(Tail(citems)))
    BY <1>2 DEF DrainWrites, DrainRaises
  <2>2. Head(citems) \in Blocks
    BY <2>1 DEF TypeOK, CallType
  <2>. QED
    BY <1>0, <2>1, <2>2, WriteTiles, FailedWriteTiles
<1>3. CASE PauseFinishes \/ StopFinishes \/ StopEscapes \/ AbandonFinishes
  <2>1. \E f \in BOOLEAN : EndChunk(f)
    BY <1>3 DEF PauseFinishes, StopFinishes, StopEscapes, AbandonFinishes
  <2>. QED
    BY <1>0, <2>1, EndTiles
<1>4. CASE Callback \/ Call \/ UNCHANGED vars
  <2>1. UNCHANGED chunkVars
    BY <1>4 DEF Callback, Deliver, PutAccepted, PutRefused, Tally, Call, Start, Pause,
       Resume, Stop, Abandon, ReturnAtOnce, vars, chunkVars, discVars
  <2>. QED
    BY <1>0, <2>1 DEF chunkVars, Tiled
<1>5. CASE \/ WriterPops \/ WriterFindsNothing \/ WriterRests \/ WriterBusy
           \/ WriterTakesLoss \/ WriterSettles \/ WriterDies
  <2>1. UNCHANGED chunkVars
    BY <1>5 DEF WriterPops, WriterFindsNothing, WriterRests, WriterBusy,
       WriterTakesLoss, WriterSettles, WriterDies, chunkVars, discVars
  <2>. QED
    BY <1>0, <2>1 DEF chunkVars, Tiled
<1>6. CASE \/ StreamOpens \/ StreamRefused \/ StopStream \/ AwaitDrained
           \/ AwaitTakesOver \/ Shutdown \/ Join \/ DrainTakesLoss \/ DrainEscapes
           \/ DrainEnds \/ StartFinishes
  <2>1. UNCHANGED chunkVars
    BY <1>6 DEF StreamOpens, StreamRefused, StopStream, AwaitDrained, AwaitTakesOver,
       Shutdown, Join, DrainTakesLoss, DrainEscapes, DrainEnds, StartFinishes,
       chunkVars, discVars
  <2>. QED
    BY <1>0, <2>1 DEF chunkVars, Tiled
<1>. QED
  BY <1>1, <1>2, <1>3, <1>4, <1>5, <1>6 DEF Next, Writer, Controller

LEMMA TilesTheTape == ChunkInv => ChunksTileTheTape
<1>. SUFFICES ASSUME ChunkInv PROVE ChunksTileTheTape
  OBVIOUS
<1>. USE ChunkNumbers DEF ChunkInv
<1>1. ASSUME NEW k \in 1..Len(tape), k <= chunkStart
      PROVE  Cardinality({c \in chunks : c.start < k /\ k <= c.end}) = 1
  <2>1. PICK c \in chunks : c.start < k /\ k <= c.end
    BY <1>1 DEF Tiled
  <2>2. ASSUME NEW d \in chunks, d.start < k, k <= d.end PROVE d = c
    <3>1. c.start < d.end /\ d.start < c.end
      BY <2>1, <2>2
    <3>. QED
      BY <3>1 DEF Tiled
  <2>3. {d \in chunks : d.start < k /\ k <= d.end} = {c}
    BY <2>1, <2>2
  <2>. QED
    BY <2>3, FS_Singleton
<1>2. ASSUME NEW k \in 1..Len(tape), ~(k <= chunkStart)
      PROVE  \A c \in chunks : c.end < k
  BY <1>2 DEF Tiled
<1>3. \A c \in chunks : c.end - c.start \in 1..ChunkFrames
  BY DEF Tiled
<1>4. Len(tape) - chunkStart < ChunkFrames
  BY DEF Tiled
<1>. QED
  BY <1>1, <1>2, <1>3, <1>4 DEF ChunksTileTheTape

\* Every frame on the tape is in exactly one closed chunk or in the open one, and
\* none is longer than frames_per_chunk (writer.py), whichever thread closed it.
THEOREM ChunksTile == Spec => []ChunksTileTheTape
<1>. QED
  BY InitTiles, NextTiles, TilesTheTape, PTL DEF Spec

-----------------------------------------------------------------------------
(***************************************************************************)
(* What the threads may assume of one another: when the microphone is off, *)
(* when the writer thread is there, when the queue is empty, and what a    *)
(* session that has not begun or has stopped leaves behind.                *)
(***************************************************************************)

OffAir == {"open", "await", "shutdown", "join", "finish"} \cup Draining

StreamInv ==
    /\ ~stream => cb.pc = "idle"
    /\ cb.pc = "put" => cb.block = delivered
    /\ cpc \in OffAir \/ (state = "PAUSED" /\ cpc # "stopStream") \/ closed => ~stream
    /\ closed => state \in {"STOPPING", "STOPPED", "FAILED"} /\ cpc # "open"

ThreadInv ==
    /\ stream \/ cpc = "open" \/ state \in {"RUNNING", "PAUSED"} => thread
    /\ thread => ~stopEvent /\ ~closed /\ wpc # "none"
    /\ thread /\ wpc = "exited" => error
    /\ ~thread /\ cpc # "join" => wpc \in Gone \/ error

QueueInv ==
    /\ ~thread \/ cpc \in {"shutdown", "join", "finish"} \cup Draining => queue = <<>>
    /\ cpc = "open" /\ op = "start" => queue = <<>>

Quiet == /\ ~stream /\ op = "none" /\ wpc \in Gone /\ ~error /\ queue = <<>>
         /\ Len(tape) = chunkStart

RestInv ==
    /\ state = "IDLE" => Quiet /\ wpc = "none" /\ tape = <<>> /\ broken = {} /\ ~closed
    /\ state = "STOPPED" => Quiet

LifeInv == BlocksInv /\ StreamInv /\ ThreadInv /\ QueueInv /\ RestInv

Life == StreamInv /\ ThreadInv /\ QueueInv /\ RestInv

lifeVars == <<state, stream, error, queue, closed, cb, delivered, wpc, thread, stopEvent,
              op, cpc, tape, chunkStart, broken>>

LEMMA InitLife == Init => LifeInv
<1>. SUFFICES ASSUME Init PROVE LifeInv
  OBVIOUS
<1>1. BlocksInv
  BY InitBlocks
<1>2. Len(tape) = 0
  BY DEF Init
<1>3. StreamInv /\ ThreadInv /\ QueueInv
  BY DEF Init, StreamInv, ThreadInv, QueueInv, OffAir, Draining, DrainSteps, WriteSteps,
     Gone
<1>4. RestInv
  BY <1>2 DEF Init, RestInv, Quiet, Gone
<1>. QED
  BY <1>1, <1>3, <1>4 DEF LifeInv

LEMMA CallbackKeepsLife == ASSUME LifeInv, Callback PROVE Life'
<1>. USE DEF LifeInv, Life, StreamInv, ThreadInv, QueueInv, RestInv, Quiet,
       queueVars, writerVars, callVars, discVars
<1>1. CASE Deliver
  BY <1>1 DEF Deliver
<1>2. CASE PutAccepted
  <2>1. stream /\ thread /\ cpc \notin OffAir
    BY <1>2 DEF PutAccepted
  <2>2. cpc \notin {"shutdown", "join", "finish", "open"} \cup Draining
    BY <2>1 DEF OffAir
  <2>. QED
    BY <1>2, <2>1, <2>2 DEF PutAccepted
<1>3. CASE PutRefused
  BY <1>3 DEF PutRefused
<1>4. CASE Tally
  BY <1>4 DEF Tally
<1>. QED
  BY <1>1, <1>2, <1>3, <1>4 DEF Callback

LEMMA WriterKeepsLife == ASSUME LifeInv, Writer PROVE Life'
<1>. USE DEF LifeInv, Life, StreamInv, ThreadInv, QueueInv, RestInv, Quiet, Gone,
       queueVars, writerVars, callVars, discVars
<1>1. CASE WriterPops
  BY <1>1 DEF WriterPops
<1>2. CASE WriterFindsNothing \/ WriterRests \/ WriterBusy \/ WriterSettles
  BY <1>2 DEF WriterFindsNothing, WriterRests, WriterBusy, WriterSettles
<1>3. CASE WriterTakesLoss
  BY <1>3 DEF WriterTakesLoss
<1>4. CASE WriterWrites
  BY <1>4 DEF WriterWrites
<1>5. CASE WriterRaises
  BY <1>5 DEF WriterRaises
<1>6. CASE WriterDies
  BY <1>6 DEF WriterDies, Failed, BlocksInv, TypeOK, SessionType, States
<1>. QED
  BY <1>1, <1>2, <1>3, <1>4, <1>5, <1>6 DEF Writer

LEMMA CallKeepsLife == ASSUME LifeInv, Call PROVE Life'
<1>. USE DEF LifeInv, BlocksInv, CallInv, Life, StreamInv, ThreadInv, QueueInv, RestInv,
       Quiet, Gone, OffAir, Draining, DrainSteps, WriteSteps, queueVars, writerVars,
       callVars, discVars
<1>1. CASE Start
  BY <1>1 DEF Start
<1>2. CASE Pause
  BY <1>2 DEF Pause
<1>3. CASE Resume
  BY <1>3 DEF Resume
<1>4. CASE Stop
  BY <1>4 DEF Stop
<1>5. CASE Abandon
  BY <1>5 DEF Abandon
<1>6. CASE ReturnAtOnce
  BY <1>6 DEF ReturnAtOnce, Finished
<1>. QED
  BY <1>1, <1>2, <1>3, <1>4, <1>5, <1>6 DEF Call

LEMMA ControllerKeepsLife == ASSUME LifeInv, Controller PROVE Life'
<1>0. /\ op # "none" /\ cpc # "ready" /\ state \notin {"IDLE", "STOPPED"}
      /\ state \in States /\ CallInv /\ TypeOK
  <2>1. cpc # "ready"
    BY DEF Controller, StreamOpens, StreamRefused, StopStream, AwaitDrained,
       AwaitTakesOver, Shutdown, Join, DrainTakesLoss, DrainWrites, DrainRaises,
       DrainEscapes, DrainEnds, PauseFinishes, StopFinishes, StopEscapes,
       AbandonFinishes, StartFinishes, DrainSteps, WriteSteps
  <2>. QED
    BY <2>1 DEF LifeInv, RestInv, Quiet, BlocksInv, CallInv, TypeOK, SessionType
<1>. USE <1>0 DEF LifeInv, CallInv, Life, StreamInv, ThreadInv, QueueInv, RestInv,
       Quiet, Gone, OffAir, Draining, DrainSteps, WriteSteps, queueVars, writerVars,
       callVars, discVars, Return
<1>1. CASE StreamOpens
  BY <1>1 DEF StreamOpens
<1>2. CASE StreamRefused
  BY <1>2 DEF StreamRefused, Failed, States
<1>3. CASE StopStream
  BY <1>3 DEF StopStream
<1>4. CASE AwaitDrained
  BY <1>4 DEF AwaitDrained, Drained, AfterDrain
<1>5. CASE AwaitTakesOver
  BY <1>5 DEF AwaitTakesOver, TakeQueue
<1>6. CASE Shutdown
  BY <1>6 DEF Shutdown, TypeOK, CallType
<1>7. CASE Join
  BY <1>7 DEF Join, TakeQueue
<1>8. CASE DrainTakesLoss
  BY <1>8 DEF DrainTakesLoss, WriteStep
<1>9. CASE DrainWrites
  BY <1>9 DEF DrainWrites, DrainStep
<1>10. CASE DrainRaises
  BY <1>10 DEF DrainRaises, DrainOver, Failed, States
<1>11. CASE DrainEscapes
  BY <1>11 DEF DrainEscapes
<1>12. CASE DrainEnds
  BY <1>12 DEF DrainEnds, DrainOver
<1>13. CASE PauseFinishes
  BY <1>13 DEF PauseFinishes
<1>14. CASE StopFinishes
  BY <1>14 DEF StopFinishes, EndChunk
<1>15. CASE StopEscapes
  BY <1>15 DEF StopEscapes
<1>16. CASE AbandonFinishes
  BY <1>16 DEF AbandonFinishes
<1>17. CASE StartFinishes
  BY <1>17 DEF StartFinishes
<1>. QED
  BY <1>1, <1>2, <1>3, <1>4, <1>5, <1>6, <1>7, <1>8, <1>9, <1>10, <1>11, <1>12, <1>13,
     <1>14, <1>15, <1>16, <1>17 DEF Controller

LEMMA NextLife == LifeInv /\ [Next]_vars => LifeInv'
<1>. SUFFICES ASSUME LifeInv, [Next]_vars PROVE LifeInv'
  OBVIOUS
<1>1. BlocksInv'
  BY NextBlocks DEF LifeInv
<1>2. CASE Next
  BY <1>1, <1>2, CallbackKeepsLife, WriterKeepsLife, CallKeepsLife, ControllerKeepsLife
     DEF Next, Life, LifeInv
<1>3. CASE UNCHANGED vars
  <2>1. UNCHANGED lifeVars
    BY <1>3 DEF vars, lifeVars, queueVars, writerVars, callVars, discVars
  <2>. QED
    BY <1>1, <2>1 DEF lifeVars, LifeInv, StreamInv, ThreadInv, QueueInv, RestInv, Quiet
<1>. QED
  BY <1>2, <1>3

-----------------------------------------------------------------------------
(* What the steps may not do *)

\* The pipeline is empty when a session has stopped.
LEMMA StoppedHoldsNothing ==
  ASSUME LifeInv, state = "STOPPED"
  PROVE  Kept = Range(tape) /\ ~stream /\ Len(tape) = chunkStart /\ cpc = "ready"
<1>1. /\ ~stream /\ op = "none" /\ wpc \in Gone /\ queue = <<>> /\ cb.pc = "idle"
      /\ Len(tape) = chunkStart
  BY DEF LifeInv, RestInv, Quiet, StreamInv
<1>2. cpc = "ready" /\ citems = <<>>
  BY <1>1 DEF LifeInv, BlocksInv, CallInv, Draining, DrainSteps, WriteSteps
<1>3. InWriter = {} /\ InCallback = {}
  BY <1>1, WriterHolds DEF Gone, Holding, InCallback, LifeInv, BlocksInv
<1>4. Range(citems) = {} /\ Range(queue) = {}
  BY <1>1, <1>2, EmptyPiece
<1>. QED
  BY <1>1, <1>2, <1>3, <1>4 DEF Kept

LEMMA StoppedStays ==
  ASSUME LifeInv, state = "STOPPED", Next PROVE UNCHANGED <<state, discVars>>
<1>1. cpc = "ready" /\ wpc \in Gone
  BY StoppedHoldsNothing DEF LifeInv, RestInv, Quiet
<1>2. CASE Callback
  BY <1>2 DEF Callback, Deliver, PutAccepted, PutRefused, Tally
<1>3. CASE Writer
  BY <1>1, <1>3 DEF Writer, WriterPops, WriterFindsNothing, WriterRests, WriterBusy,
     WriterTakesLoss, WriterWrites, WriterSettles, WriterRaises, WriterDies, Gone
<1>4. CASE Call
  BY <1>4 DEF Call, Start, Pause, Resume, Stop, Abandon, ReturnAtOnce
<1>5. CASE Controller
  BY <1>1, <1>5 DEF Controller, StreamOpens, StreamRefused, StopStream, AwaitDrained,
     AwaitTakesOver, Shutdown, Join, DrainTakesLoss, DrainWrites, DrainRaises,
     DrainEscapes, DrainEnds, PauseFinishes, StopFinishes, StopEscapes,
     AbandonFinishes, StartFinishes, DrainSteps, WriteSteps
<1>. QED
  BY <1>2, <1>3, <1>4, <1>5 DEF Next

\* However slow the writer was when the waits for it ran out (session.py, the 10 s
\* drain wait and the 15 s join), the two threads that then write lose no block,
\* record each loss once, give each frame to one chunk, and leave alone what has
\* been reported STOPPED.
THEOREM LateWritersAreHarmless == Spec => LateWriterIsHarmless
<1>1. LifeInv /\ LossInv /\ ChunkInv =>
        EveryBlockAccountedFor /\ LossAccounted /\ ChunksTileTheTape
  BY AllAccountedFor, TilesTheTape DEF LossInv
<1>2. /\ LifeInv /\ [Next]_vars
      /\ EveryBlockAccountedFor' /\ LossAccounted' /\ ChunksTileTheTape'
      => [/\ EveryBlockAccountedFor' /\ LossAccounted' /\ ChunksTileTheTape'
          /\ state = "STOPPED" => UNCHANGED <<state, discVars>>]_vars
  BY StoppedStays
<1>. QED
  BY InitLife, NextLife, InitLoss, NextLoss, InitTiles, NextTiles, <1>1, <1>2, PTL
     DEF Spec, LateWriterIsHarmless

-----------------------------------------------------------------------------
(* Unless a wait expires, only an error costs a block that was not dropped. *)

FaultInv ==
    /\ broken # {} => error \/ wpc = "failing"
    /\ citems # <<>> => error

SafeInv == LifeInv /\ OrderInv /\ FaultInv

LEMMA NextFault == ASSUME ~MayTimeOut, SafeInv, [Next]_vars PROVE FaultInv'
<1>. USE DEF SafeInv, FaultInv, queueVars, writerVars, callVars, discVars
<1>1. CASE Callback \/ UNCHANGED vars
  BY <1>1 DEF Callback, Deliver, PutAccepted, PutRefused, Tally, vars
<1>2. CASE Writer
  BY <1>2 DEF Writer, WriterPops, WriterFindsNothing, WriterRests, WriterBusy,
     WriterTakesLoss, WriterWrites, WriterSettles, WriterRaises, WriterDies
<1>3. CASE Call
  <2>1. state = "IDLE" => broken = {}
    BY DEF LifeInv, RestInv
  <2>. QED
    BY <1>3, <2>1 DEF Call, Start, Pause, Resume, Stop, Abandon, ReturnAtOnce
<1>4. CASE AwaitTakesOver
  <2>1. ~thread \/ wpc \in {"none", "exited"}
    BY <1>4 DEF AwaitTakesOver, WriterAlive
  <2>2. queue = <<>> \/ error
    BY <2>1 DEF LifeInv, QueueInv, ThreadInv
  <2>. QED
    BY <1>4, <2>2 DEF AwaitTakesOver, TakeQueue
<1>5. CASE Join
  <2>1. queue = <<>>
    BY <1>5 DEF Join, LifeInv, QueueInv
  <2>. QED
    BY <1>5, <2>1 DEF Join, TakeQueue
<1>6. CASE DrainWrites
  <2>1. citems # <<>>
    BY <1>6 DEF DrainWrites, LifeInv, BlocksInv, TypeOK, CallType
  <2>. QED
    BY <1>6, <2>1 DEF DrainWrites
<1>7. CASE DrainTakesLoss \/ DrainRaises \/ DrainEscapes \/ DrainEnds
  BY <1>7 DEF DrainTakesLoss, DrainRaises, DrainEscapes, DrainEnds
<1>8. CASE StreamOpens \/ StreamRefused \/ StopStream \/ AwaitDrained \/ Shutdown
  BY <1>8 DEF StreamOpens, StreamRefused, StopStream, AwaitDrained, Shutdown
<1>9. CASE PauseFinishes \/ StopFinishes \/ StopEscapes \/ AbandonFinishes
             \/ StartFinishes
  BY <1>9 DEF PauseFinishes, StopFinishes, StopEscapes, AbandonFinishes, StartFinishes
<1>. QED
  BY <1>1, <1>2, <1>3, <1>4, <1>5, <1>6, <1>7, <1>8, <1>9 DEF Next, Controller

LEMMA InitSafe == Init => SafeInv
<1>1. Init => FaultInv
  BY DEF Init, FaultInv
<1>. QED
  BY <1>1, InitLife, InitOrder DEF SafeInv

LEMMA NextSafe == ASSUME ~MayTimeOut, SafeInv, [Next]_vars PROVE SafeInv'
BY NextFault, NextLife, NextOrder DEF SafeInv

LEMMA StoppedWhole == SafeInv => StoppedIsComplete
<1>. SUFFICES ASSUME SafeInv, state = "STOPPED"
              PROVE  /\ ~stream /\ Len(tape) = chunkStart
                     /\ Range(tape) \cup dropped = 1..delivered
  BY DEF StoppedIsComplete
<1>1. Kept = Range(tape) /\ ~stream /\ Len(tape) = chunkStart
  BY StoppedHoldsNothing DEF SafeInv
<1>2. broken = {}
  BY DEF SafeInv, FaultInv, LifeInv, RestInv, Quiet, Gone
<1>. QED
  BY <1>1, <1>2 DEF SafeInv, LifeInv, BlocksInv, Accounted

LEMMA ClosedDropsNothing ==
  ASSUME LifeInv, closed, Next PROVE UNCHANGED dropped
<1>1. cb.pc = "idle"
  BY DEF LifeInv, StreamInv
<1>2. CASE Callback
  BY <1>1, <1>2 DEF Callback, Deliver, PutAccepted, PutRefused, Tally, queueVars
<1>3. CASE Writer
  BY <1>3 DEF Writer, WriterPops, WriterFindsNothing, WriterRests, WriterBusy,
     WriterTakesLoss, WriterWrites, WriterSettles, WriterRaises, WriterDies, queueVars
<1>4. CASE Call
  BY <1>4 DEF Call, Start, Pause, Resume, Stop, Abandon, ReturnAtOnce, queueVars
<1>5. CASE Controller
  BY <1>5 DEF Controller, StreamOpens, StreamRefused, StopStream, AwaitDrained,
     AwaitTakesOver, Shutdown, Join, DrainTakesLoss, DrainWrites, DrainRaises,
     DrainEscapes, DrainEnds, PauseFinishes, StopFinishes, StopEscapes,
     AbandonFinishes, StartFinishes, queueVars
<1>. QED
  BY <1>2, <1>3, <1>4, <1>5 DEF Next

\* Unless a wait of the controlling thread expires, no block is lost without a record
\* of it: not while the session runs, not in what it leaves behind when it has
\* stopped, and none because the queue was closed around a live stream.
THEOREM NoSilentLoss == ASSUME ~MayTimeOut PROVE Spec => NothingLostSilently
<1>1. SafeInv /\ LossInv => StoppedIsComplete /\ LossAccounted
  BY StoppedWhole DEF LossInv
<1>2. SafeInv /\ [Next]_vars /\ StoppedIsComplete' /\ LossAccounted'
      => [/\ StoppedIsComplete' /\ LossAccounted'
          /\ closed => dropped' = dropped]_vars
  BY ClosedDropsNothing DEF SafeInv
<1>3. SafeInv /\ [Next]_vars => SafeInv'
  BY NextSafe
<1>. QED
  BY InitSafe, <1>3, InitLoss, NextLoss, <1>1, <1>2, PTL DEF Spec, NothingLostSilently

-----------------------------------------------------------------------------
(***************************************************************************)
(* The threads implement the recorder: every step is one of its steps, or  *)
(* none, unless a wait of the controlling thread expires.                  *)
(***************************************************************************)

Buffered == Item \o citems \o queue
Captured == delivered - Len(InHand)
Faulty == error \/ wpc = "failing"

LEMMA CatNone == ASSUME NEW s \in Seq(Int) PROVE s \o <<>> = s /\ <<>> \o s = s
OBVIOUS

\* What is buffered is in one place at a time: in the writer's hand and the queue,
\* in the queue alone, or with the controlling thread.
InOnePlace ==
    /\ Buffered \in Seq(Int)
    /\ wpc \in Holding => Buffered = <<witem>> \o queue
    /\ wpc \notin Holding /\ cpc \notin Draining => Buffered = queue
    /\ cpc \in Draining => Buffered = citems /\ queue = <<>>

LEMMA BufferIs == SafeInv => InOnePlace
<1>. SUFFICES ASSUME SafeInv PROVE InOnePlace
  OBVIOUS
<1>. USE DEF SafeInv, LifeInv, OrderInv, BlocksInv
<1>1. /\ Item \in Seq(Int) /\ citems \in Seq(Int) /\ queue \in Seq(Int)
      /\ witem \in Int
  BY Numbers, EndsOfPipeline
<1>2. Buffered \in Seq(Int)
  BY <1>1 DEF Buffered
<1>3. cpc \notin Draining => citems = <<>>
  BY DEF CallInv
<1>4. wpc \notin Holding => Item = <<>>
  BY WriterHolds DEF Item
<1>5. ASSUME wpc \in Holding PROVE Buffered = <<witem>> \o queue
  <2>1. citems = <<>>
    BY <1>3, <1>5 DEF WriterGone, Gone, Holding
  <2>2. Item = <<witem>>
    BY <1>5, WriterHolds DEF Item, Blocks
  <2>. QED
    BY <1>1, <2>1, <2>2, CatNone DEF Buffered
<1>6. ASSUME wpc \notin Holding, cpc \notin Draining PROVE Buffered = queue
  BY <1>1, <1>3, <1>4, <1>6, CatNone DEF Buffered
<1>7. ASSUME cpc \in Draining PROVE Buffered = citems /\ queue = <<>>
  <2>1. wpc \notin Holding /\ queue = <<>>
    BY <1>7 DEF WriterGone, Gone, Holding, QueueInv
  <2>. QED
    BY <1>1, <1>4, <2>1, CatNone DEF Buffered
<1>. QED
  BY <1>2, <1>5, <1>6, <1>7 DEF InOnePlace

LEMMA BufferWillBe == SafeInv' => InOnePlace'
BY BufferIs, PTL

LEMMA NotSealed ==
  ASSUME SafeInv, state = "STOPPED"
  PROVE  /\ cb.pc = "idle" /\ wpc \in Gone /\ cpc = "ready" /\ op = "none"
BY StoppedHoldsNothing DEF SafeInv, LifeInv, RestInv, Quiet, StreamInv

\* A fault that costs the blocks of the buffer in front of next, which the first
\* keep of them survive; those from first on are lost.
LEMMA FaultIs ==
  ASSUME SafeInv, NEW keep \in {0, 1}, NEW n \in 0..Len(Buffered), keep <= n,
         NEW first, first = keep + 1, NEW next, next = n + 1,
         tape' = tape \o SubSeq(Buffered, 1, keep),
         dropped' \cup broken' =
            dropped \cup broken \cup Range(SubSeq(Buffered, first, n)),
         Buffered' = SubSeq(Buffered, next, Len(Buffered)),
         Captured' = Captured, state # "STOPPED", state' # "STOPPED", Faulty'
  PROVE  Tape!Fail
BY DEF Tape!Fail, Tape!Range, Range, Buffered, Captured, Faulty

\* A fault that costs nothing, one that costs the oldest block, and one that costs
\* everything buffered.
LEMMA AppendLast ==
  ASSUME NEW s \in Seq(Int), NEW t \in Seq(Int), NEW e \in Int
  PROVE  s \o Append(t, e) = Append(s \o t, e)
OBVIOUS

LEMMA Slices ==
  ASSUME NEW s \in Seq(Int)
  PROVE  /\ Len(s) \in Nat /\ SubSeq(s, 1, 0) = <<>> /\ SubSeq(s, 1, Len(s)) = s
         /\ SubSeq(s, Len(s) + 1, Len(s)) = <<>>
         /\ s # <<>> => /\ Len(s) >= 1 /\ SubSeq(s, 2, 1) = <<>>
                        /\ SubSeq(s, 1, 1) = <<Head(s)>> /\ SubSeq(s, 2, Len(s)) = Tail(s)
<1>1. Len(s) \in Nat /\ SubSeq(s, 1, 0) = <<>>
  OBVIOUS
<1>2. SubSeq(s, 1, Len(s)) = s
  OBVIOUS
<1>3. SubSeq(s, Len(s) + 1, Len(s)) = <<>>
  OBVIOUS
<1>4. ASSUME s # <<>> PROVE Len(s) >= 1 /\ SubSeq(s, 2, 1) = <<>>
  BY <1>4
<1>5. ASSUME s # <<>> PROVE SubSeq(s, 1, 1) = <<Head(s)>>
  <2>. DEFINE h == SubSeq(s, 1, 1)
  <2>1. h \in Seq(Int) /\ Len(h) = 1 /\ h[1] = s[1] /\ Head(s) = s[1] /\ Head(s) \in Int
    BY <1>4, <1>5
  <2>. HIDE DEF h
  <2>2. h = <<Head(s)>>
    BY <2>1
  <2>. QED
    BY <2>2 DEF h
<1>6. SubSeq(s, 2, Len(s)) = Tail(s)
  OBVIOUS
<1>. QED
  BY <1>1, <1>2, <1>3, <1>4, <1>5, <1>6

LEMMA FaultCostsNothing ==
  ASSUME SafeInv, UNCHANGED <<tape, dropped, broken>>, Buffered' = Buffered,
         Captured' = Captured, state # "STOPPED", state' # "STOPPED", Faulty'
  PROVE  Tape!Fail
<1>1. Buffered \in Seq(Int) /\ tape \in Seq(Int)
  BY BufferIs, Numbers DEF InOnePlace, SafeInv, LifeInv, BlocksInv
<1>2. SubSeq(Buffered, 1, 0) = <<>> /\ SubSeq(Buffered, 1, Len(Buffered)) = Buffered
  BY <1>1, Slices
<1>3. Range(<<>>) = {}
  BY EmptyPiece
<1>4. /\ tape' = tape \o SubSeq(Buffered, 1, 0)
      /\ dropped' \cup broken' = dropped \cup broken \cup Range(SubSeq(Buffered, 1, 0))
      /\ Buffered' = SubSeq(Buffered, 1, Len(Buffered))
  BY <1>1, <1>2, <1>3, CatNone
<1>5. 0 \in 0..Len(Buffered) /\ 0 \in {0, 1} /\ 0 <= 0 /\ 1 = 0 + 1
  BY <1>1
<1>. QED
  BY <1>4, <1>5, FaultIs, Zenon

\* The first block of what is buffered is written, or lost, to a fault.
LEMMA FaultCostsFirst ==
  ASSUME SafeInv, Buffered # <<>>, Buffered' = Tail(Buffered),
         \/ UNCHANGED tape /\ broken' = broken \cup {Head(Buffered)}
         \/ tape' = Append(tape, Head(Buffered)) /\ UNCHANGED broken,
         UNCHANGED dropped, Captured' = Captured,
         state # "STOPPED", state' # "STOPPED", Faulty'
  PROVE  Tape!Fail
<1>1. Buffered \in Seq(Int) /\ tape \in Seq(Int)
  BY BufferIs, Numbers DEF InOnePlace, SafeInv, LifeInv, BlocksInv
<1>2. /\ SubSeq(Buffered, 1, 0) = <<>> /\ SubSeq(Buffered, 1, 1) = <<Head(Buffered)>>
      /\ Buffered' = SubSeq(Buffered, 2, Len(Buffered)) /\ SubSeq(Buffered, 2, 1) = <<>>
      /\ 1 \in 0..Len(Buffered)
  BY <1>1, Slices
<1>. /\ 0 \in {0, 1} /\ 1 \in {0, 1} /\ 0 <= 1 /\ 1 <= 1 /\ 1 = 0 + 1 /\ 2 = 1 + 1
  OBVIOUS
<1>3. Range(<<>>) = {} /\ Range(<<Head(Buffered)>>) = {Head(Buffered)}
  BY SinglePiece, EmptyPiece
<1>4. CASE UNCHANGED tape /\ broken' = broken \cup {Head(Buffered)}
  <2>1. /\ tape' = tape \o SubSeq(Buffered, 1, 0)
        /\ dropped' \cup broken' = dropped \cup broken \cup Range(SubSeq(Buffered, 1, 1))
    BY <1>1, <1>2, <1>3, <1>4, CatNone
  <2>. QED
    BY <1>2, <2>1, FaultIs, Zenon
<1>5. CASE tape' = Append(tape, Head(Buffered)) /\ UNCHANGED broken
  <2>1. tape' = tape \o <<Head(Buffered)>>
    BY <1>1, <1>5
  <2>2. /\ tape' = tape \o SubSeq(Buffered, 1, 1)
        /\ dropped' \cup broken' = dropped \cup broken \cup Range(SubSeq(Buffered, 2, 1))
    BY <1>2, <1>3, <1>5, <2>1
  <2>. QED
    BY <1>2, <2>2, FaultIs, Zenon
<1>. QED
  BY <1>4, <1>5

LEMMA FaultCostsAll ==
  ASSUME SafeInv, Buffered # <<>>, Buffered' = <<>>,
         \/ UNCHANGED tape /\ broken' = broken \cup Range(Buffered)
         \/ /\ tape' = Append(tape, Head(Buffered))
            /\ broken' = broken \cup Range(Tail(Buffered)),
         UNCHANGED dropped, Captured' = Captured,
         state # "STOPPED", state' # "STOPPED", Faulty'
  PROVE  Tape!Fail
<1>. DEFINE n == Len(Buffered)
<1>1. Buffered \in Seq(Int) /\ tape \in Seq(Int)
  BY BufferIs, Numbers DEF InOnePlace, SafeInv, LifeInv, BlocksInv
<1>2. /\ SubSeq(Buffered, 1, 0) = <<>> /\ SubSeq(Buffered, 1, 1) = <<Head(Buffered)>>
      /\ SubSeq(Buffered, 1, n) = Buffered /\ SubSeq(Buffered, 2, n) = Tail(Buffered)
      /\ Buffered' = SubSeq(Buffered, n + 1, Len(Buffered)) /\ n \in 0..Len(Buffered)
  BY <1>1, Slices
<1>. /\ 0 \in {0, 1} /\ 1 \in {0, 1} /\ 0 <= n /\ 1 <= n /\ 1 = 0 + 1 /\ 2 = 1 + 1
  BY <1>1
<1>. HIDE DEF n
<1>3. CASE UNCHANGED tape /\ broken' = broken \cup Range(Buffered)
  <2>1. /\ tape' = tape \o SubSeq(Buffered, 1, 0)
        /\ dropped' \cup broken' = dropped \cup broken \cup Range(SubSeq(Buffered, 1, n))
    BY <1>1, <1>2, <1>3, CatNone
  <2>. QED
    BY <1>2, <2>1, FaultIs, Zenon
<1>4. CASE /\ tape' = Append(tape, Head(Buffered))
           /\ broken' = broken \cup Range(Tail(Buffered))
  <2>1. tape' = tape \o <<Head(Buffered)>>
    BY <1>1, <1>4
  <2>2. /\ tape' = tape \o SubSeq(Buffered, 1, 1)
        /\ dropped' \cup broken' = dropped \cup broken \cup Range(SubSeq(Buffered, 2, n))
    BY <1>2, <1>4, <2>1
  <2>. QED
    BY <1>2, <2>2, FaultIs, Zenon
<1>. QED
  BY <1>3, <1>4

LEMMA Stutters ==
  ASSUME Captured' = Captured, Buffered' = Buffered, UNCHANGED <<tape, dropped, broken>>,
         Faulty' = Faulty, state = "STOPPED" <=> state' = "STOPPED"
  PROVE  UNCHANGED Tape!vars
BY DEF Tape!vars, Buffered, Captured, Faulty

-----------------------------------------------------------------------------
(* Each step *)

LEMMA CallbackRecords ==
  ASSUME SafeInv, Callback PROVE [Tape!Next]_Tape!vars
<1>. USE DEF SafeInv, LifeInv, BlocksInv
<1>0. /\ tape \in Seq(Int) /\ Buffered \in Seq(Int) /\ delivered \in Nat
      /\ Len(<<>>) = 0 /\ \A x : Len(<<x>>) = 1
  BY BufferIs, Numbers DEF InOnePlace
<1>1. CASE Deliver
  <2>1. Captured = delivered /\ Captured' = delivered
    BY <1>0, <1>1 DEF Deliver, Captured, InHand
  <2>2. Buffered' = Buffered /\ Faulty' = Faulty
    BY <1>1 DEF Deliver, Buffered, Item, Faulty, queueVars, writerVars, callVars
  <2>3. UNCHANGED <<tape, dropped, broken, state>>
    BY <1>1 DEF Deliver, queueVars, discVars
  <2>. QED
    BY <2>1, <2>2, <2>3, Stutters
<1>2. CASE PutAccepted \/ PutRefused
  <2>1. /\ cb.pc = "put" /\ cb.block = delivered /\ cb'.pc # "put"
        /\ UNCHANGED <<delivered, tape, broken, state>> /\ Faulty' = Faulty
    BY <1>2 DEF PutAccepted, PutRefused, StreamInv, discVars, Faulty, writerVars
  <2>2. Captured = delivered - 1 /\ Captured' = delivered
    BY <1>0, <2>1 DEF Captured, InHand
  <2>3. state # "STOPPED"
    BY <2>1, NotSealed
  <2>4. delivered \in 1..MaxBlocks
    BY <2>1 DEF TypeOK, CallbackType, Blocks
  <2>5. \/ Buffered' = Append(Buffered, delivered) /\ UNCHANGED dropped
        \/ Buffered' = Buffered /\ dropped' = dropped \cup {delivered}
    <3>1. CASE PutAccepted
      <4>1. /\ queue' = Append(queue, delivered) /\ UNCHANGED <<witem, citems, dropped>>
        BY <2>1, <3>1 DEF PutAccepted, writerVars, callVars
      <4>2. Item \o citems \in Seq(Int) /\ queue \in Seq(Int)
        BY EndsOfPipeline, Numbers
      <4>3. Buffered' = (Item \o citems) \o Append(queue, delivered)
        BY <4>1 DEF Buffered, Item
      <4>4. (Item \o citems) \o Append(queue, delivered) = Append(Buffered, delivered)
        <5>. DEFINE p == Item \o citems
        <5>. HIDE DEF p
        <5>1. p \in Seq(Int) => p \o Append(queue, delivered) = Append(p \o queue, delivered)
          BY <4>2, <1>0, AppendLast
        <5>. QED
          BY <4>2, <5>1 DEF p, Buffered
      <4>. QED
        BY <4>1, <4>3, <4>4
    <3>2. CASE PutRefused
      BY <2>1, <3>2 DEF PutRefused, Buffered, Item, writerVars, callVars
    <3>. QED
      BY <1>2, <3>1, <3>2
  <2>6. Tape!Capture
    <3>1. Captured + 1 \in 1..MaxBlocks /\ Captured' = Captured + 1
      BY <1>0, <2>2, <2>4
    <3>2. \/ /\ Buffered' = Append(Buffered, Captured + 1)
             /\ UNCHANGED (dropped \cup broken)
          \/ /\ (dropped \cup broken)' = dropped \cup broken \cup {Captured + 1}
             /\ UNCHANGED Buffered
      BY <1>0, <2>1, <2>2, <2>5
    <3>. QED
      BY <2>1, <2>3, <3>1, <3>2 DEF Tape!Capture, Captured, Buffered, Faulty
  <2>. QED
    BY <2>6 DEF Tape!Next
<1>3. CASE Tally
  <2>1. Captured' = Captured
    BY <1>3 DEF Tally, Captured, InHand
  <2>2. Buffered' = Buffered /\ Faulty' = Faulty
    BY <1>3 DEF Tally, Buffered, Item, Faulty, queueVars, writerVars, callVars
  <2>3. UNCHANGED <<tape, dropped, broken, state>>
    BY <1>3 DEF Tally, queueVars, discVars
  <2>. QED
    BY <2>1, <2>2, <2>3, Stutters
<1>. QED
  BY <1>1, <1>2, <1>3 DEF Callback

\* One block of what is buffered is written.
LEMMA WritesFirst ==
  ASSUME Buffered # <<>>, Buffered' = Tail(Buffered),
         tape' = Append(tape, Head(Buffered)), UNCHANGED <<dropped, broken>>,
         Captured' = Captured, Faulty' = Faulty, state = "STOPPED" <=> state' = "STOPPED"
  PROVE  Tape!Next
BY DEF Tape!Next, Tape!Commit, Buffered, Captured, Faulty

LEMMA CapturedStays ==
  ASSUME UNCHANGED <<delivered, cb>> PROVE Captured' = Captured
BY DEF Captured, InHand

LEMMA HeadFirst ==
  ASSUME NEW e, NEW s \in Seq(Int), e \in Int
  PROVE  /\ <<e>> \o s # <<>> /\ Head(<<e>> \o s) = e /\ Tail(<<e>> \o s) = s
OBVIOUS

LEMMA HeadAndTail ==
  ASSUME NEW s \in Seq(Int), s # <<>> PROVE <<Head(s)>> \o Tail(s) = s
OBVIOUS

LEMMA WriterRecords ==
  ASSUME ~MayTimeOut, SafeInv, Writer PROVE [Tape!Next]_Tape!vars
<1>0. /\ SafeInv' /\ TypeOK /\ TypeOK' /\ WriterGone /\ CallInv
      /\ queue \in Seq(Int) /\ witem \in Int
  <2>1. SafeInv'
    BY NextSafe DEF Next
  <2>. QED
    BY <2>1, Numbers DEF SafeInv, LifeInv, BlocksInv, OrderInv
<1>1. /\ UNCHANGED <<delivered, cb, dropped, op, cpc, citems>> /\ Captured' = Captured
  <2>1. UNCHANGED <<delivered, cb, dropped, op, cpc, citems>>
    BY DEF Writer, WriterPops, WriterFindsNothing, WriterRests, WriterBusy,
       WriterTakesLoss, WriterWrites, WriterSettles, WriterRaises, WriterDies,
       queueVars, callVars
  <2>. QED
    BY <2>1, CapturedStays
<1>2. wpc \notin Gone /\ cpc \notin Draining /\ cpc' \notin Draining
  <2>1. wpc \notin Gone
    BY DEF Writer, WriterPops, WriterFindsNothing, WriterRests, WriterBusy,
       WriterTakesLoss, WriterWrites, WriterSettles, WriterRaises, WriterDies, Gone
  <2>. QED
    BY <1>0, <1>1, <2>1 DEF WriterGone
<1>3. state # "STOPPED"
  BY <1>2, NotSealed
<1>4. CASE WriterPops
  <2>1. /\ wpc = "get" /\ wpc' = "popped" /\ queue # <<>> /\ queue' = Tail(queue)
        /\ witem' = Head(queue) /\ UNCHANGED <<tape, broken, error, state>>
    BY <1>4 DEF WriterPops, discVars
  <2>2. Buffered = queue
    BY <1>2, <2>1, BufferIs DEF InOnePlace, Holding
  <2>3. Buffered' = <<witem'>> \o queue'
    BY <1>0, <2>1, BufferWillBe DEF InOnePlace, Holding
  <2>4. Buffered' = Buffered
    BY <1>0, <2>1, <2>2, <2>3, HeadAndTail
  <2>. QED
    BY <1>1, <2>1, <2>4, Stutters DEF Faulty
<1>5. CASE WriterFindsNothing \/ WriterRests \/ WriterBusy \/ WriterTakesLoss
             \/ WriterSettles
  <2>1. /\ UNCHANGED <<queue, witem, tape, broken, error, state>>
        /\ wpc # "failing" /\ wpc' # "failing"
    BY <1>5 DEF WriterFindsNothing, WriterRests, WriterBusy, WriterTakesLoss,
       WriterSettles, queueVars, discVars
  <2>2. Buffered' = Buffered
    BY <1>1, <2>1 DEF Buffered, Item
  <2>. QED
    BY <1>1, <2>1, <2>2, Stutters DEF Faulty
<1>6. CASE WriterWrites \/ WriterRaises
  <2>1. /\ wpc = "write" /\ wpc' \in {"written", "failing"}
        /\ UNCHANGED <<queue, error, state>>
    BY <1>6 DEF WriterWrites, WriterRaises, queueVars
  <2>2. Buffered = <<witem>> \o queue
    BY <2>1, BufferIs DEF InOnePlace, Holding
  <2>3. Buffered' = queue
    BY <1>0, <1>2, <2>1, BufferWillBe DEF InOnePlace, Holding
  <2>4. Buffered # <<>> /\ Head(Buffered) = witem /\ Buffered' = Tail(Buffered)
    BY <1>0, <2>2, <2>3, HeadFirst
  <2>5. CASE WriterWrites
    <3>1. /\ tape' = Append(tape, witem) /\ UNCHANGED broken /\ wpc' # "failing"
      BY <2>5 DEF WriterWrites, WriteBlock
    <3>2. Faulty' = Faulty
      BY <2>1, <3>1 DEF Faulty
    <3>. QED
      BY <1>1, <2>1, <2>4, <3>1, <3>2, WritesFirst
  <2>6. CASE WriterRaises
    <3>1. /\ wpc' = "failing"
          /\ \/ UNCHANGED tape /\ broken' = broken \cup {witem}
             \/ tape' = Append(tape, witem) /\ UNCHANGED broken
      BY <2>6 DEF WriterRaises, WriteFails
    <3>2. Faulty'
      BY <3>1 DEF Faulty
    <3>. QED
      BY <1>1, <1>3, <2>1, <2>4, <3>1, <3>2, FaultCostsFirst DEF Tape!Next
  <2>. QED
    BY <1>6, <2>5, <2>6
<1>7. CASE WriterDies
  <2>1. /\ UNCHANGED <<queue, witem, tape, broken>> /\ wpc = "failing" /\ error'
        /\ state' = Failed(state)
    BY <1>7 DEF WriterDies, queueVars, discVars
  <2>2. Buffered' = Buffered /\ Faulty /\ Faulty' /\ state' # "STOPPED"
    BY <1>1, <1>3, <2>1 DEF Buffered, Item, Faulty, Failed
  <2>. QED
    BY <1>1, <1>3, <2>1, <2>2, Stutters
<1>. QED
  BY <1>4, <1>5, <1>6, <1>7 DEF Writer

\* A step that moves neither audio nor the fault.
LEMMA Leaves ==
  ASSUME UNCHANGED <<delivered, cb, queue, witem, citems, tape, dropped, broken, error, wpc>>,
         state = "STOPPED" <=> state' = "STOPPED"
  PROVE  UNCHANGED Tape!vars
<1>1. Buffered' = Buffered /\ Faulty' = Faulty /\ Captured' = Captured
  BY DEF Buffered, Item, Faulty, Captured, InHand
<1>. QED
  BY <1>1, Stutters

\* A recording is sealed: nothing is buffered and nothing has failed.
LEMMA Seals ==
  ASSUME UNCHANGED <<delivered, cb, queue, witem, citems, tape, dropped, broken, error, wpc>>,
         state # "STOPPED", state' = "STOPPED", ~error, wpc # "failing", Buffered = <<>>
  PROVE  Tape!Next
<1>1. Buffered' = Buffered /\ Faulty' = Faulty /\ Captured' = Captured /\ ~Faulty
  BY DEF Buffered, Item, Faulty, Captured, InHand
<1>2. Tape!Seal
  BY <1>1 DEF Tape!Seal, Buffered, Faulty, Captured
<1>. QED
  BY <1>2 DEF Tape!Next

LEMMA CallRecords ==
  ASSUME SafeInv, Call PROVE [Tape!Next]_Tape!vars
<1>1. UNCHANGED <<delivered, cb, queue, witem, citems, tape, dropped, broken, error>>
  BY DEF Call, Start, Pause, Resume, Stop, Abandon, ReturnAtOnce, queueVars, writerVars,
     discVars
<1>2. CASE Start
  <2>1. wpc = "none" /\ wpc' = "get" /\ state = "IDLE" /\ state' = "RUNNING"
    BY <1>2 DEF Start, SafeInv, LifeInv, RestInv
  <2>2. Buffered' = Buffered /\ Faulty' = Faulty /\ Captured' = Captured
    BY <1>1, <2>1 DEF Buffered, Item, Faulty, Captured, InHand
  <2>. QED
    BY <1>1, <2>1, <2>2, Stutters
<1>3. CASE Pause \/ Resume \/ Stop \/ Abandon
  <2>1. UNCHANGED wpc /\ state # "STOPPED" /\ state' # "STOPPED"
    BY <1>3 DEF Pause, Resume, Stop, Abandon, writerVars
  <2>. QED
    BY <1>1, <2>1, Leaves
<1>4. CASE ReturnAtOnce
  <2>1. UNCHANGED wpc
    BY <1>4 DEF ReturnAtOnce, writerVars
  <2>2. CASE state # "IDLE"
    <3>1. UNCHANGED state
      BY <1>4, <2>2 DEF ReturnAtOnce
    <3>. QED
      BY <1>1, <2>1, <3>1, Leaves
  <2>3. CASE state = "IDLE"
    <3>1. /\ state' = "STOPPED" /\ ~error /\ wpc = "none" /\ queue = <<>> /\ op = "none"
      BY <1>4, <2>3 DEF ReturnAtOnce, SafeInv, LifeInv, RestInv, Quiet
    <3>2. cpc \notin Draining /\ wpc \notin Holding /\ wpc # "failing"
      BY <3>1 DEF SafeInv, LifeInv, BlocksInv, CallInv, Draining, DrainSteps, WriteSteps,
         Holding
    <3>3. Buffered = <<>>
      BY <3>1, <3>2, BufferIs DEF InOnePlace
    <3>. QED
      BY <1>1, <2>1, <2>3, <3>1, <3>2, <3>3, Seals
  <2>. QED
    BY <2>2, <2>3
<1>. QED
  BY <1>2, <1>3, <1>4 DEF Call

\* What the controlling thread finds and leaves alone.
LEMMA InACall ==
  ASSUME SafeInv, Controller
  PROVE  /\ state # "STOPPED" /\ Captured' = Captured
         /\ UNCHANGED <<delivered, cb, dropped, wpc, witem>>
<1>1. UNCHANGED <<delivered, cb, dropped, wpc, witem>> /\ cpc # "ready"
  BY DEF Controller, StreamOpens, StreamRefused, StopStream, AwaitDrained,
     AwaitTakesOver, Shutdown, Join, DrainTakesLoss, DrainWrites, DrainRaises,
     DrainEscapes, DrainEnds, PauseFinishes, StopFinishes, StopEscapes,
     AbandonFinishes, StartFinishes, DrainSteps, WriteSteps, queueVars, writerVars
<1>. QED
  BY <1>1, CapturedStays, NotSealed

\* Blocks change hands only when the writer thread is gone.
LEMMA TakeOverRecords ==
  ASSUME ~MayTimeOut, SafeInv, AwaitTakesOver \/ Join PROVE UNCHANGED Tape!vars
<1>1. SafeInv'
  BY NextSafe DEF Next, Controller
<1>2. /\ Captured' = Captured /\ UNCHANGED <<wpc, dropped, broken, tape, state, error>>
  <2>1. Captured' = Captured
    BY InACall DEF Controller
  <2>2. UNCHANGED <<wpc, dropped, broken, tape, state, error>>
    BY DEF AwaitTakesOver, Join, queueVars, writerVars, discVars
  <2>. QED
    BY <2>1, <2>2
<1>3. cpc \notin Draining /\ cpc' \in Draining /\ citems' = queue
  BY DEF AwaitTakesOver, Join, TakeQueue, Draining, DrainSteps, WriteSteps
<1>4. wpc \in Gone
  BY <1>1, <1>2, <1>3 DEF SafeInv, OrderInv, WriterGone
<1>5. Buffered = queue
  BY <1>3, <1>4, BufferIs DEF InOnePlace, Gone, Holding
<1>6. Buffered' = citems'
  BY <1>1, <1>3, BufferWillBe DEF InOnePlace
<1>. QED
  BY <1>2, <1>3, <1>5, <1>6, Stutters DEF Faulty

\* A block of the drain is written, or costs what the drain still holds.
LEMMA DrainRecords ==
  ASSUME ~MayTimeOut, SafeInv, DrainWrites \/ DrainRaises \/ DrainEscapes PROVE Tape!Next
<1>1. SafeInv' /\ SafeInv /\ CallInv' /\ TypeOK
  <2>1. SafeInv'
    BY NextSafe DEF Next, Controller
  <2>. QED
    BY <2>1 DEF SafeInv, LifeInv, BlocksInv
<1>2. /\ state # "STOPPED" /\ Captured' = Captured /\ UNCHANGED <<dropped, wpc, queue>>
  BY InACall DEF Controller, DrainWrites, DrainRaises, DrainEscapes, queueVars
<1>3. cpc \in Draining /\ citems # <<>>
  BY <1>1 DEF DrainWrites, DrainRaises, DrainEscapes, TypeOK, CallType, Draining
<1>4. Buffered = citems /\ queue = <<>> /\ wpc \in Gone
  BY <1>3, BufferIs DEF InOnePlace, SafeInv, OrderInv, WriterGone
<1>5. Buffered' = citems'
  <2>1. CASE cpc' \in Draining
    BY <1>1, <2>1, BufferWillBe DEF InOnePlace
  <2>2. CASE cpc' \notin Draining
    <3>1. citems' = <<>>
      BY <1>1, <2>2 DEF CallInv
    <3>2. Buffered' = queue'
      BY <1>1, <1>2, <1>4, <2>2, BufferWillBe DEF InOnePlace, Gone, Holding
    <3>. QED
      BY <1>2, <1>4, <3>1, <3>2
  <2>. QED
    BY <2>1, <2>2
<1>6. error
  BY <1>3 DEF SafeInv, FaultInv
<1>7. CASE DrainWrites
  <2>1. /\ tape' = Append(tape, Head(citems)) /\ citems' = Tail(citems)
        /\ UNCHANGED <<broken, error, state>>
    BY <1>7 DEF DrainWrites, WriteBlock
  <2>2. Faulty' = Faulty
    BY <1>2, <2>1 DEF Faulty
  <2>. QED
    BY <1>2, <1>3, <1>4, <1>5, <2>1, <2>2, WritesFirst
<1>8. CASE DrainRaises \/ DrainEscapes
  <2>1. /\ citems' = <<>> /\ error' /\ state' # "STOPPED"
    BY <1>2, <1>6, <1>8 DEF DrainRaises, DrainEscapes, Failed
  <2>2. \/ UNCHANGED tape /\ broken' = broken \cup Range(citems)
        \/ /\ tape' = Append(tape, Head(citems))
           /\ broken' = broken \cup Range(Tail(citems))
    <3>1. CASE DrainEscapes
      BY <3>1 DEF DrainEscapes
    <3>2. CASE DrainRaises
      <4>1. citems \in Seq(Int)
        BY <1>1, Numbers
      <4>2. Range(citems) = {Head(citems)} \cup Range(Tail(citems))
        BY <1>3, <4>1, PopPiece
      <4>. QED
        BY <3>2, <4>2 DEF DrainRaises, WriteFails
    <3>. QED
      BY <1>8, <3>1, <3>2
  <2>3. Faulty'
    BY <2>1 DEF Faulty
  <2>4. Tape!Fail
    BY <1>2, <1>3, <1>4, <1>5, <2>1, <2>2, <2>3, FaultCostsAll
  <2>. QED
    BY <2>4 DEF Tape!Next
<1>. QED
  BY <1>7, <1>8

\* stop seals the recording, or leaves it faulty.
LEMMA StopRecords ==
  ASSUME ~MayTimeOut, SafeInv, StopFinishes PROVE [Tape!Next]_Tape!vars
<1>1. /\ cpc = "finish" /\ op = "stop" /\ state' = IF error' THEN "FAILED" ELSE "STOPPED"
      /\ UNCHANGED error \/ error'
      /\ UNCHANGED <<delivered, cb, queue, witem, citems, tape, dropped, broken, wpc>>
  BY DEF StopFinishes, EndChunk, queueVars, writerVars
<1>2. state # "STOPPED"
  BY InACall DEF Controller
<1>3. CASE UNCHANGED error /\ error
  BY <1>1, <1>2, <1>3, Leaves
<1>4. CASE UNCHANGED error /\ ~error
  <2>1. ~thread /\ queue = <<>> /\ cpc \notin Draining
    BY <1>1 DEF SafeInv, LifeInv, BlocksInv, CallInv, QueueInv, Draining, DrainSteps,
       WriteSteps
  <2>2. wpc \in Gone
    BY <1>1, <2>1 DEF SafeInv, OrderInv, WriterGone
  <2>3. Buffered = <<>>
    BY <2>1, <2>2, BufferIs DEF InOnePlace, Gone, Holding
  <2>. QED
    BY <1>1, <1>2, <1>4, <2>2, <2>3, Seals DEF Gone
<1>5. CASE error'
  <2>1. Buffered' = Buffered /\ Captured' = Captured /\ Faulty'
    BY <1>1, <1>5 DEF Buffered, Item, Captured, InHand, Faulty
  <2>2. Tape!Fail
    BY <1>1, <1>2, <1>5, <2>1, FaultCostsNothing
  <2>. QED
    BY <2>2 DEF Tape!Next
<1>. QED
  BY <1>1, <1>3, <1>4, <1>5

LEMMA ControllerRecords ==
  ASSUME ~MayTimeOut, SafeInv, Controller PROVE [Tape!Next]_Tape!vars
<1>0. /\ state # "STOPPED" /\ Captured' = Captured
      /\ UNCHANGED <<delivered, cb, dropped, wpc, witem>>
  BY InACall
<1>1. CASE StreamOpens \/ StopStream \/ AwaitDrained \/ Shutdown \/ DrainTakesLoss
             \/ DrainEnds \/ PauseFinishes \/ StopEscapes \/ StartFinishes
  <2>1. UNCHANGED <<queue, citems, tape, broken, error, state>>
    BY <1>1 DEF StreamOpens, StopStream, AwaitDrained, Shutdown, DrainTakesLoss,
       DrainEnds, PauseFinishes, StopEscapes, StartFinishes, EndChunk, queueVars, discVars
  <2>. QED
    BY <1>0, <2>1, Leaves
<1>2. CASE AbandonFinishes
  <2>1. UNCHANGED <<queue, citems, tape, broken, error>> /\ state' = "FAILED"
    BY <1>2 DEF AbandonFinishes, EndChunk, queueVars
  <2>. QED
    BY <1>0, <2>1, Leaves
<1>3. CASE StreamRefused
  <2>1. UNCHANGED <<queue, citems, tape, broken>> /\ error' /\ state' # "STOPPED"
    BY <1>0, <1>3 DEF StreamRefused, Failed, queueVars, discVars
  <2>2. Buffered' = Buffered /\ Faulty'
    BY <1>0, <2>1 DEF Buffered, Item, Faulty
  <2>3. Tape!Fail
    BY <1>0, <2>1, <2>2, FaultCostsNothing
  <2>. QED
    BY <2>3 DEF Tape!Next
<1>. QED
  BY <1>1, <1>2, <1>3, TakeOverRecords, DrainRecords, StopRecords DEF Controller

LEMMA StepRecords ==
  ASSUME ~MayTimeOut, SafeInv, [Next]_vars PROVE [Tape!Next]_Tape!vars
<1>1. CASE UNCHANGED vars
  BY <1>1, Leaves DEF vars, queueVars, writerVars, callVars, discVars
<1>. QED
  BY <1>1, CallbackRecords, WriterRecords, CallRecords, ControllerRecords DEF Next

LEMMA InitRecords == Init => Tape!Init
<1>. SUFFICES ASSUME Init PROVE Tape!Init
  OBVIOUS
<1>1. Captured = 0 /\ ~Faulty
  <2>1. delivered = 0 /\ cb.pc = "idle" /\ ~error /\ wpc = "none"
    BY DEF Init
  <2>2. Captured = 0
    <3>1. InHand = <<>>
      BY <2>1 DEF InHand
    <3>2. Len(InHand) = 0
      BY <3>1
    <3>. QED
      BY <2>1, <3>2 DEF Captured
  <2>3. ~Faulty
    BY <2>1, Zenon DEF Faulty
  <2>. QED
    BY <2>2, <2>3
<1>2. Buffered = <<>>
  BY CatNone DEF Init, Buffered, Item
<1>. QED
  BY <1>1, <1>2 DEF Init, Tape!Init, Captured, Buffered, Faulty

\* The callback, the queue, the writer thread and the calls of the controlling thread
\* together are one recorder: every block is kept in order or lost on the spot, what is
\* kept is committed in order, a fault loses nothing that is on the tape, and only a
\* recording without a fault and with nothing on its way is sealed, for good.
THEOREM ThreadsAreOneRecorder == ASSUME ~MayTimeOut PROVE Spec => ImplementsRecorder
<1>1. SafeInv /\ [Next]_vars => SafeInv'
  BY NextSafe
<1>2. SafeInv /\ [Next]_vars => [Tape!Next]_Tape!vars
  BY StepRecords
<1>. QED
  BY InitSafe, InitRecords, <1>1, <1>2, PTL DEF Spec, ImplementsRecorder, Tape!Spec
=============================================================================
