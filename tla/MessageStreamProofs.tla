-------------------------- MODULE MessageStreamProofs --------------------------
(***************************************************************************)
(* Proofs about MessageStream, for every number of workers that read the   *)
(* connection, all messages and every size of the buffer.                  *)
(*                                                                         *)
(* Where messages end is defined by recursion.  What the proofs need of it *)
(* (that the definition is one, and that the ends grow) is by induction,   *)
(* which is used in the form SetInduction, about a set of numbers.         *)
(***************************************************************************)
EXTENDS MessageStream, SequenceTheorems, WellFoundedInduction, TLAPS

(* What a worker has in its hands was read, and is at least a byte.        *)
ChunksAreBytes == \A w \in Readers : readers[w] = "handle" => chunk[w][1] < chunk[w][2]

(* No byte is in the hands of two workers.                                 *)
ChunksApart ==
  \A v, w \in Readers :
    v # w /\ readers[v] = "handle" /\ readers[w] = "handle"
      => chunk[v][2] <= chunk[w][1] \/ chunk[w][2] <= chunk[v][1]

(* A handled message was read.  The second part bounds how many there are. *)
HeardWasRead ==
  \A w \in Readers : \A i \in 1..Len(heard[w]) :
    Ends[heard[w][i]] <= read /\ i <= heard[w][i]

(* What a worker has in its hands comes after the messages it handled, and *)
(* shares no byte with those that others handled.                          *)
HeardApart ==
  \A v, w \in Readers : \A i \in 1..Len(heard[v]) :
    readers[w] = "handle"
      => \/ Ends[heard[v][i]] <= chunk[w][1]
         \/ v # w /\ chunk[w][2] <= Ends[heard[v][i] - 1]

(* A message that fits the buffer and is not crowded is still to come, or  *)
(* alone in the kernel, or was read in one piece.                          *)
UncrowdedIsKept ==
  \A m \in Messages :
    Lengths[m] <= BufferSize /\ m \notin crowded
      => \/ arrived <= Ends[m - 1]
         \/ read = Ends[m - 1] /\ arrived = Ends[m]
         \/ Ends[m] <= read /\ (Heard(m) \/ InHand(m))

StreamInv ==
  /\ TypeOK /\ ChunksAreBytes /\ ChunksApart /\ HeardWasRead /\ HeardApart
  /\ HandledOnceInOrder /\ UncrowdedIsKept

------------------------------------------------------------------------------
(* Induction                                                               *)

(* From the library: the order of Nat is well founded.                     *)
LEMMA LeastNumber ==
  ASSUME NEW T, T \subseteq Nat, T # {}
  PROVE  \E n \in T : \A m \in T : n <= m
<1>1. ASSUME NEW R, IsWellFoundedOn(R, Nat), \A x, y \in Nat : x < y => <<x, y>> \in R
      PROVE  \E n \in T : \A m \in T : n <= m
  <2>1. IsWellFoundedOn(R, Nat)
    BY <1>1
  <2>2. PICK n \in T : \A m \in T : ~ (<<m, n>> \in R)
    BY <2>1, WFMin, Zenon
  <2>3. ASSUME NEW m \in T PROVE n <= m
    <3>1. n \in Nat /\ m \in Nat /\ ~ (m < n)
      BY <1>1, <2>2
    <3> QED BY <3>1
  <2> QED BY <2>3
<1>2. \A x, y \in Nat : x < y => <<x, y>> \in OpToRel(<, Nat)
  BY DEF OpToRel
<1> QED BY <1>1, <1>2, NatLessThanWellFounded, Zenon

(* A set with 0 and with n + 1 for each n in it is Nat.                    *)
LEMMA SetInduction ==
  ASSUME NEW S, S \subseteq Nat, 0 \in S, \A n \in S : n + 1 \in S
  PROVE  S = Nat
<1>1. ASSUME Nat \ S # {} PROVE FALSE
  <2>1. PICK n \in Nat \ S : \A m \in Nat \ S : n <= m
    BY <1>1, LeastNumber, Zenon
  <2>2. n - 1 \in Nat /\ ~ (n <= n - 1)
    BY <2>1
  <2>3. n - 1 \in S /\ (n - 1) + 1 = n
    BY <2>1, <2>2
  <2> QED BY <2>1, <2>3
<1> QED BY <1>1

------------------------------------------------------------------------------
(* Where the messages end                                                  *)

LEMMA LengthsType ==
  /\ Len(Lengths) \in Nat /\ BufferSize \in Nat /\ BufferSize > 0
  /\ \A m \in Messages : m \in Nat /\ m - 1 \in 0..Len(Lengths)
                         /\ m \in 0..Len(Lengths) /\ Lengths[m] \in Nat /\ Lengths[m] > 0
BY StreamAssumption DEF Messages

(* The recursive definition has a solution up to every n.                  *)
LEMMA EndsExists ==
  \A n \in Nat : \E f : f = [m \in 0..n |-> IF m = 0 THEN 0 ELSE f[m - 1] + Lengths[m]]
<1> DEFINE S == {n \in Nat :
       \E f : f = [m \in 0..n |-> IF m = 0 THEN 0 ELSE f[m - 1] + Lengths[m]]}
<1>1. 0 \in S
  <2> DEFINE f == [m \in 0..0 |-> 0]
  <2>1. f = [m \in 0..0 |-> IF m = 0 THEN 0 ELSE f[m - 1] + Lengths[m]]
    OBVIOUS
  <2> QED BY <2>1
<1>2. ASSUME NEW n \in S PROVE n + 1 \in S
  <2>1. PICK f : f = [m \in 0..n |-> IF m = 0 THEN 0 ELSE f[m - 1] + Lengths[m]]
    OBVIOUS
  <2> DEFINE g == [m \in 0..n + 1 |-> IF m = n + 1 THEN f[n] + Lengths[m] ELSE f[m]]
  <2>2. ASSUME NEW m \in 0..n + 1
        PROVE  g[m] = IF m = 0 THEN 0 ELSE g[m - 1] + Lengths[m]
    <3>1. CASE m = n + 1
      BY <3>1
    <3>2. CASE m # n + 1
      <4>1. m \in 0..n /\ (m # 0 => m - 1 \in 0..n)
        BY <3>2
      <4>2. f[m] = IF m = 0 THEN 0 ELSE f[m - 1] + Lengths[m]
        BY <2>1, <4>1
      <4> QED BY <4>1, <4>2
    <3> QED BY <3>1, <3>2
  <2>3. g = [m \in 0..n + 1 |-> IF m = 0 THEN 0 ELSE g[m - 1] + Lengths[m]]
    BY <2>2
  <2> HIDE DEF g
  <2> QED BY <2>3
<1>3. S = Nat
  <2> HIDE DEF S
  <2>1. S \subseteq Nat
    BY DEF S
  <2> QED BY <1>1, <1>2, <2>1, SetInduction
<1> QED BY <1>3

(* The definition of Ends as an equation, which the CHOOSE in it satisfies *)
(* because of EndsExists.                                                  *)
LEMMA EndsDef ==
  \A m \in 0..Len(Lengths) : Ends[m] = IF m = 0 THEN 0 ELSE Ends[m - 1] + Lengths[m]
<1>1. Ends = [m \in 0..Len(Lengths) |-> IF m = 0 THEN 0 ELSE Ends[m - 1] + Lengths[m]]
  BY EndsExists, LengthsType DEF Ends
<1> QED BY <1>1

(* An end is a number of bytes.                                           *)
LEMMA EndsType == Ends \in [0..Len(Lengths) -> Nat]
<1> DEFINE S == {n \in Nat : n <= Len(Lengths) => Ends[n] \in Nat}
<1>1. 0 \in S
  BY EndsDef, LengthsType
<1>2. ASSUME NEW n \in S PROVE n + 1 \in S
  <2> SUFFICES ASSUME n + 1 <= Len(Lengths) PROVE Ends[n + 1] \in Nat
    OBVIOUS
  <2>1. n + 1 \in 1..Len(Lengths) /\ n <= Len(Lengths) /\ (n + 1) - 1 = n /\ n + 1 # 0
    BY LengthsType
  <2>2. Ends[n + 1] = Ends[n] + Lengths[n + 1] /\ Ends[n] \in Nat
    BY <2>1, EndsDef
  <2> QED BY <2>1, <2>2, LengthsType DEF Messages
<1>3. S = Nat
  <2> HIDE DEF S
  <2>1. S \subseteq Nat
    BY DEF S
  <2> QED BY <1>1, <1>2, <2>1, SetInduction
<1>4. \A m \in 0..Len(Lengths) : Ends[m] \in Nat
  BY <1>3, LengthsType
<1>5. Ends = [m \in 0..Len(Lengths) |-> IF m = 0 THEN 0 ELSE Ends[m - 1] + Lengths[m]]
  BY EndsExists, LengthsType DEF Ends
<1> QED BY <1>4, <1>5

(* Later messages end later.                                               *)
LEMMA EndsGrow ==
  \A m, n \in 0..Len(Lengths) : m < n => Ends[m] < Ends[n]
<1> DEFINE S == {n \in Nat : n <= Len(Lengths) => \A m \in 0..n : m < n => Ends[m] < Ends[n]}
<1>1. 0 \in S
  OBVIOUS
<1>2. ASSUME NEW n \in S PROVE n + 1 \in S
  <2> SUFFICES ASSUME n + 1 <= Len(Lengths), NEW m \in 0..n + 1, m < n + 1
               PROVE  Ends[m] < Ends[n + 1]
    OBVIOUS
  <2>1. n + 1 \in Messages /\ n \in 0..Len(Lengths) /\ m \in 0..Len(Lengths)
        /\ (n + 1) - 1 = n
    BY LengthsType DEF Messages
  <2>2. Ends[n + 1] = Ends[n] + Lengths[n + 1] /\ Lengths[n + 1] \in Nat /\ Lengths[n + 1] > 0
    BY <2>1, EndsDef, LengthsType
  <2>3. Ends[n] \in Nat /\ Ends[m] \in Nat
    BY <2>1, EndsType
  <2>4. m = n \/ Ends[m] < Ends[n]
    BY <2>1
  <2> QED BY <2>2, <2>3, <2>4
<1>3. S = Nat
  <2> HIDE DEF S
  <2>1. S \subseteq Nat
    BY DEF S
  <2> QED BY <1>1, <1>2, <2>1, SetInduction
<1> QED BY <1>3, LengthsType

(* All that the rest needs of the ends: they are those of consecutive      *)
(* messages of at least one byte.                                          *)
LEMMA EndsFacts ==
  /\ Ends[0] = 0 /\ Ends[Len(Lengths)] \in Nat
  /\ \A m \in Messages :
       /\ Ends[m - 1] \in Nat /\ Ends[m] \in Nat /\ Ends[m - 1] < Ends[m]
       /\ Ends[m] - Ends[m - 1] = Lengths[m]
       /\ Ends[m] <= Ends[Len(Lengths)]
  /\ \A m, n \in Messages : m < n => Ends[m] <= Ends[n - 1]
<1>1. Ends[0] = 0 /\ Ends[Len(Lengths)] \in Nat
  BY EndsDef, EndsType, LengthsType
<1>2. ASSUME NEW m \in Messages
      PROVE  /\ Ends[m - 1] \in Nat /\ Ends[m] \in Nat /\ Ends[m - 1] < Ends[m]
             /\ Ends[m] - Ends[m - 1] = Lengths[m]
             /\ Ends[m] <= Ends[Len(Lengths)]
  <2>1. Ends[m - 1] \in Nat /\ Ends[m] \in Nat /\ m # 0 /\ Lengths[m] \in Nat /\ Lengths[m] > 0
    BY EndsType, LengthsType DEF Messages
  <2>2. Ends[m] = Ends[m - 1] + Lengths[m]
    BY <2>1, EndsDef, LengthsType
  <2>3. m = Len(Lengths) \/ Ends[m] < Ends[Len(Lengths)]
    BY EndsGrow, LengthsType DEF Messages
  <2> QED BY <1>1, <2>1, <2>2, <2>3
<1>3. ASSUME NEW m \in Messages, NEW n \in Messages, m < n PROVE Ends[m] <= Ends[n - 1]
  <2>1. m = n - 1 \/ m < n - 1
    BY <1>3, LengthsType
  <2>2. Ends[m] \in Nat /\ Ends[n - 1] \in Nat
    BY <1>2
  <2>3. m \in 0..Len(Lengths) /\ n - 1 \in 0..Len(Lengths)
    BY LengthsType
  <2>4. CASE m < n - 1
    BY <2>2, <2>3, <2>4, EndsGrow
  <2> QED BY <2>1, <2>2, <2>4
<1> QED BY <1>1, <1>2, <1>3

------------------------------------------------------------------------------
USE DEF Goto, networkVars

LEMMA StreamInit == Init => StreamInv
<1> SUFFICES ASSUME Init PROVE StreamInv
  OBVIOUS
<1> USE DEF Init
<1>1. TypeOK
  <2>1. heard \in [Readers -> Seq(Messages)]
    BY EmptySeq
  <2>2. chunk \in [Readers -> (0..read) \X (0..read)]
    BY DEF NoChunk
  <2>3. /\ \A w \in Readers : readers[w] = "handle" <=> chunk[w] # NoChunk
        /\ readers \in [Readers -> {"loop", "reading", "handle", "ended"}]
    OBVIOUS
  <2>4. finished \in BOOLEAN /\ open \in BOOLEAN /\ crowded \subseteq Messages
    OBVIOUS
  <2>5. Ends[Len(Lengths)] \in Nat
    BY EndsFacts
  <2>6. read \in 0..arrived /\ arrived \in 0..Ends[Len(Lengths)]
    BY <2>5
  <2> HIDE DEF Init
  <2> QED BY <2>1, <2>2, <2>3, <2>4, <2>6 DEF TypeOK
<1>2. ChunksAreBytes /\ ChunksApart /\ HeardWasRead /\ HeardApart /\ HandledOnceInOrder
  BY EmptySeq DEF ChunksAreBytes, ChunksApart, HeardWasRead, HeardApart, HandledOnceInOrder
<1>3. UncrowdedIsKept
  <2>1. \A m \in Messages : 0 <= Ends[m - 1]
    BY EndsFacts
  <2> QED BY <2>1 DEF UncrowdedIsKept
<1> QED BY <1>1, <1>2, <1>3 DEF StreamInv

(* Any step is one of these.                                               *)
LEMMA StreamSteps ==
  ASSUME [Next]_vars
  PROVE  \/ Arrive \/ Finish \/ UNCHANGED vars
         \/ \E w \in Readers : \/ StartRead(w) \/ ReadSome(w) \/ EndOfTask(w) \/ ParseError(w)
                               \/ \E m \in Messages : Process(w, m)
BY DEF Next, ReaderStep

(* What read_some takes.                                                   *)
LEMMA ReadSomeStep ==
  ASSUME TypeOK, NEW w \in Readers, ReadSome(w)
  PROVE  /\ read \in Nat /\ read' \in Nat /\ arrived \in Nat
         /\ read < read' /\ read' <= arrived /\ arrived' = arrived
         /\ arrived - read <= BufferSize => read' = arrived
         /\ readers[w] = "reading" /\ readers' = [readers EXCEPT ![w] = "handle"]
         /\ chunk' = [chunk EXCEPT ![w] = <<read, read'>>]
         /\ heard' = heard /\ open' = open /\ crowded' = crowded /\ finished' = finished
BY LengthsType, EndsFacts DEF TypeOK, ReadSome

LEMMA StreamTypeStep == StreamInv /\ [Next]_vars => TypeOK'
<1> SUFFICES ASSUME TypeOK, [Next]_vars PROVE TypeOK'
  BY DEF StreamInv
<1>a. read \in Nat /\ arrived \in Nat /\ read <= arrived /\ arrived <= Ends[Len(Lengths)]
      /\ Ends[Len(Lengths)] \in Nat
  BY EndsFacts DEF TypeOK
<1>1. CASE Arrive
  BY <1>1, <1>a DEF Arrive, TypeOK
<1>2. CASE Finish \/ UNCHANGED vars
  BY <1>2 DEF Finish, TypeOK, vars
<1>3. ASSUME NEW w \in Readers, StartRead(w) \/ EndOfTask(w) PROVE TypeOK'
  BY <1>3 DEF StartRead, EndOfTask, TypeOK
<1>4. ASSUME NEW w \in Readers, ReadSome(w) PROVE TypeOK'
  <2>1. /\ read' \in 0..arrived' /\ arrived' \in 0..Ends[Len(Lengths)]
        /\ <<read, read'>> \in (0..read') \X (0..read') /\ <<read, read'>> # NoChunk
        /\ (0..read) \X (0..read) \subseteq (0..read') \X (0..read')
    BY <1>4, <1>a, ReadSomeStep DEF NoChunk
  <2>2. chunk' \in [Readers -> (0..read') \X (0..read')]
    <3>1. chunk \in [Readers -> (0..read') \X (0..read')]
      BY <2>1 DEF TypeOK
    <3>2. chunk' = [chunk EXCEPT ![w] = <<read, read'>>]
      BY <1>4, ReadSomeStep
    <3> QED BY <2>1, <3>1, <3>2
  <2>4. \A v \in Readers : readers'[v] = "handle" <=> chunk'[v] # NoChunk
    <3>1. /\ chunk' = [chunk EXCEPT ![w] = <<read, read'>>]
          /\ readers' = [readers EXCEPT ![w] = "handle"]
      BY <1>4, ReadSomeStep
    <3>2. /\ DOMAIN chunk = Readers /\ DOMAIN readers = Readers
          /\ \A v \in Readers : readers[v] = "handle" <=> chunk[v] # NoChunk
      BY DEF TypeOK
    <3> QED BY <2>1, <3>1, <3>2
  <2>3. /\ readers' \in [Readers -> {"loop", "reading", "handle", "ended"}]
        /\ heard' \in [Readers -> Seq(Messages)]
        /\ open' \in BOOLEAN /\ finished' \in BOOLEAN /\ crowded' \subseteq Messages
    BY <1>4, ReadSomeStep DEF TypeOK
  <2> QED BY <2>1, <2>2, <2>3, <2>4 DEF TypeOK
<1>5. ASSUME NEW w \in Readers, ParseError(w) PROVE TypeOK'
  BY <1>5, <1>a DEF ParseError, TypeOK, NoChunk
<1>6. ASSUME NEW w \in Readers, NEW m \in Messages, Process(w, m) PROVE TypeOK'
  <2>1. heard' \in [Readers -> Seq(Messages)]
    BY <1>6, AppendProperties DEF Process, TypeOK
  <2>2. NoChunk \in (0..read) \X (0..read)
    BY <1>a DEF NoChunk
  <2>3. chunk' \in [Readers -> (0..read') \X (0..read')] /\ read' = read /\ arrived' = arrived
    BY <1>6, <2>2 DEF Process, TypeOK
  <2>4. \A v \in Readers : readers'[v] = "handle" <=> chunk'[v] # NoChunk
    BY <1>6 DEF Process, TypeOK
  <2>5. /\ readers' \in [Readers -> {"loop", "reading", "handle", "ended"}]
        /\ open' \in BOOLEAN /\ finished' = finished /\ crowded' = crowded
    BY <1>6 DEF Process, TypeOK
  <2>6. /\ read' \in 0..arrived' /\ arrived' \in 0..Ends[Len(Lengths)]
        /\ finished' \in BOOLEAN /\ crowded' \subseteq Messages
    BY <1>6, <2>3, <2>5 DEF TypeOK
  <2> QED BY <2>1, <2>3, <2>4, <2>5, <2>6 DEF TypeOK
<1> QED BY <1>1, <1>2, <1>3, <1>4, <1>5, <1>6, StreamSteps

------------------------------------------------------------------------------
(* A processed message is the last one its worker has handled, and of what *)
(* the workers have in their hands only its bytes go.                      *)
LEMMA ProcessStep ==
  ASSUME StreamInv, NEW w \in Readers, NEW m \in Messages, Process(w, m)
  PROVE  /\ readers[w] = "handle" /\ chunk[w][1] = Ends[m - 1] /\ chunk[w][2] = Ends[m]
         /\ \A v \in Readers : v # w => /\ heard'[v] = heard[v] /\ chunk'[v] = chunk[v]
                                        /\ readers'[v] = readers[v]
         /\ readers'[w] # "handle" /\ read' = read
         /\ Len(heard[w]) \in Nat /\ Len(heard'[w]) = Len(heard[w]) + 1
         /\ heard'[w][Len(heard'[w])] = m
         /\ \A i \in 1..Len(heard[w]) : heard'[w][i] = heard[w][i] /\ heard[w][i] \in Messages
<1>1. heard[w] \in Seq(Messages)
  BY DEF StreamInv, TypeOK
<1>2. /\ readers[w] = "handle" /\ chunk[w] = <<Ends[m - 1], Ends[m]>>
      /\ heard' = [heard EXCEPT ![w] = Append(@, m)]
      /\ \A v \in Readers : v # w => chunk'[v] = chunk[v] /\ readers'[v] = readers[v]
      /\ readers'[w] = "loop" /\ read' = read
  BY DEF Process, Whole, StreamInv, TypeOK
<1>3. heard'[w] = Append(heard[w], m) /\ \A v \in Readers : v # w => heard'[v] = heard[v]
  BY <1>2 DEF StreamInv, TypeOK
<1> QED BY <1>1, <1>2, <1>3, AppendProperties

(* Other steps do not add to what was handled, and give a worker only      *)
(* bytes nobody has read.                                                  *)
LEMMA OtherSteps ==
  ASSUME StreamInv, [Next]_vars, \A w \in Readers, m \in Messages : ~Process(w, m)
  PROVE  /\ heard' = heard /\ read \in Nat /\ read' \in Nat /\ read <= read'
         /\ \A w \in Readers : readers'[w] = "handle"
              => \/ readers[w] = "handle" /\ chunk'[w] = chunk[w]
                 \/ chunk'[w] = <<read, read'>> /\ read < read'
         /\ \A v, w \in Readers : v # w
              => \/ readers'[v] = readers[v] /\ chunk'[v] = chunk[v]
                 \/ readers'[w] = readers[w] /\ chunk'[w] = chunk[w]
<1>a. /\ read \in Nat /\ DOMAIN readers = Readers /\ DOMAIN chunk = Readers
      /\ \A w \in Readers : readers[w] = "handle" <=> chunk[w] # NoChunk
  BY DEF StreamInv, TypeOK
<1>1. CASE Arrive \/ Finish \/ UNCHANGED vars
  BY <1>1, <1>a DEF Arrive, Finish, vars
<1>2. ASSUME NEW w \in Readers, StartRead(w) \/ EndOfTask(w) \/ ParseError(w)
      PROVE  /\ heard' = heard /\ read' = read
             /\ \A v \in Readers :
                  /\ v # w => readers'[v] = readers[v] /\ chunk'[v] = chunk[v]
                  /\ readers'[v] = "handle" => readers[v] = "handle" /\ chunk'[v] = chunk[v]
  BY <1>2, <1>a DEF StartRead, EndOfTask, ParseError
<1>3. ASSUME NEW w \in Readers, ReadSome(w)
      PROVE  /\ heard' = heard /\ read' \in Nat /\ read < read'
             /\ chunk'[w] = <<read, read'>>
             /\ \A v \in Readers : v # w => readers'[v] = readers[v] /\ chunk'[v] = chunk[v]
  BY <1>3, <1>a, ReadSomeStep DEF StreamInv
<1>4. CASE \E w \in Readers : StartRead(w) \/ EndOfTask(w) \/ ParseError(w)
  <2>1. PICK w \in Readers : StartRead(w) \/ EndOfTask(w) \/ ParseError(w)
    BY <1>4
  <2>2. \A u, v \in Readers : u # v => u # w \/ v # w
    OBVIOUS
  <2>3. \A v, u \in Readers : v # u
          => \/ readers'[v] = readers[v] /\ chunk'[v] = chunk[v]
             \/ readers'[u] = readers[u] /\ chunk'[u] = chunk[u]
    BY <1>2, <2>1, <2>2
  <2>4. \A v \in Readers : readers'[v] = "handle" => readers[v] = "handle" /\ chunk'[v] = chunk[v]
    BY <1>2, <2>1
  <2> QED BY <1>2, <1>a, <2>1, <2>3, <2>4
<1>5. CASE \E w \in Readers : ReadSome(w)
  <2>1. PICK w \in Readers : ReadSome(w)
    BY <1>5
  <2>2. \A u, v \in Readers : u # v => u # w \/ v # w
    OBVIOUS
  <2>3. \A v, u \in Readers : v # u
          => \/ readers'[v] = readers[v] /\ chunk'[v] = chunk[v]
             \/ readers'[u] = readers[u] /\ chunk'[u] = chunk[u]
    BY <1>3, <2>1, <2>2
  <2>4. \A v \in Readers : readers'[v] = "handle"
          => \/ readers[v] = "handle" /\ chunk'[v] = chunk[v]
             \/ chunk'[v] = <<read, read'>> /\ read < read'
    BY <1>3, <2>1
  <2> QED BY <1>3, <1>a, <2>1, <2>3, <2>4
<1> QED BY <1>1, <1>4, <1>5, StreamSteps

(* What the invariant says of the chunks in hand.                          *)
LEMMA ChunkFacts ==
  ASSUME StreamInv
  PROVE  /\ read \in Nat
         /\ \A w \in Readers : /\ chunk[w][1] \in Nat /\ chunk[w][2] \in Nat
                               /\ chunk[w][2] <= read
BY DEF StreamInv, TypeOK

(* A new chunk starts where everybody else's ended or before.              *)
LEMMA ChunksStep == StreamInv /\ [Next]_vars => ChunksAreBytes' /\ ChunksApart'
<1> SUFFICES ASSUME StreamInv, [Next]_vars PROVE ChunksAreBytes' /\ ChunksApart'
  OBVIOUS
<1>a. ChunksAreBytes /\ ChunksApart
  BY DEF StreamInv
<1>1. ASSUME NEW w \in Readers, NEW m \in Messages, Process(w, m)
      PROVE  ChunksAreBytes' /\ ChunksApart'
  BY <1>1, <1>a, ProcessStep DEF ChunksAreBytes, ChunksApart
<1>2. CASE \A w \in Readers, m \in Messages : ~Process(w, m)
  <2>1. ChunksAreBytes'
    BY <1>2, <1>a, OtherSteps DEF ChunksAreBytes
  <2>2. ASSUME NEW v \in Readers, NEW w \in Readers, v # w,
               readers'[v] = "handle", readers'[w] = "handle"
        PROVE  chunk'[v][2] <= chunk'[w][1] \/ chunk'[w][2] <= chunk'[v][1]
    <3>1. /\ \/ readers[v] = "handle" /\ chunk'[v] = chunk[v]
             \/ chunk'[v] = <<read, read'>>
          /\ \/ readers[w] = "handle" /\ chunk'[w] = chunk[w]
             \/ chunk'[w] = <<read, read'>>
          /\ \/ readers'[v] = readers[v] /\ chunk'[v] = chunk[v]
             \/ readers'[w] = readers[w] /\ chunk'[w] = chunk[w]
      BY <1>2, <2>2, OtherSteps
    <3>2. CASE readers[v] = "handle" /\ chunk'[v] = chunk[v]
               /\ readers[w] = "handle" /\ chunk'[w] = chunk[w]
      BY <1>a, <2>2, <3>2 DEF ChunksApart
    <3>3. CASE readers[v] = "handle" /\ chunk'[v] = chunk[v] /\ chunk'[w] = <<read, read'>>
      <4>1. chunk[v][2] <= read /\ chunk'[w][1] = read
        BY <3>3, ChunkFacts
      <4> QED BY <3>3, <4>1
    <3>4. CASE readers[w] = "handle" /\ chunk'[w] = chunk[w] /\ chunk'[v] = <<read, read'>>
      <4>1. chunk[w][2] <= read /\ chunk'[v][1] = read
        BY <3>4, ChunkFacts
      <4> QED BY <3>4, <4>1
    <3> QED BY <2>2, <3>1, <3>2, <3>3, <3>4
  <2> QED BY <2>1, <2>2 DEF ChunksApart
<1> QED BY <1>1, <1>2

(* A message in hand was handled by nobody, and comes after those its      *)
(* worker handled.                                                         *)
LEMMA HeardStep == StreamInv /\ [Next]_vars => HeardWasRead' /\ HandledOnceInOrder'
<1> SUFFICES ASSUME StreamInv, [Next]_vars PROVE HeardWasRead' /\ HandledOnceInOrder'
  OBVIOUS
<1>a. HeardWasRead /\ HandledOnceInOrder /\ HeardApart
  BY DEF StreamInv
<1>b. \A w \in Readers : \A i \in 1..Len(heard[w]) :
        heard[w][i] \in Messages /\ Ends[heard[w][i]] \in Nat /\ heard[w][i] \in Nat
  <2>1. heard \in [Readers -> Seq(Messages)]
    BY DEF StreamInv, TypeOK
  <2>2. \A w \in Readers : \A i \in 1..Len(heard[w]) : heard[w][i] \in Messages
    BY <2>1
  <2>3. \A m \in Messages : m \in Nat /\ Ends[m] \in Nat
    BY EndsFacts, LengthsType
  <2> QED BY <2>2, <2>3
<1>c. \A w \in Readers : Len(heard[w]) \in Nat
  BY DEF StreamInv, TypeOK
<1>1. CASE \A w \in Readers, m \in Messages : ~Process(w, m)
  <2>1. heard' = heard /\ read \in Nat /\ read' \in Nat /\ read <= read'
    BY <1>1, OtherSteps
  <2>2. HandledOnceInOrder'
    BY <1>a, <2>1 DEF HandledOnceInOrder
  <2>3. ASSUME NEW w \in Readers, NEW i \in 1..Len(heard[w])
        PROVE  Ends[heard[w][i]] <= read' /\ i <= heard[w][i]
    <3>1. Ends[heard[w][i]] <= read /\ i <= heard[w][i] /\ Ends[heard[w][i]] \in Nat
      BY <1>a, <1>b DEF HeardWasRead
    <3> QED BY <2>1, <3>1
  <2> QED BY <2>1, <2>2, <2>3 DEF HeardWasRead
<1>2. ASSUME NEW w \in Readers, NEW m \in Messages, Process(w, m)
      PROVE  HeardWasRead' /\ HandledOnceInOrder'
  <2> DEFINE n == Len(heard[w])
  <2>1. /\ n \in Nat /\ Len(heard'[w]) = n + 1 /\ heard'[w][n + 1] = m
        /\ \A i \in 1..n : heard'[w][i] = heard[w][i]
        /\ \A v \in Readers : v # w => heard'[v] = heard[v]
        /\ chunk[w][1] = Ends[m - 1] /\ chunk[w][2] = Ends[m]
        /\ readers[w] = "handle" /\ read' = read
    BY <1>2, ProcessStep
  <2>m. /\ m \in Nat /\ m > 0 /\ Ends[m - 1] \in Nat /\ Ends[m] \in Nat /\ Ends[m - 1] < Ends[m]
        /\ read \in Nat /\ Ends[m] <= read
    BY <2>1, ChunkFacts, EndsFacts, LengthsType DEF Messages
  <2> HIDE DEF n
  <2>2. ASSUME NEW i \in 1..n PROVE heard[w][i] < m
    <3>1. /\ Ends[heard[w][i]] <= Ends[m - 1]
          /\ heard[w][i] \in Messages /\ heard[w][i] \in Nat
      BY <1>a, <1>b, <2>1 DEF HeardApart, n
    <3>2. ~ (m < heard[w][i]) /\ m # heard[w][i]
      <4>1. Ends[heard[w][i]] \in Nat /\ Ends[heard[w][i] - 1] \in Nat
            /\ Ends[heard[w][i] - 1] < Ends[heard[w][i]]
        BY <3>1, EndsFacts
      <4>2. m < heard[w][i] => Ends[m] <= Ends[heard[w][i] - 1]
        BY <3>1, EndsFacts
      <4> QED BY <2>m, <3>1, <4>1, <4>2
    <3> QED BY <2>m, <3>1, <3>2
  <2>3. ASSUME NEW v \in Readers, v # w, NEW i \in 1..Len(heard[v]) PROVE heard[v][i] # m
    <3>1. Ends[heard[v][i]] <= Ends[m - 1] \/ Ends[m] <= Ends[heard[v][i] - 1]
      BY <1>a, <2>1, <2>3 DEF HeardApart
    <3> QED BY <2>m, <3>1
  <2>4. n + 1 <= m
    <3>1. CASE n = 0
      BY <2>m, <3>1
    <3>2. CASE n # 0
      <4>1. n \in 1..n /\ n \in 1..Len(heard[w])
        BY <2>1, <3>2 DEF n
      <4>2. n <= heard[w][n] /\ heard[w][n] < m /\ heard[w][n] \in Nat
        BY <1>a, <1>b, <2>2, <4>1 DEF HeardWasRead
      <4> QED BY <2>1, <2>m, <4>2
    <3> QED BY <3>1, <3>2
  <2>8. ASSUME NEW v \in Readers, NEW i \in 1..Len(heard'[v])
        PROVE  \/ v = w /\ i = n + 1
               \/ i \in 1..Len(heard[v]) /\ heard'[v][i] = heard[v][i]
    BY <2>1 DEF n
  <2>5. ASSUME NEW v \in Readers, NEW i \in 1..Len(heard'[v])
        PROVE  Ends[heard'[v][i]] <= read' /\ i <= heard'[v][i]
    <3>1. CASE v = w /\ i = n + 1
      BY <2>1, <2>4, <2>m, <3>1
    <3>2. CASE v # w \/ i # n + 1
      <4>1. i \in 1..Len(heard[v]) /\ heard'[v][i] = heard[v][i]
        BY <2>8, <3>2
      <4> QED BY <1>a, <2>1, <4>1 DEF HeardWasRead
    <3> QED BY <3>1, <3>2
  <2>6. ASSUME NEW v \in Readers, NEW i \in 1..Len(heard'[v]), NEW j \in 1..Len(heard'[v]), i < j
        PROVE  heard'[v][i] < heard'[v][j]
    <3>1. CASE v = w /\ j = n + 1
      <4>1. i \in 1..n
        BY <2>1, <2>6, <3>1
      <4> QED BY <2>1, <2>2, <3>1, <4>1
    <3>2. CASE v # w \/ j # n + 1
      <4>1. /\ i \in 1..Len(heard[v]) /\ j \in 1..Len(heard[v])
            /\ heard'[v][i] = heard[v][i] /\ heard'[v][j] = heard[v][j]
        <5>1. ~ (v = w /\ i = n + 1)
          BY <1>c, <2>1, <2>6, <3>2
        <5> QED BY <2>8, <3>2, <5>1
      <4> QED BY <1>a, <2>6, <4>1 DEF HandledOnceInOrder
    <3> QED BY <3>1, <3>2
  <2>7. ASSUME NEW u \in Readers, NEW v \in Readers, u # v,
               NEW i \in 1..Len(heard'[u]), NEW j \in 1..Len(heard'[v])
        PROVE  heard'[u][i] # heard'[v][j]
    <3>1. CASE u = w /\ i = n + 1
      BY <2>1, <2>3, <2>7, <3>1
    <3>2. CASE v = w /\ j = n + 1
      BY <2>1, <2>3, <2>7, <3>2
    <3>3. CASE ~ (u = w /\ i = n + 1) /\ ~ (v = w /\ j = n + 1)
      <4>1. /\ i \in 1..Len(heard[u]) /\ j \in 1..Len(heard[v])
            /\ heard'[u][i] = heard[u][i] /\ heard'[v][j] = heard[v][j]
        BY <2>8, <3>3
      <4> QED BY <1>a, <2>7, <4>1 DEF HandledOnceInOrder
    <3> QED BY <3>1, <3>2, <3>3
  <2> QED BY <2>5, <2>6, <2>7 DEF HeardWasRead, HandledOnceInOrder
<1> QED BY <1>1, <1>2

LEMMA HeardApartStep == StreamInv /\ [Next]_vars => HeardApart'
<1> SUFFICES ASSUME StreamInv, [Next]_vars PROVE HeardApart'
  OBVIOUS
<1>a. HeardWasRead /\ HeardApart /\ ChunksApart
  BY DEF StreamInv
<1>1. CASE \A w \in Readers, m \in Messages : ~Process(w, m)
  <2> SUFFICES ASSUME NEW v \in Readers, NEW w \in Readers, NEW i \in 1..Len(heard[v]),
                      readers'[w] = "handle"
               PROVE  \/ Ends[heard[v][i]] <= chunk'[w][1]
                      \/ v # w /\ chunk'[w][2] <= Ends[heard[v][i] - 1]
    BY <1>1, OtherSteps DEF HeardApart
  <2>1. CASE readers[w] = "handle" /\ chunk'[w] = chunk[w]
    BY <1>a, <2>1 DEF HeardApart
  <2>2. CASE chunk'[w] = <<read, read'>>
    BY <1>a, <2>2 DEF HeardWasRead
  <2> QED BY <1>1, <2>1, <2>2, OtherSteps
<1>2. ASSUME NEW w \in Readers, NEW m \in Messages, Process(w, m) PROVE HeardApart'
  <2> SUFFICES ASSUME NEW v \in Readers, NEW u \in Readers, NEW i \in 1..Len(heard'[v]),
                      readers'[u] = "handle"
               PROVE  \/ Ends[heard'[v][i]] <= chunk'[u][1]
                      \/ v # u /\ chunk'[u][2] <= Ends[heard'[v][i] - 1]
    BY DEF HeardApart
  <2>1. /\ u # w /\ chunk'[u] = chunk[u] /\ readers[u] = "handle" /\ readers[w] = "handle"
        /\ chunk[w][1] = Ends[m - 1] /\ chunk[w][2] = Ends[m]
    BY <1>2, ProcessStep
  <2>2. CASE v = w /\ i = Len(heard'[w])
    <3>1. heard'[v][i] = m
      BY <1>2, <2>2, ProcessStep
    <3>2. chunk[w][2] <= chunk[u][1] \/ chunk[u][2] <= chunk[w][1]
      BY <1>a, <2>1 DEF ChunksApart
    <3> QED BY <2>1, <2>2, <3>1, <3>2
  <2>3. CASE ~ (v = w /\ i = Len(heard'[w]))
    <3>1. i \in 1..Len(heard[v]) /\ heard'[v][i] = heard[v][i]
      <4>1. CASE v = w
        <5>1. Len(heard[w]) \in Nat /\ i \in 1..Len(heard[w]) + 1 /\ i # Len(heard[w]) + 1
          BY <1>2, <2>3, <4>1, ProcessStep
        <5> QED BY <1>2, <4>1, <5>1, ProcessStep
      <4>2. CASE v # w
        BY <1>2, <4>2, ProcessStep
      <4> QED BY <4>1, <4>2
    <3> QED BY <1>a, <2>1, <3>1 DEF HeardApart
  <2> QED BY <2>2, <2>3
<1> QED BY <1>1, <1>2

(* What was heard stays so, and what is in hand stays so until its worker  *)
(* handles it.                                                             *)
LEMMA HeardStays ==
  ASSUME StreamInv, [Next]_vars, NEW m \in Messages, Heard(m) \/ InHand(m)
  PROVE  Heard(m)' \/ InHand(m)'
<1>a. HeardWasRead'
  BY HeardStep
<1>1. ASSUME NEW w \in Readers, NEW n \in Messages, Process(w, n)
      PROVE  Heard(m)' \/ InHand(m)'
  <2>1. CASE Heard(m)
    <3>1. PICK v \in Readers, i \in Messages : i <= Len(heard[v]) /\ heard[v][i] = m
      BY <2>1 DEF Heard
    <3>2. i \in 1..Len(heard[v])
      BY <3>1, LengthsType DEF Messages, StreamInv, TypeOK
    <3>3. i <= Len(heard'[v]) /\ heard'[v][i] = m
      <4>1. CASE v = w
        <5>1. Len(heard[w]) \in Nat /\ Len(heard'[w]) = Len(heard[w]) + 1
              /\ heard'[w][i] = heard[w][i]
          BY <1>1, <3>2, <4>1, ProcessStep
        <5> QED BY <3>1, <3>2, <4>1, <5>1
      <4>2. CASE v # w
        BY <1>1, <3>1, <4>2, ProcessStep
      <4> QED BY <4>1, <4>2
    <3> QED BY <3>3 DEF Heard
  <2>2. CASE InHand(m)
    <3>1. PICK v \in Readers : readers[v] = "handle" /\ Whole(v, m)
      BY <2>2 DEF InHand
    <3>2. CASE v = w
      <4>1. Ends[m - 1] = Ends[n - 1] /\ Ends[m] = Ends[n]
        BY <1>1, <3>1, <3>2, ProcessStep DEF Whole
      <4>2. m = n
        <5>1. ~ (m < n) /\ ~ (n < m)
          BY <4>1, EndsFacts
        <5> QED BY <5>1, LengthsType
      <4>3. /\ Len(heard'[w]) \in Nat /\ Len(heard'[w]) > 0
            /\ heard'[w][Len(heard'[w])] = m
        BY <1>1, <4>2, ProcessStep
      <4>4. Len(heard'[w]) <= m
        BY <1>a, <4>3 DEF HeardWasRead
      <4>5. Len(heard'[w]) \in Messages
        BY <4>3, <4>4, LengthsType DEF Messages
      <4> QED BY <4>3, <4>5 DEF Heard
    <3>3. CASE v # w
      BY <1>1, <3>1, <3>3, ProcessStep DEF InHand, Whole
    <3> QED BY <3>2, <3>3
  <2> QED BY <2>1, <2>2
<1>2. CASE \A w \in Readers, n \in Messages : ~Process(w, n)
  <2>1. CASE Heard(m)
    BY <1>2, <2>1, OtherSteps DEF Heard
  <2>2. CASE InHand(m)
    <3>1. PICK v \in Readers : readers[v] = "handle" /\ Whole(v, m)
      BY <2>2 DEF InHand
    <3>2. readers'[v] = "handle" /\ chunk'[v] = chunk[v]
      <4>a. DOMAIN readers = Readers /\ DOMAIN chunk = Readers
        BY DEF StreamInv, TypeOK
      <4>1. ASSUME NEW w \in Readers, StartRead(w) \/ ReadSome(w) \/ EndOfTask(w)
            PROVE  readers'[v] = "handle" /\ chunk'[v] = chunk[v]
        BY <3>1, <4>1, <4>a DEF StartRead, ReadSome, EndOfTask
      <4>2. ASSUME NEW w \in Readers, ParseError(w)
            PROVE  readers'[v] = "handle" /\ chunk'[v] = chunk[v]
        BY <3>1, <4>2, <4>a DEF ParseError
      <4>3. CASE Arrive \/ Finish \/ UNCHANGED vars
        BY <3>1, <4>3 DEF Arrive, Finish, vars
      <4> QED BY <1>2, <4>1, <4>2, <4>3, StreamSteps
    <3> QED BY <3>1, <3>2 DEF InHand, Whole
  <2> QED BY <2>1, <2>2
<1> QED BY <1>1, <1>2

(* A message that is not crowded arrives in one step, when all before it   *)
(* was read, and the next step that reads takes all of it and nothing else.*)
LEMMA UncrowdedStep == StreamInv /\ [Next]_vars => UncrowdedIsKept'
<1> SUFFICES ASSUME StreamInv, [Next]_vars, NEW m \in Messages,
                    Lengths[m] <= BufferSize, m \notin crowded'
             PROVE  \/ arrived' <= Ends[m - 1]
                    \/ read' = Ends[m - 1] /\ arrived' = Ends[m]
                    \/ Ends[m] <= read' /\ (Heard(m)' \/ InHand(m)')
  BY DEF UncrowdedIsKept, Heard, InHand
<1>a. /\ read \in Nat /\ arrived \in Nat /\ read <= arrived
      /\ Ends[m - 1] \in Nat /\ Ends[m] \in Nat /\ Ends[m - 1] < Ends[m]
      /\ Ends[m] - Ends[m - 1] = Lengths[m]
  BY EndsFacts DEF StreamInv, TypeOK
<1>b. m \notin crowded => \/ arrived <= Ends[m - 1]
                          \/ read = Ends[m - 1] /\ arrived = Ends[m]
                          \/ Ends[m] <= read /\ (Heard(m) \/ InHand(m))
  BY DEF StreamInv, UncrowdedIsKept
<1>1. CASE Arrive
  <2>1. /\ arrived' \in Nat /\ arrived < arrived' /\ read' = read
        /\ m \notin crowded /\ ~CrowdedBy(m, read, arrived')
    BY <1>1, <1>a, EndsFacts DEF Arrive
  <2>2. \/ arrived' <= Ends[m - 1] \/ Ends[m] <= read
        \/ read = Ends[m - 1] /\ arrived' = Ends[m]
    BY <1>a, <2>1 DEF CrowdedBy
  <2>3. CASE Ends[m] <= read
    <3>1. Heard(m) \/ InHand(m)
      BY <1>a, <1>b, <2>1, <2>3
    <3> QED BY <2>1, <2>3, <3>1, HeardStays
  <2> QED BY <2>1, <2>2, <2>3
<1>2. ASSUME NEW w \in Readers, ReadSome(w)
      PROVE  \/ arrived' <= Ends[m - 1]
             \/ Ends[m] <= read' /\ (Heard(m)' \/ InHand(m)')
  <2>1. /\ m \notin crowded /\ read' \in Nat /\ read < read' /\ read' <= arrived
        /\ arrived' = arrived /\ (arrived - read <= BufferSize => read' = arrived)
    BY <1>2, ReadSomeStep DEF StreamInv
  <2>2. CASE arrived <= Ends[m - 1]
    BY <2>1, <2>2
  <2>3. CASE read = Ends[m - 1] /\ arrived = Ends[m]
    <3>1. read' = Ends[m]
      BY <1>a, <2>1, <2>3
    <3>2. readers'[w] = "handle" /\ chunk'[w] = <<Ends[m - 1], Ends[m]>>
      <4>1. DOMAIN readers = Readers /\ DOMAIN chunk = Readers
        BY DEF StreamInv, TypeOK
      <4> QED BY <1>2, <2>3, <3>1, <4>1, ReadSomeStep DEF StreamInv
    <3>3. InHand(m)'
      BY <3>2 DEF InHand, Whole
    <3> QED BY <1>a, <3>1, <3>3
  <2>4. CASE Ends[m] <= read /\ (Heard(m) \/ InHand(m))
    BY <1>a, <2>1, <2>4, HeardStays
  <2> QED BY <1>b, <2>1, <2>2, <2>3, <2>4
<1>3. CASE read' = read /\ arrived' = arrived /\ crowded' = crowded
  BY <1>b, <1>3, HeardStays
<1>4. CASE Finish \/ UNCHANGED vars
  BY <1>3, <1>4 DEF Finish, vars
<1>5. ASSUME NEW w \in Readers,
             \/ StartRead(w) \/ EndOfTask(w) \/ ParseError(w)
             \/ \E n \in Messages : Process(w, n)
      PROVE  read' = read /\ arrived' = arrived /\ crowded' = crowded
  BY <1>5 DEF StartRead, EndOfTask, ParseError, Process
<1> QED BY <1>1, <1>2, <1>3, <1>4, <1>5, StreamSteps

------------------------------------------------------------------------------
(* The inductive invariant holds in every reachable state.                 *)
THEOREM StreamSafety == Spec => []StreamInv
<1>1. StreamInv /\ [Next]_vars => StreamInv'
  BY StreamTypeStep, ChunksStep, HeardStep, HeardApartStep, UncrowdedStep DEF StreamInv
<1> QED BY StreamInit, <1>1, PTL DEF Spec

(* The state always has its shape: workers hold bytes that were read, and  *)
(* what was read has arrived.                                              *)
THEOREM StreamTypeCorrect == Spec => []TypeOK
<1>1. StreamInv => TypeOK
  BY DEF StreamInv
<1> QED BY StreamSafety, <1>1, PTL

(* However many workers read one connection, no message is handled twice,  *)
(* and each worker handles its own in the order of the client.             *)
THEOREM MessagesAreHandledOnce == Spec => []HandledOnceInOrder
<1>1. StreamInv => HandledOnceInOrder
  BY DEF StreamInv
<1> QED BY StreamSafety, <1>1, PTL

(* read_some loses no message that fits its buffer and arrives alone.      *)
THEOREM OnlyCrowdedMessagesAreLost == Spec => []LossNeedsCrowding
<1>1. StreamInv => LossNeedsCrowding
  <2> SUFFICES ASSUME StreamInv, NEW m \in Messages, Ends[m] <= read,
                      Lengths[m] <= BufferSize, m \notin crowded
               PROVE  Heard(m) \/ InHand(m)
    BY DEF LossNeedsCrowding
  <2>1. /\ read \in Nat /\ arrived \in Nat /\ read <= arrived
        /\ Ends[m - 1] \in Nat /\ Ends[m] \in Nat /\ Ends[m - 1] < Ends[m]
    BY EndsFacts DEF StreamInv, TypeOK
  <2> QED BY <2>1 DEF StreamInv, UncrowdedIsKept
<1> QED BY StreamSafety, <1>1, PTL
==============================================================================
