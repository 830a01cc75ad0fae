------------------------- MODULE ConnectionPoolProofs -------------------------
(***************************************************************************)
(* Proofs about ConnectionPool, for every set of workers and pool size.    *)
(***************************************************************************)
EXTENDS ConnectionPool, FiniteSetTheorems, SequenceTheorems, TLAPS

(* What each worker knows of the mutex, the queue and the condition        *)
(* variable at each point of getConnection.                                *)
PoolControl ==
  /\ \A w \in Workers : at[w] \in {"check", "block", "take"} <=> mutex_ = w
  /\ \A w \in condition_ : at[w] = "wait"
  /\ \A w \in Workers : /\ at[w] = "block" => pool_ = <<>>
                        /\ at[w] = "take" => pool_ # <<>>

InUse == {w \in Workers : at[w] = "use"}

(* While someone waits, the connections that are left are fewer than the   *)
(* workers.  A loan or a return does not change their number, so that this *)
(* survives all steps once it was true when the worker found nothing.      *)
LeftAreFew ==
  (\E w \in Workers : at[w] \in {"block", "wait"}) =>
    Len(pool_) + Cardinality(InUse) < Cardinality(Workers)

PoolInv ==
  PoolTypeOK /\ PoolControl /\ ExclusiveLoans /\ PoolNoLostWakeup /\ LeftAreFew

------------------------------------------------------------------------------
(* Sequences without repetition.                                           *)
Elems(s) == {s[i] : i \in 1..Len(s)}

NoRepeat(s) == \A i, j \in 1..Len(s) : i # j => s[i] # s[j]

LEMMA PopNoRepeat ==
  ASSUME NEW S, NEW s \in Seq(S), s # <<>>, NoRepeat(s)
  PROVE  /\ Head(s) \in S /\ Head(s) \in Elems(s)
         /\ Tail(s) \in Seq(S)
         /\ Len(Tail(s)) = Len(s) - 1
         /\ NoRepeat(Tail(s))
         /\ Elems(Tail(s)) = Elems(s) \ {Head(s)}
<1>1. Len(s) \in Nat /\ Len(s) # 0 /\ Head(s) = s[1] /\ s[1] \in S
  OBVIOUS
<1>2. Tail(s) \in Seq(S) /\ Len(Tail(s)) = Len(s) - 1
  BY <1>1
<1>3. \A i \in 1..Len(Tail(s)) : Tail(s)[i] = s[i + 1] /\ i + 1 \in 1..Len(s)
  BY <1>1, <1>2
<1>4. NoRepeat(Tail(s))
  <2> SUFFICES ASSUME NEW i \in 1..Len(Tail(s)), NEW j \in 1..Len(Tail(s)), i # j
               PROVE  Tail(s)[i] # Tail(s)[j]
    BY DEF NoRepeat
  <2>1. i + 1 \in 1..Len(s) /\ j + 1 \in 1..Len(s) /\ i + 1 # j + 1
    BY <1>1, <1>2
  <2>2. s[i + 1] # s[j + 1]
    BY <2>1 DEF NoRepeat
  <2> QED BY <1>3, <2>2
<1>5. ASSUME NEW e \in Elems(Tail(s)) PROVE e \in Elems(s) \ {Head(s)}
  <2>1. PICK i \in 1..Len(Tail(s)) : e = Tail(s)[i]
    BY DEF Elems
  <2>2. e = s[i + 1] /\ i + 1 \in 1..Len(s) /\ i + 1 # 1 /\ 1 \in 1..Len(s)
    BY <1>1, <1>2, <1>3, <2>1
  <2> QED BY <1>1, <2>2 DEF Elems, NoRepeat
<1>6. ASSUME NEW e \in Elems(s), e # Head(s) PROVE e \in Elems(Tail(s))
  <2>1. PICK i \in 1..Len(s) : e = s[i]
    BY DEF Elems
  <2>2. i # 1 /\ i - 1 \in 1..Len(Tail(s)) /\ (i - 1) + 1 = i
    BY <1>1, <1>2, <1>6, <2>1
  <2> QED BY <1>3, <2>1, <2>2 DEF Elems
<1>7. Head(s) \in Elems(s)
  BY <1>1 DEF Elems
<1> QED BY <1>1, <1>2, <1>4, <1>5, <1>6, <1>7

LEMMA PushNoRepeat ==
  ASSUME NEW S, NEW s \in Seq(S), NEW e \in S, e \notin Elems(s), NoRepeat(s)
  PROVE  /\ Append(s, e) \in Seq(S)
         /\ Len(Append(s, e)) = Len(s) + 1
         /\ Append(s, e) # <<>>
         /\ NoRepeat(Append(s, e))
         /\ Elems(Append(s, e)) = Elems(s) \union {e}
<1>1. /\ Len(s) \in Nat
      /\ Append(s, e) \in Seq(S)
      /\ Len(Append(s, e)) = Len(s) + 1
      /\ \A i \in 1..Len(s) : Append(s, e)[i] = s[i]
      /\ Append(s, e)[Len(s) + 1] = e
  BY AppendProperties
<1>2. \A i \in 1..Len(Append(s, e)) : i \in 1..Len(s) \/ i = Len(s) + 1
  BY <1>1
<1>3. \A i \in 1..Len(s) : s[i] # e
  BY DEF Elems
<1>4. NoRepeat(Append(s, e))
  BY <1>1, <1>2, <1>3 DEF NoRepeat
<1>5. Elems(Append(s, e)) = Elems(s) \union {e}
  <2>1. 1..Len(Append(s, e)) = 1..Len(s) \union {Len(s) + 1}
    BY <1>1
  <2> QED BY <1>1, <2>1 DEF Elems
<1>6. Append(s, e) # <<>>
  BY <1>1, EmptySeq
<1> QED BY <1>1, <1>4, <1>5, <1>6

(* A sequence has at most as many elements as places.                      *)
LEMMA ElemsCount ==
  ASSUME NEW S, NEW s \in Seq(S)
  PROVE  IsFiniteSet(Elems(s)) /\ Cardinality(Elems(s)) <= Len(s)
<1>1. IsFiniteSet(1..Len(s)) /\ Cardinality(1..Len(s)) = Len(s)
  <2>1. Len(s) \in Nat /\ 1 \in Int /\ Len(s) \in Int
    OBVIOUS
  <2>2. /\ IsFiniteSet(1..Len(s))
        /\ Cardinality(1..Len(s)) = IF 1 > Len(s) THEN 0 ELSE Len(s) - 1 + 1
    BY <2>1, FS_Interval
  <2> QED BY <2>1, <2>2
<1>2. [i \in 1..Len(s) |-> s[i]] \in Surjection(1..Len(s), Elems(s))
  BY DEF Elems, Surjection
<1> QED BY <1>1, <1>2, FS_Surjection

LEMMA UnionCount ==
  ASSUME NEW S, NEW T, IsFiniteSet(S), IsFiniteSet(T)
  PROVE  /\ IsFiniteSet(S \union T)
         /\ Cardinality(S \union T) <= Cardinality(S) + Cardinality(T)
<1>1. /\ IsFiniteSet(S \union T)
      /\ Cardinality(S \union T) =
           Cardinality(S) + Cardinality(T) - Cardinality(S \cap T)
  BY FS_Union
<1>2. /\ Cardinality(S \cap T) \in Nat /\ Cardinality(S) \in Nat
      /\ Cardinality(T) \in Nat
  BY FS_Subset, FS_CardinalityType
<1> QED BY <1>1, <1>2

------------------------------------------------------------------------------
(* Every action, with the operators it is built from.                      *)
USE DEF GetStep, Goto, GiveUp, Pool!Unlocked, Pool!Lock, Pool!Unlock, Pool!Wait,
        Pool!NotifyOne, Pool!SpuriousWakeup

(* Sets of workers are finite, and counted one by one.                     *)
LEMMA WorkersCount ==
  ASSUME NEW A \in SUBSET Workers
  PROVE  /\ IsFiniteSet(A) /\ Cardinality(A) \in Nat
         /\ \A w \in Workers \ A : Cardinality(A \union {w}) = Cardinality(A) + 1
         /\ \A w \in A : Cardinality(A \ {w}) = Cardinality(A) - 1
         /\ \A B \in SUBSET A : Cardinality(B) <= Cardinality(A)
<1>1. IsFiniteSet(A)
  BY ConnectionAssumption, FS_Subset
<1> QED BY <1>1, FS_CardinalityType, FS_AddElement, FS_RemoveElement, FS_Subset

(* What a worker that pops gets, and what it leaves.                       *)
LEMMA TakeFrontStep ==
  ASSUME PoolInv, NEW w \in Workers, TakeFront(w)
  PROVE  /\ Head(pool_) \in Free /\ Head(pool_) \in Connections
         /\ conn[w] = 0 /\ conn' = [conn EXCEPT ![w] = Head(pool_)]
         /\ pool_' \in Seq(Connections) /\ Len(pool_') = Len(pool_) - 1
         /\ NoRepeat(pool_')
         /\ Free' = Free \ {Head(pool_)}
         /\ Held' = Held \union {Head(pool_)}
<1>1. /\ pool_ # <<>> /\ pool_ \in Seq(Connections) /\ NoRepeat(pool_)
      /\ conn \in [Workers -> Connections \union {0}] /\ conn[w] = 0
      /\ pool_' = Tail(pool_) /\ conn' = [conn EXCEPT ![w] = Head(pool_)]
  BY DEF PoolInv, PoolControl, PoolTypeOK, ExclusiveLoans, NoRepeat, TakeFront
<1>2. Free = Elems(pool_) /\ Free' = Elems(pool_')
  BY DEF Free, Elems
<1>3. /\ Head(pool_) \in Connections /\ Head(pool_) \in Free
      /\ pool_' \in Seq(Connections) /\ Len(pool_') = Len(pool_) - 1
      /\ NoRepeat(pool_') /\ Free' = Free \ {Head(pool_)}
  BY <1>1, <1>2, PopNoRepeat
<1>4. Head(pool_) # 0
  BY <1>3, ConnectionAssumption DEF Connections
<1>5. Held' = Held \union {Head(pool_)}
  BY <1>1, <1>4 DEF Held
<1> QED BY <1>1, <1>3, <1>5

(* What a worker that ends its loan, either way, leaves.                   *)
LEMMA GiveUpStep ==
  ASSUME PoolInv, NEW w \in Workers, GiveUp(w)
  PROVE  /\ conn[w] \in Connections /\ conn[w] # 0 /\ conn[w] \in Held
         /\ conn[w] \notin Free
         /\ conn' = [conn EXCEPT ![w] = 0]
         /\ Held' = Held \ {conn[w]}
<1>1. /\ at[w] = "use" /\ conn' = [conn EXCEPT ![w] = 0]
      /\ conn \in [Workers -> Connections \union {0}] /\ conn[w] # 0
  BY DEF PoolInv, PoolTypeOK
<1>2. conn[w] \in Held /\ conn[w] \notin Free
  BY <1>1 DEF PoolInv, ExclusiveLoans, Held
<1>3. \A v \in Workers : v # w => conn[v] # conn[w]
  BY <1>1 DEF PoolInv, ExclusiveLoans
<1>4. Held' = Held \ {conn[w]}
  BY <1>1, <1>3 DEF Held
<1> QED BY <1>1, <1>2, <1>4

LEMMA ReleaseStep ==
  ASSUME PoolInv, NEW w \in Workers, ReleaseConnection(w)
  PROVE  /\ pool_' \in Seq(Connections) /\ Len(pool_') = Len(pool_) + 1
         /\ pool_' # <<>> /\ NoRepeat(pool_')
         /\ Free' = Free \union {conn[w]}
<1>1. /\ pool_ \in Seq(Connections) /\ NoRepeat(pool_)
      /\ pool_' = Append(pool_, conn[w])
  BY DEF PoolInv, PoolTypeOK, ExclusiveLoans, NoRepeat, ReleaseConnection
<1>2. Free = Elems(pool_) /\ Free' = Elems(pool_')
  BY DEF Free, Elems
<1>3. conn[w] \in Connections /\ conn[w] \notin Free
  BY GiveUpStep DEF ReleaseConnection
<1> QED BY <1>1, <1>2, <1>3, PushNoRepeat

------------------------------------------------------------------------------
LEMMA PoolInitInv == PoolInit => PoolInv
<1> SUFFICES ASSUME PoolInit PROVE PoolInv
  OBVIOUS
<1>1. /\ pool_ \in Seq(Connections) /\ Len(pool_) = poolSize_
      /\ \A i \in 1..poolSize_ : pool_[i] = i
      /\ poolSize_ \in Nat
  BY ConnectionAssumption DEF PoolInit, Connections
<1>2. Held = {}
  BY DEF PoolInit, Held
<1>3. PoolTypeOK
  BY <1>1 DEF PoolInit, PoolTypeOK
<1>4. ExclusiveLoans
  BY <1>1, <1>2 DEF PoolInit, ExclusiveLoans
<1>5. PoolControl /\ PoolNoLostWakeup /\ LeftAreFew
  BY ConnectionAssumption DEF PoolInit, PoolControl, PoolNoLostWakeup, LeftAreFew
<1> QED BY <1>3, <1>4, <1>5 DEF PoolInv

LEMMA PoolTypeStep == PoolInv /\ [PoolNext]_poolVars => PoolTypeOK'
<1> SUFFICES ASSUME PoolInv, [PoolNext]_poolVars PROVE PoolTypeOK'
  OBVIOUS
<1> USE DEF PoolTypeOK
<1>a. PoolTypeOK
  BY DEF PoolInv
<1>1. CASE UNCHANGED poolVars
  BY <1>1, <1>a DEF poolVars
<1>2. ASSUME NEW w \in Workers, GetConnection(w) \/ Acquire(w) \/ Check(w) \/ Wakeup(w)
      PROVE  PoolTypeOK'
  BY <1>2, <1>a DEF GetConnection, Acquire, Check, Wakeup
<1>3. ASSUME NEW w \in Workers, Sleep(w) PROVE PoolTypeOK'
  BY <1>3, <1>a DEF Sleep
<1>4. ASSUME NEW w \in Workers, TakeFront(w) PROVE PoolTypeOK'
  <2>1. /\ Head(pool_) \in Connections /\ Head(pool_) # 0
        /\ conn' = [conn EXCEPT ![w] = Head(pool_)] /\ pool_' \in Seq(Connections)
    BY <1>4, TakeFrontStep, ConnectionAssumption DEF Connections
  <2> QED BY <1>4, <1>a, <2>1 DEF TakeFront
<1>5. ASSUME NEW w \in Workers, ReleaseConnection(w) PROVE PoolTypeOK'
  <2>1. pool_' \in Seq(Connections)
    BY <1>5, ReleaseStep
  <2> QED BY <1>5, <1>a, <2>1 DEF ReleaseConnection
<1>6. ASSUME NEW w \in Workers, Drop(w) PROVE PoolTypeOK'
  BY <1>6, <1>a DEF Drop
<1> QED BY <1>1, <1>2, <1>3, <1>4, <1>5, <1>6 DEF PoolNext

(* The queue changes only while the mutex is free or held by the worker    *)
(* that pops, so that what a worker saw under the lock stays true.         *)
LEMMA PoolControlStep == PoolInv /\ [PoolNext]_poolVars => PoolControl'
<1> SUFFICES ASSUME PoolInv, [PoolNext]_poolVars PROVE PoolControl'
  OBVIOUS
<1> USE DEF PoolControl
<1>a. PoolTypeOK /\ PoolControl /\ NoThread \notin Workers
  BY ConnectionAssumption DEF PoolInv
<1>b. at \in [Workers -> {"idle", "lock", "check", "block", "wait", "take", "use"}]
  BY <1>a DEF PoolTypeOK
<1>1. CASE UNCHANGED poolVars
  BY <1>1, <1>a DEF poolVars
<1>2. ASSUME NEW w \in Workers, GetConnection(w) PROVE PoolControl'
  BY <1>2, <1>a, <1>b DEF GetConnection
<1>3. ASSUME NEW w \in Workers, Acquire(w) PROVE PoolControl'
  BY <1>3, <1>a, <1>b DEF Acquire
<1>4. ASSUME NEW w \in Workers, Check(w) PROVE PoolControl'
  <2>1. CASE pool_ # <<>> /\ at' = [at EXCEPT ![w] = "take"]
    BY <1>4, <1>a, <1>b, <2>1 DEF Check
  <2>2. CASE pool_ = <<>> /\ at' = [at EXCEPT ![w] = "block"]
    BY <1>4, <1>a, <1>b, <2>2 DEF Check
  <2> QED BY <1>4, <2>1, <2>2 DEF Check
<1>5. ASSUME NEW w \in Workers, Sleep(w) PROVE PoolControl'
  BY <1>5, <1>a, <1>b DEF Sleep
<1>6. ASSUME NEW w \in Workers, Wakeup(w) PROVE PoolControl'
  BY <1>6, <1>a, <1>b DEF Wakeup
<1>7. ASSUME NEW w \in Workers, TakeFront(w) PROVE PoolControl'
  <2>1. mutex_ = w /\ \A v \in Workers : v # w => at[v] \notin {"check", "block", "take"}
    BY <1>7, <1>a, <1>b DEF TakeFront
  <2>2. at' = [at EXCEPT ![w] = "use"] /\ mutex_' = NoThread /\ condition_' = condition_
    BY <1>7 DEF TakeFront
  <2> QED BY <1>7, <1>a, <1>b, <2>1, <2>2 DEF TakeFront
<1>8. ASSUME NEW w \in Workers, ReleaseConnection(w) PROVE PoolControl'
  <2>1. /\ pool_' # <<>> /\ mutex_' = NoThread /\ mutex_ = NoThread
        /\ at' = [at EXCEPT ![w] = "idle"] /\ at[w] = "use"
        /\ condition_' \subseteq condition_
    BY <1>8, ReleaseStep DEF ReleaseConnection
  <2> QED BY <1>a, <1>b, <2>1
<1>9. ASSUME NEW w \in Workers, Drop(w) PROVE PoolControl'
  BY <1>9, <1>a, <1>b DEF Drop
<1> QED BY <1>1, <1>2, <1>3, <1>4, <1>5, <1>6, <1>7, <1>8, <1>9 DEF PoolNext

LEMMA ExclusiveStep == PoolInv /\ [PoolNext]_poolVars => ExclusiveLoans'
<1> SUFFICES ASSUME PoolInv, [PoolNext]_poolVars PROVE ExclusiveLoans'
  OBVIOUS
<1> USE DEF ExclusiveLoans
<1>a. PoolTypeOK /\ ExclusiveLoans /\ conn \in [Workers -> Connections \union {0}]
  BY DEF PoolInv, PoolTypeOK
<1>1. ASSUME UNCHANGED <<pool_, conn>> PROVE ExclusiveLoans'
  BY <1>1, <1>a DEF Free, Held
<1>2. CASE UNCHANGED poolVars
  BY <1>1, <1>2 DEF poolVars
<1>3. ASSUME NEW w \in Workers,
             GetConnection(w) \/ Acquire(w) \/ Check(w) \/ Sleep(w) \/ Wakeup(w)
      PROVE  ExclusiveLoans'
  BY <1>1, <1>3 DEF GetConnection, Acquire, Check, Sleep, Wakeup
<1>4. ASSUME NEW w \in Workers, TakeFront(w) PROVE ExclusiveLoans'
  <2>1. /\ conn' = [conn EXCEPT ![w] = Head(pool_)] /\ Head(pool_) \in Free
        /\ Free' = Free \ {Head(pool_)} /\ Held' = Held \union {Head(pool_)}
        /\ NoRepeat(pool_')
    BY <1>4, TakeFrontStep
  <2>2. \A v \in Workers : conn[v] # 0 => conn[v] # Head(pool_)
    BY <1>a, <2>1 DEF Held
  <2>3. \A u, v \in Workers : u # v /\ conn'[u] # 0 => conn'[u] # conn'[v]
    <3>1. Head(pool_) # 0
      BY <1>4, TakeFrontStep, ConnectionAssumption DEF Connections
    <3> QED BY <1>a, <2>1, <2>2, <3>1
  <2> QED BY <1>a, <2>1, <2>3 DEF NoRepeat
<1>5. ASSUME NEW w \in Workers, GiveUp(w)
      PROVE  /\ Held' = Held \ {conn[w]}
             /\ \A u, v \in Workers : u # v /\ conn'[u] # 0 => conn'[u] # conn'[v]
  <2>1. conn' = [conn EXCEPT ![w] = 0] /\ Held' = Held \ {conn[w]}
    BY <1>5, GiveUpStep
  <2> QED BY <1>a, <2>1
<1>6. ASSUME NEW w \in Workers, ReleaseConnection(w) PROVE ExclusiveLoans'
  <2>1. Free' = Free \union {conn[w]} /\ NoRepeat(pool_')
    BY <1>6, ReleaseStep
  <2>2. GiveUp(w)
    BY <1>6 DEF ReleaseConnection
  <2> QED BY <1>a, <1>5, <2>1, <2>2 DEF NoRepeat
<1>7. ASSUME NEW w \in Workers, Drop(w) PROVE ExclusiveLoans'
  <2>1. GiveUp(w) /\ pool_' = pool_ /\ Free' = Free
    BY <1>7 DEF Drop, Free
  <2> QED BY <1>a, <1>5, <2>1
<1> QED BY <1>2, <1>3, <1>4, <1>6, <1>7 DEF PoolNext

LEMMA PoolWakeupStep == PoolInv /\ [PoolNext]_poolVars => PoolNoLostWakeup'
<1> SUFFICES ASSUME PoolInv, [PoolNext]_poolVars, condition_' # {}
             PROVE  Len(pool_') <= Cardinality(Getting')
  BY DEF PoolNoLostWakeup
<1>a. PoolTypeOK /\ PoolControl /\ PoolTypeOK'
  BY PoolTypeStep DEF PoolInv
<1>b. /\ at \in [Workers -> {"idle", "lock", "check", "block", "wait", "take", "use"}]
      /\ condition_ \subseteq Workers
  BY <1>a DEF PoolTypeOK
<1>c. /\ Getting \in SUBSET Workers /\ Getting' \in SUBSET Workers
      /\ Cardinality(Getting) \in Nat /\ Cardinality(Getting') \in Nat
      /\ Len(pool_) \in Nat /\ Len(pool_') \in Nat
  BY <1>a, WorkersCount DEF Getting, PoolTypeOK
<1>d. condition_ # {} => Len(pool_) <= Cardinality(Getting)
  BY DEF PoolInv, PoolNoLostWakeup
<1>1. ASSUME condition_ # {}, pool_' = pool_, Getting \subseteq Getting'
      PROVE  Len(pool_') <= Cardinality(Getting')
  <2>1. Cardinality(Getting) <= Cardinality(Getting')
    BY <1>1, <1>c, WorkersCount
  <2> QED BY <1>1, <1>c, <1>d, <2>1
<1>2. CASE UNCHANGED poolVars
  BY <1>2, <1>1 DEF poolVars, Getting
<1>3. ASSUME NEW w \in Workers, GetConnection(w) \/ Acquire(w)
      PROVE  Len(pool_') <= Cardinality(Getting')
  BY <1>3, <1>1, <1>b DEF GetConnection, Acquire, Getting
<1>4. ASSUME NEW w \in Workers, Wakeup(w) PROVE Len(pool_') <= Cardinality(Getting')
  BY <1>4, <1>1, <1>b DEF Wakeup, Getting
<1>5. ASSUME NEW w \in Workers, Check(w) PROVE Len(pool_') <= Cardinality(Getting')
  <2>1. CASE pool_ # <<>> /\ at' = [at EXCEPT ![w] = "take"]
    BY <1>5, <1>1, <1>b, <2>1 DEF Check, Getting
  <2>2. CASE pool_ = <<>>
    BY <1>5, <1>c, <2>2, EmptySeq DEF Check
  <2> QED BY <1>5, <2>1, <2>2 DEF Check
<1>6. ASSUME NEW w \in Workers, Sleep(w) PROVE Len(pool_') <= Cardinality(Getting')
  BY <1>6, <1>a, <1>c, EmptySeq DEF Sleep, PoolControl
<1>7. ASSUME NEW w \in Workers, TakeFront(w) PROVE Len(pool_') <= Cardinality(Getting')
  <2>1. Getting' = Getting \ {w} /\ w \in Getting /\ condition_' = condition_
    BY <1>7, <1>b DEF TakeFront, Getting
  <2>2. Cardinality(Getting') = Cardinality(Getting) - 1
    BY <1>c, <2>1, WorkersCount
  <2>3. Len(pool_') = Len(pool_) - 1
    BY <1>7, TakeFrontStep
  <2> QED BY <1>c, <1>d, <2>1, <2>2, <2>3
<1>8. ASSUME NEW w \in Workers, ReleaseConnection(w)
      PROVE  Len(pool_') <= Cardinality(Getting')
  <2>1. PICK t \in condition_ : condition_' = condition_ \ {t}
    BY <1>8 DEF ReleaseConnection
  <2>2. /\ at[t] = "wait" /\ t \in Workers /\ at[w] = "use"
        /\ at' = [at EXCEPT ![w] = "idle"]
    BY <1>8, <1>a, <1>b DEF ReleaseConnection, PoolControl
  <2>3. Getting' = Getting \union {t} /\ t \notin Getting
    BY <1>b, <2>1, <2>2 DEF Getting
  <2>4. Cardinality(Getting') = Cardinality(Getting) + 1
    BY <1>c, <2>2, <2>3, WorkersCount
  <2>5. Len(pool_') = Len(pool_) + 1
    BY <1>8, ReleaseStep
  <2> QED BY <1>c, <1>d, <2>1, <2>4, <2>5
<1>9. ASSUME NEW w \in Workers, Drop(w) PROVE Len(pool_') <= Cardinality(Getting')
  BY <1>9, <1>1, <1>b DEF Drop, Getting
<1> QED BY <1>2, <1>3, <1>4, <1>5, <1>6, <1>7, <1>8, <1>9 DEF PoolNext

(* A loan moves a connection from the queue to a worker and a return back; *)
(* a loss only makes them fewer.                                           *)
LEMMA LeftAreFewStep == PoolInv /\ [PoolNext]_poolVars => LeftAreFew'
<1> SUFFICES ASSUME PoolInv, [PoolNext]_poolVars,
                    NEW u \in Workers, at'[u] \in {"block", "wait"}
             PROVE  Len(pool_') + Cardinality(InUse') < Cardinality(Workers)
  BY DEF LeftAreFew
<1>a. PoolTypeOK /\ PoolControl /\ LeftAreFew /\ PoolTypeOK'
  BY PoolTypeStep DEF PoolInv
<1>b. at \in [Workers -> {"idle", "lock", "check", "block", "wait", "take", "use"}]
  BY <1>a DEF PoolTypeOK
<1>c. /\ InUse \in SUBSET Workers /\ InUse' \in SUBSET Workers
      /\ Cardinality(InUse) \in Nat /\ Cardinality(InUse') \in Nat
      /\ Cardinality(Workers) \in Nat
      /\ Len(pool_) \in Nat /\ Len(pool_') \in Nat
  BY <1>a, WorkersCount DEF InUse, PoolTypeOK
<1>1. ASSUME at[u] \in {"block", "wait"}, UNCHANGED pool_, InUse' = InUse
      PROVE  Len(pool_') + Cardinality(InUse') < Cardinality(Workers)
  BY <1>1, <1>a DEF LeftAreFew
<1>2. CASE UNCHANGED poolVars
  BY <1>2, <1>1 DEF poolVars, InUse
<1>3. ASSUME NEW w \in Workers, GetConnection(w) \/ Acquire(w) \/ Sleep(w) \/ Wakeup(w)
      PROVE  Len(pool_') + Cardinality(InUse') < Cardinality(Workers)
  <2>1. at[u] \in {"block", "wait"} /\ UNCHANGED pool_
    BY <1>3, <1>b DEF GetConnection, Acquire, Sleep, Wakeup
  <2>2. InUse' = InUse
    BY <1>3, <1>b DEF GetConnection, Acquire, Sleep, Wakeup, InUse
  <2> QED BY <1>1, <2>1, <2>2
<1>4. ASSUME NEW w \in Workers, Check(w)
      PROVE  Len(pool_') + Cardinality(InUse') < Cardinality(Workers)
  <2>1. InUse' = InUse /\ w \notin InUse /\ pool_' = pool_
    BY <1>4, <1>b DEF Check, InUse
  <2>2. CASE at[u] \in {"block", "wait"}
    BY <1>1, <2>1, <2>2
  <2>3. CASE at[u] \notin {"block", "wait"}
    <3>1. pool_ = <<>>
      BY <1>4, <1>b, <2>3 DEF Check
    <3>2. Len(pool_') = 0
      BY <2>1, <3>1, EmptySeq
    <3>3. InUse \in SUBSET (Workers \ {w}) /\ Workers \ {w} \in SUBSET Workers
      BY <1>c, <2>1
    <3>4. /\ Cardinality(InUse) <= Cardinality(Workers \ {w})
          /\ Cardinality(Workers \ {w}) = Cardinality(Workers) - 1
      BY <3>3, WorkersCount
    <3> QED BY <1>c, <2>1, <3>2, <3>4
  <2> QED BY <2>2, <2>3
<1>5. ASSUME NEW w \in Workers, TakeFront(w)
      PROVE  Len(pool_') + Cardinality(InUse') < Cardinality(Workers)
  <2>1. InUse' = InUse \union {w} /\ w \notin InUse /\ at[u] \in {"block", "wait"}
    BY <1>5, <1>b DEF TakeFront, InUse
  <2>2. Cardinality(InUse') = Cardinality(InUse) + 1
    BY <1>c, <2>1, WorkersCount
  <2>3. Len(pool_') = Len(pool_) - 1
    BY <1>5, TakeFrontStep
  <2> QED BY <1>a, <1>c, <2>1, <2>2, <2>3 DEF LeftAreFew
<1>6. ASSUME NEW w \in Workers, GiveUp(w)
      PROVE  Cardinality(InUse') = Cardinality(InUse) - 1 /\ at[u] \in {"block", "wait"}
  <2>1. InUse' = InUse \ {w} /\ w \in InUse /\ at[u] \in {"block", "wait"}
    BY <1>6, <1>b DEF InUse
  <2> QED BY <1>c, <2>1, WorkersCount
<1>7. ASSUME NEW w \in Workers, ReleaseConnection(w)
      PROVE  Len(pool_') + Cardinality(InUse') < Cardinality(Workers)
  <2>1. GiveUp(w) /\ Len(pool_') = Len(pool_) + 1
    BY <1>7, ReleaseStep DEF ReleaseConnection
  <2>2. Cardinality(InUse') = Cardinality(InUse) - 1 /\ at[u] \in {"block", "wait"}
    BY <1>6, <2>1
  <2> QED BY <1>a, <1>c, <2>1, <2>2 DEF LeftAreFew
<1>8. ASSUME NEW w \in Workers, Drop(w)
      PROVE  Len(pool_') + Cardinality(InUse') < Cardinality(Workers)
  <2>1. GiveUp(w) /\ pool_' = pool_
    BY <1>8 DEF Drop
  <2>2. Cardinality(InUse') = Cardinality(InUse) - 1 /\ at[u] \in {"block", "wait"}
    BY <1>6, <2>1
  <2> QED BY <1>a, <1>c, <2>1, <2>2 DEF LeftAreFew
<1> QED BY <1>2, <1>3, <1>4, <1>5, <1>7, <1>8 DEF PoolNext

(* All a step of the pool preserves, for the modules built on the pool.    *)
LEMMA PoolInvStep == PoolInv /\ [PoolNext]_poolVars => PoolInv'
BY PoolTypeStep, PoolControlStep, ExclusiveStep, PoolWakeupStep, LeftAreFewStep
   DEF PoolInv

------------------------------------------------------------------------------
(* The inductive invariant holds in every reachable state.                 *)
THEOREM PoolSafety == PoolSpec => []PoolInv
BY PoolInitInv, PoolInvStep, PTL DEF PoolSpec

(* PoolTypeOK of every state, whatever the number of workers and           *)
(* connections.                                                            *)
THEOREM PoolTypeCorrect == PoolSpec => []PoolTypeOK
<1>1. PoolInv => PoolTypeOK
  BY DEF PoolInv
<1> QED BY PoolSafety, <1>1, PTL

(* The lock of getConnection and releaseConnection keeps loans exclusive.  *)
THEOREM LoansAreExclusive == PoolSpec => []ExclusiveLoans
<1>1. PoolInv => ExclusiveLoans
  BY DEF PoolInv
<1> QED BY PoolSafety, <1>1, PTL

(* One notify_one per released connection loses no wakeup.                 *)
THEOREM PoolWakeupsAreNotLost == PoolSpec => []PoolNoLostWakeup
<1>1. PoolInv => PoolNoLostWakeup
  BY DEF PoolInv
<1> QED BY PoolSafety, <1>1, PTL

(* The connections not lost are in the queue or in the hands of one        *)
(* worker each, so that they are no more than both together.               *)
LEMMA ConnectionsCount ==
  ASSUME PoolInv
  PROVE  /\ Cardinality(Lost) \in Nat
         /\ poolSize_ <= Len(pool_) + Cardinality(InUse) + Cardinality(Lost)
<1>a. /\ pool_ \in Seq(Connections) /\ Len(pool_) \in Nat
      /\ conn \in [Workers -> Connections \union {0}]
      /\ \A w \in Workers : at[w] = "use" <=> conn[w] # 0
      /\ poolSize_ \in Nat
  BY ConnectionAssumption DEF PoolInv, PoolTypeOK
<1>1. IsFiniteSet(Free) /\ Cardinality(Free) <= Len(pool_)
  <2>1. Free = Elems(pool_)
    BY DEF Free, Elems
  <2> QED BY <1>a, <2>1, ElemsCount
<1>2. IsFiniteSet(Held) /\ Cardinality(Held) <= Cardinality(InUse)
  <2>1. [w \in InUse |-> conn[w]] \in Surjection(InUse, Held)
    BY <1>a DEF InUse, Held, Surjection
  <2>2. IsFiniteSet(InUse)
    BY WorkersCount DEF InUse
  <2> QED BY <2>1, <2>2, FS_Surjection
<1>3. IsFiniteSet(Connections) /\ Cardinality(Connections) = poolSize_
  <2>1. 1 \in Int /\ poolSize_ \in Int
    BY <1>a
  <2>2. /\ IsFiniteSet(1..poolSize_)
        /\ Cardinality(1..poolSize_) = IF 1 > poolSize_ THEN 0 ELSE poolSize_ - 1 + 1
    BY <2>1, FS_Interval
  <2> QED BY <1>a, <2>2 DEF Connections
<1>4. IsFiniteSet(Lost)
  BY <1>3, FS_Subset DEF Lost
<1>5. Connections \subseteq (Free \union Held) \union Lost
  BY DEF Lost
<1>6. /\ Cardinality(Free) \in Nat /\ Cardinality(Held) \in Nat
      /\ Cardinality(Lost) \in Nat /\ Cardinality(InUse) \in Nat
  BY <1>1, <1>2, <1>4, FS_CardinalityType, WorkersCount DEF InUse
<1>7. /\ IsFiniteSet(Free \union Held)
      /\ Cardinality(Free \union Held) <= Cardinality(Free) + Cardinality(Held)
  BY <1>1, <1>2, UnionCount
<1>8. /\ IsFiniteSet((Free \union Held) \union Lost)
      /\ Cardinality((Free \union Held) \union Lost) <=
           Cardinality(Free \union Held) + Cardinality(Lost)
  BY <1>4, <1>7, UnionCount
<1>9. poolSize_ <= Cardinality((Free \union Held) \union Lost)
  BY <1>3, <1>5, <1>8, FS_Subset
<1>10. /\ Cardinality(Free \union Held) \in Nat
       /\ Cardinality((Free \union Held) \union Lost) \in Nat
  BY <1>7, <1>8, FS_CardinalityType
<1> QED BY <1>a, <1>1, <1>2, <1>6, <1>7, <1>8, <1>9, <1>10

(* With as many connections as workers, a worker waits only after a loss.  *)
THEOREM WaitingNeedsLosses == PoolSpec => []WaitsOnlyWhenShort
<1>1. PoolInv => WaitsOnlyWhenShort
  <2> SUFFICES ASSUME PoolInv, NEW w \in Workers, at[w] \in {"block", "wait"}
               PROVE  poolSize_ < Cardinality(Workers) + Cardinality(Lost)
    BY DEF WaitsOnlyWhenShort
  <2>1. Len(pool_) + Cardinality(InUse) < Cardinality(Workers)
    BY DEF PoolInv, LeftAreFew
  <2>2. /\ poolSize_ <= Len(pool_) + Cardinality(InUse) + Cardinality(Lost)
        /\ Cardinality(Lost) \in Nat
    BY ConnectionsCount
  <2>3. /\ Len(pool_) \in Nat /\ poolSize_ \in Nat
        /\ Cardinality(InUse) \in Nat /\ Cardinality(Workers) \in Nat
    BY WorkersCount, ConnectionAssumption DEF PoolInv, PoolTypeOK, InUse
  <2> QED BY <2>1, <2>2, <2>3
<1> QED BY PoolSafety, <1>1, PTL

------------------------------------------------------------------------------
(* The refinement of ConnectionLeases: a worker's connection is leased to  *)
(* that worker.                                                            *)
HeldByOwner == \A w \in Workers : conn[w] # 0 => LeaseStatus[conn[w]] = w

LEMMA StatusOfHeld == PoolInv => HeldByOwner
<1> SUFFICES ASSUME PoolInv, NEW w \in Workers, conn[w] # 0
             PROVE  LeaseStatus[conn[w]] = w
  BY DEF HeldByOwner
<1>1. /\ conn[w] \in Connections /\ conn[w] \in Held /\ conn[w] \notin Free
      /\ \A v \in Workers : conn[v] = conn[w] => v = w
  BY DEF PoolInv, PoolTypeOK, ExclusiveLoans, Held
<1>2. (CHOOSE v \in Workers : conn[v] = conn[w]) = w
  BY <1>1
<1> QED BY <1>1, <1>2 DEF LeaseStatus

LEMMA StatusOfHeldNext == PoolInv' => HeldByOwner'
BY StatusOfHeld, PTL

LEMMA StatusIsFunction ==
  /\ LeaseStatus = [c \in Connections |-> LeaseStatus[c]]
  /\ LeaseStatus' = [c \in Connections |-> LeaseStatus'[c]]
BY DEF LeaseStatus

(* A connection that no step touches keeps its place.                      *)
LEMMA StatusFrame ==
  ASSUME PoolInv, PoolInv', NEW c \in Connections,
         c \in Free <=> c \in Free',
         \A w \in Workers : conn[w] = c <=> conn'[w] = c
  PROVE  LeaseStatus'[c] = LeaseStatus[c]
<1>0. c # 0
  BY ConnectionAssumption DEF Connections
<1>1. CASE c \in Free
  BY <1>1 DEF LeaseStatus
<1>2. ASSUME NEW w \in Workers, conn[w] = c PROVE LeaseStatus'[c] = LeaseStatus[c]
  BY <1>0, <1>2, StatusOfHeld, StatusOfHeldNext DEF HeldByOwner
<1>3. CASE c \notin Free /\ \A w \in Workers : conn[w] # c
  BY <1>3 DEF LeaseStatus, Held
<1> QED BY <1>1, <1>2, <1>3

(* Each step lends, returns or loses one connection, or changes none.      *)
LEMMA PoolRefines == PoolInv /\ [PoolNext]_poolVars => [Leases!Next]_LeaseStatus
<1> SUFFICES ASSUME PoolInv, [PoolNext]_poolVars PROVE [Leases!Next]_LeaseStatus
  OBVIOUS
<1> USE DEF Leases!Next, Leases!Lease, Leases!Return, Leases!Lose, Leases!Move
<1>a. PoolInv'
  BY PoolInvStep
<1>b. /\ \A c \in Connections : c # 0
      /\ conn \in [Workers -> Connections \union {0}]
  BY ConnectionAssumption DEF Connections, PoolInv, PoolTypeOK
<1>1. ASSUME UNCHANGED <<pool_, conn>> PROVE LeaseStatus' = LeaseStatus
  BY <1>1 DEF LeaseStatus, Free, Held
<1>2. ASSUME NEW w \in Workers, TakeFront(w)
      PROVE  Leases!Lease(w, Head(pool_)) /\ Head(pool_) \in Connections
  <2>1. /\ Head(pool_) \in Free /\ Head(pool_) \in Connections /\ conn[w] = 0
        /\ conn' = [conn EXCEPT ![w] = Head(pool_)] /\ Free' = Free \ {Head(pool_)}
    BY <1>2, TakeFrontStep
  <2>2. LeaseStatus[Head(pool_)] = "free"
    BY <2>1 DEF LeaseStatus
  <2>3. LeaseStatus'[Head(pool_)] = w
    BY <1>a, <1>b, <2>1, StatusOfHeldNext DEF HeldByOwner
  <2>4. \A c \in Connections : c # Head(pool_) => LeaseStatus'[c] = LeaseStatus[c]
    BY <1>a, <1>b, <2>1, StatusFrame
  <2>5. LeaseStatus' = [LeaseStatus EXCEPT ![Head(pool_)] = w]
    BY <2>1, <2>3, <2>4, StatusIsFunction
  <2> QED BY <2>1, <2>2, <2>5
<1>3. ASSUME NEW w \in Workers, GiveUp(w), Free' = Free \/ Free' = Free \union {conn[w]}
      PROVE  \/ Free' = Free \union {conn[w]} /\ Leases!Return(w, conn[w])
             \/ Free' = Free /\ Leases!Lose(w, conn[w])
  <2>1. /\ conn[w] \in Connections /\ conn[w] # 0 /\ conn[w] \notin Free
        /\ conn' = [conn EXCEPT ![w] = 0] /\ Held' = Held \ {conn[w]}
    BY <1>3, GiveUpStep
  <2>2. LeaseStatus[conn[w]] = w
    BY <2>1, StatusOfHeld DEF HeldByOwner
  <2>3. \A v \in Workers : v # w => conn[v] # conn[w]
    BY <2>1 DEF PoolInv, ExclusiveLoans
  <2>4. \A c \in Connections : c # conn[w] => LeaseStatus'[c] = LeaseStatus[c]
    BY <1>3, <1>a, <1>b, <2>1, <2>3, StatusFrame
  <2>5. CASE Free' = Free \union {conn[w]}
    <3>1. LeaseStatus'[conn[w]] = "free"
      BY <2>1, <2>5 DEF LeaseStatus
    <3>2. LeaseStatus' = [LeaseStatus EXCEPT ![conn[w]] = "free"]
      BY <2>1, <2>4, <3>1, StatusIsFunction
    <3> QED BY <2>2, <2>5, <3>2
  <2>6. CASE Free' = Free
    <3>1. LeaseStatus'[conn[w]] = "lost"
      BY <2>1, <2>6 DEF LeaseStatus
    <3>2. LeaseStatus' = [LeaseStatus EXCEPT ![conn[w]] = "lost"]
      BY <2>1, <2>4, <3>1, StatusIsFunction
    <3> QED BY <2>2, <2>6, <3>2
  <2> QED BY <1>3, <2>5, <2>6
<1>4. ASSUME NEW w \in Workers, ReleaseConnection(w) \/ Drop(w) PROVE Leases!Next
  <2>1. GiveUp(w) /\ (Free' = Free \/ Free' = Free \union {conn[w]})
    <3>1. CASE ReleaseConnection(w)
      BY <3>1, ReleaseStep DEF ReleaseConnection
    <3>2. CASE Drop(w)
      BY <3>2 DEF Drop, Free
    <3> QED BY <1>4, <3>1, <3>2
  <2>2. conn[w] \in Connections
    BY <2>1, GiveUpStep
  <2> QED BY <1>3, <2>1, <2>2
<1>5. ASSUME NEW w \in Workers,
             GetConnection(w) \/ Acquire(w) \/ Check(w) \/ Sleep(w) \/ Wakeup(w)
      PROVE  LeaseStatus' = LeaseStatus
  BY <1>1, <1>5 DEF GetConnection, Acquire, Check, Sleep, Wakeup
<1>6. CASE UNCHANGED poolVars
  BY <1>1, <1>6 DEF poolVars
<1> QED BY <1>2, <1>4, <1>5, <1>6 DEF PoolNext

(* ConnectionPool keeps the promise of ConnectionLeases: a connection is   *)
(* free, with one worker, or lost for good.                                *)
THEOREM PoolImplementsLeases == PoolSpec => ImplementsLeases
<1>1. PoolInit => Leases!Init
  BY ConnectionAssumption DEF PoolInit, Leases!Init, LeaseStatus, Free, Connections
<1>2. PoolInv /\ [PoolNext]_poolVars => [Leases!Next]_LeaseStatus
  BY PoolRefines
<1> QED BY <1>1, <1>2, PoolSafety, PTL DEF PoolSpec, ImplementsLeases, Leases!Spec
==============================================================================
