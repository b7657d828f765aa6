-------------------------- MODULE Delivery_proofs ---------------------------
(***************************************************************************)
(* What passes call ids, ids and entries of the socket on, proved for any  *)
(* callers, writers and sizes.                                             *)
(* The auto batcher implements IdSource and fetches in single flight.      *)
(* Uniqueness rests on BatcherServed: what was given out of a block are    *)
(* the ids below its num_returned_, so the index that a compare-and-set    *)
(* wins is new.  Single flight rests on two facts about the continuations: *)
(* no fetch is under way when fetch_in_progress_ is not valid              *)
(* (BatcherFlag), and a caller that comes to the mutex found the block it  *)
(* loaded useless (BatcherLooked).                                         *)
(* Call ids: OvershootBounded is not inductive, since a caller that was    *)
(* granted a slot and has not taken it yet will exceed the limit later.    *)
(* AdmissionBound counts those callers as if they had taken their slot.    *)
(* The socket: InPushOrder needs that an entry is pushed once              *)
(* (WriterNumbered), is queued, in the batch or deleted but never two of   *)
(* these (WriterWhole), and that a close is on the strand only after the   *)
(* alive_ flag went (WriterClosing).                                       *)
(***************************************************************************)
EXTENDS CallIdSequence, IdBatch, Sequences, TLAPS

-----------------------------------------------------------------------------
(***************************************************************************)
(* The ids of the flake id generator.                                      *)
(***************************************************************************)
CONSTANTS PoolSize, MaxCalls, NoId, Error

VARIABLES
    block, returned, expired, batches, fetches, fetch_in_progress, at,
    seen, gen, calls, answer, issued

\* The auto batcher, for any block size and pool.
Batcher == INSTANCE AutoBatcher

\* The types of what the ids depend on.
BatcherShapes ==
    /\ returned \in [1..MaxBatch -> 0..BatchSize]
    /\ DOMAIN at = Callers

\* Every id given out is one of a block, below its num_returned_.
BatcherServed ==
    \A id \in issued : \E b \in 1..MaxBatch : \E i \in 0..(BatchSize - 1) :
        i < returned[b] /\ id = Batcher!Id(b, i)

\* The invariant of the refinement.
BatcherIdsInv == BatcherShapes /\ BatcherServed

-----------------------------------------------------------------------------
(* No id is given twice                                                    *)

\* block::next() gives an id of the batch that nobody has, and what was given
\* out of every block stays below its num_returned_.
LEMMA BatcherNextIsNew ==
    ASSUME BatcherIdsInv, NEW c, NEW STATE b, Batcher!usable(b), Batcher!next(c, b)
    PROVE  /\ Batcher!Id(b, returned[b]) \in Batcher!Ids \ issued
           /\ BatcherServed'
           /\ returned' \in [1..MaxBatch -> 0..BatchSize]
  <1> DEFINE r == returned[b]
  <1>1. b \in 1..MaxBatch /\ r \in 0..(BatchSize - 1) /\ BatchSize \in Nat
    BY SizesAssumption DEF Batcher!usable, BatcherIdsInv, BatcherShapes
  <1>2. Batcher!Id(b, r) \in Batcher!Ids
    BY <1>1 DEF Batcher!Ids
  <1>3. Batcher!Id(b, r) \notin issued
    <2> SUFFICES ASSUME Batcher!Id(b, r) \in issued
                 PROVE  FALSE
      OBVIOUS
    <2>1. PICK d \in 1..MaxBatch, i \in 0..(BatchSize - 1) :
            i < returned[d] /\ Batcher!Id(b, r) = Batcher!Id(d, i)
      BY DEF BatcherIdsInv, BatcherServed
    <2>2. b = d /\ r = i
      BY <1>1, <2>1, BatchesDisjoint DEF Id, Batcher!Id
    <2> QED BY <1>1, <2>1, <2>2
  <1>4. returned' \in [1..MaxBatch -> 0..BatchSize]
    BY <1>1 DEF Batcher!next, BatcherIdsInv, BatcherShapes
  <1>5. /\ returned'[b] = r + 1
        /\ \A d \in 1..MaxBatch : returned'[d] >= returned[d]
    BY <1>1 DEF Batcher!next, BatcherIdsInv, BatcherShapes
  <1>6. BatcherServed'
    <2> SUFFICES ASSUME NEW id \in issued'
                 PROVE  \E d \in 1..MaxBatch : \E i \in 0..(BatchSize - 1) :
                            i < returned'[d] /\ id = Batcher!Id(d, i)
      BY DEF BatcherServed
    <2>1. CASE id = Batcher!Id(b, r)
      <3>1. r < returned'[b]
        BY <1>1, <1>5
      <3> QED BY <1>1, <2>1, <3>1
    <2>2. CASE id \in issued
      <3>1. PICK d \in 1..MaxBatch, i \in 0..(BatchSize - 1) :
                i < returned[d] /\ id = Batcher!Id(d, i)
        BY <2>2 DEF BatcherIdsInv, BatcherServed
      <3>2. i < returned'[d]
        BY <1>1, <1>4, <1>5, <3>1 DEF BatcherIdsInv, BatcherShapes
      <3> QED BY <3>1, <3>2
    <2> QED BY <2>1, <2>2 DEF Batcher!next
  <1> QED BY <1>2, <1>3, <1>4, <1>6

\* A caller's attempt at a block is Give, or leaves what callers see alone.
LEMMA BatcherAttemptAtBlock ==
    ASSUME BatcherIdsInv, NEW c \in Callers, NEW STATE b, NEW on, on # "idle",
           at[c] # "idle", Batcher!NextOr(c, b, on)
    PROVE  BatcherIdsInv' /\ [Batcher!Abstract!Next]_(Batcher!Abstract!vars)
  <1>1. CASE Batcher!usable(b) /\ Batcher!next(c, b)
    <2>1. /\ Batcher!Id(b, returned[b]) \in Batcher!Ids \ issued
          /\ BatcherIdsInv'
      BY <1>1, BatcherNextIsNew, Zenon DEF BatcherIdsInv, BatcherShapes, Batcher!next
    <2>2. {d \in Callers : at'[d] # "idle"} = {d \in Callers : at[d] # "idle"} \ {c}
      BY <1>1 DEF Batcher!next, BatcherIdsInv, BatcherShapes
    <2>3. Batcher!Abstract!Give(c)
      BY <1>1, <2>1, <2>2, Zenon DEF Batcher!Abstract!Give, Batcher!next
    <2> QED BY <2>1, <2>3 DEF Batcher!Abstract!Next
  <1>2. CASE /\ at' = [at EXCEPT ![c] = on]
             /\ UNCHANGED <<answer, issued, returned>>
    <2>1. {d \in Callers : at'[d] # "idle"} = {d \in Callers : at[d] # "idle"}
      BY <1>2 DEF BatcherIdsInv, BatcherShapes
    <2>2. BatcherIdsInv'
      BY <1>2 DEF BatcherIdsInv, BatcherShapes, BatcherServed
    <2> QED BY <1>2, <2>1, <2>2 DEF Batcher!Abstract!vars
  <1> QED BY <1>1, <1>2 DEF Batcher!NextOr

\* A step that moves one caller from one place of new_id() to another.
LEMMA BatcherCallerMoves ==
    ASSUME BatcherIdsInv, NEW c \in Callers, NEW on, on # "idle",
           at[c] # "idle", at' = [at EXCEPT ![c] = on],
           UNCHANGED <<answer, issued, returned>>
    PROVE  BatcherIdsInv' /\ [Batcher!Abstract!Next]_(Batcher!Abstract!vars)
  <1>1. {d \in Callers : at'[d] # "idle"} = {d \in Callers : at[d] # "idle"}
    BY DEF BatcherIdsInv, BatcherShapes
  <1>2. BatcherIdsInv'
    BY DEF BatcherIdsInv, BatcherShapes, BatcherServed
  <1> QED BY <1>1, <1>2 DEF Batcher!Abstract!vars

\* Every step of the batcher is a step of IdSource, or none.
LEMMA BatcherNextRefines == BatcherIdsInv /\ [Batcher!Next]_(Batcher!vars) => BatcherIdsInv' /\ [Batcher!Abstract!Next]_(Batcher!Abstract!vars)
  <1> SUFFICES ASSUME BatcherIdsInv, [Batcher!Next]_(Batcher!vars)
               PROVE  BatcherIdsInv' /\ [Batcher!Abstract!Next]_(Batcher!Abstract!vars)
    OBVIOUS
  <1>1. ASSUME NEW c \in Callers, Batcher!NewId(c)
        PROVE  BatcherIdsInv' /\ [Batcher!Abstract!Next]_(Batcher!Abstract!vars)
    <2>1. {d \in Callers : at'[d] # "idle"} = {d \in Callers : at[d] # "idle"} \cup {c}
      BY <1>1 DEF Batcher!NewId, BatcherIdsInv, BatcherShapes
    <2>2. Batcher!Abstract!Ask(c)
      BY <1>1, <2>1 DEF Batcher!Abstract!Ask, Batcher!NewId
    <2>3. BatcherIdsInv'
      BY <1>1 DEF Batcher!NewId, BatcherIdsInv, BatcherShapes, BatcherServed
    <2> QED BY <2>2, <2>3 DEF Batcher!Abstract!Next
  <1>2. ASSUME NEW c \in Callers, Batcher!FastNext(c)
        PROVE  BatcherIdsInv' /\ [Batcher!Abstract!Next]_(Batcher!Abstract!vars)
    BY <1>2, BatcherAttemptAtBlock DEF Batcher!FastNext
  <1>3. ASSUME NEW c \in Callers, Batcher!TryGetId(c)
        PROVE  BatcherIdsInv' /\ [Batcher!Abstract!Next]_(Batcher!Abstract!vars)
    BY <1>3, BatcherCallerMoves, Zenon DEF Batcher!TryGetId
  <1>4. ASSUME NEW c \in Callers, Batcher!TryNext(c)
        PROVE  BatcherIdsInv' /\ [Batcher!Abstract!Next]_(Batcher!Abstract!vars)
    BY <1>4, BatcherAttemptAtBlock DEF Batcher!TryNext
  <1>5. ASSUME NEW c \in Callers, Batcher!Elect(c)
        PROVE  BatcherIdsInv' /\ [Batcher!Abstract!Next]_(Batcher!Abstract!vars)
    <2>1. CASE Batcher!usable(block) /\ Batcher!next(c, block)
      BY <1>5, <2>1, BatcherAttemptAtBlock DEF Batcher!Elect, Batcher!NextOr
    <2>2. CASE Batcher!JoinFetch(c)
      BY <1>5, <2>2, BatcherCallerMoves, Zenon DEF Batcher!Elect, Batcher!JoinFetch
    <2> QED BY <1>5, <2>1, <2>2 DEF Batcher!Elect
  <1>6. ASSUME NEW c \in Callers, Batcher!ClearFetch(c)
        PROVE  BatcherIdsInv' /\ [Batcher!Abstract!Next]_(Batcher!Abstract!vars)
    BY <1>6, BatcherCallerMoves, Zenon DEF Batcher!ClearFetch
  <1>7. ASSUME NEW c \in Callers, Batcher!Continue(c)
        PROVE  BatcherIdsInv' /\ [Batcher!Abstract!Next]_(Batcher!Abstract!vars)
    <2>1. CASE Batcher!NextOr(c, fetches[gen[c]].block, "posted")
      BY <1>7, <2>1, BatcherAttemptAtBlock DEF Batcher!Continue
    <2>2. CASE /\ answer' = [answer EXCEPT ![c] = Error]
               /\ at' = [at EXCEPT ![c] = "idle"]
               /\ UNCHANGED <<issued, returned>>
      <3>1. {d \in Callers : at'[d] # "idle"} = {d \in Callers : at[d] # "idle"} \ {c}
        BY <2>2 DEF BatcherIdsInv, BatcherShapes
      <3>2. Batcher!Abstract!Fail(c)
        BY <1>7, <2>2, <3>1 DEF Batcher!Abstract!Fail, Batcher!Continue
      <3>3. BatcherIdsInv'
        BY <2>2 DEF BatcherIdsInv, BatcherShapes, BatcherServed
      <3> QED BY <3>2, <3>3 DEF Batcher!Abstract!Next
    <2> QED BY <1>7, <2>1, <2>2 DEF Batcher!Continue
  <1>8. ASSUME UNCHANGED <<at, returned, answer, issued>>
        PROVE  BatcherIdsInv' /\ [Batcher!Abstract!Next]_(Batcher!Abstract!vars)
    BY <1>8 DEF BatcherIdsInv, BatcherShapes, BatcherServed, Batcher!Abstract!vars
  <1>9. ASSUME NEW g \in 1..Len(fetches), Batcher!FetchStep(g)
        PROVE  UNCHANGED <<at, returned, answer, issued>>
    BY <1>9 DEF Batcher!FetchStep, Batcher!StartFetch, Batcher!ClusterAnswers, Batcher!FetchReturns
  <1>10. ASSUME NEW b \in 1..MaxBatch, Batcher!Expire(b)
         PROVE  UNCHANGED <<at, returned, answer, issued>>
    BY <1>10 DEF Batcher!Expire
  <1>11. ASSUME UNCHANGED Batcher!vars
         PROVE  UNCHANGED <<at, returned, answer, issued>>
    BY <1>11 DEF Batcher!vars
  <1> QED BY <1>1, <1>2, <1>3, <1>4, <1>5, <1>6, <1>7, <1>8, <1>9, <1>10, <1>11
          DEF Batcher!Next, Batcher!CallerStep

\* new_id() answers every call at most once and never with an id that was
\* given out before, whatever the interleaving of callers, fetches and expiry:
\* auto_batcher implements the id source it promises.
THEOREM BatcherIsIdSource == Batcher!Spec => Batcher!ImplementsIdSource
  <1>1. Batcher!Init => BatcherIdsInv /\ Batcher!Abstract!Init
    <2> SUFFICES ASSUME Batcher!Init
                 PROVE  BatcherIdsInv /\ Batcher!Abstract!Init
      OBVIOUS
    <2>1. BatcherIdsInv
      BY SizesAssumption DEF Batcher!Init, BatcherIdsInv, BatcherShapes, BatcherServed
    <2>2. {d \in Callers : at[d] # "idle"} = {}
      BY DEF Batcher!Init
    <2> QED BY <2>1, <2>2 DEF Batcher!Init, Batcher!Abstract!Init
  <1> QED BY <1>1, BatcherNextRefines, PTL DEF Batcher!Spec, Batcher!ImplementsIdSource, Batcher!Abstract!Spec

-----------------------------------------------------------------------------
(* Single flight                                                           *)

\* The fetches that have not come to an end.
BatcherUnsettled == {g \in 1..Len(fetches) : fetches[g].stage \notin {"ready", "failed"}}

\* No fetch is under way when fetch_in_progress_ is not valid.
BatcherFlag == ~fetch_in_progress => BatcherUnsettled = {}

\* A caller comes to the mutex only with a block that cannot serve.
BatcherLooked == \A c \in Callers : at[c] = "lock" => ~Batcher!usable(seen[c])

\* The types of what the fetches depend on.
BatcherFlightShapes ==
    /\ BatcherShapes
    /\ DOMAIN seen = Callers
    /\ batches \in 0..MaxBatch
    /\ fetches \in Seq([stage : Batcher!Stages, block : 0..MaxBatch])
    /\ fetch_in_progress \in BOOLEAN

\* The inductive invariant of the single flight.
BatcherFlightInv == BatcherFlightShapes /\ BatcherFlag /\ BatcherLooked /\ Batcher!SingleFlight

\* A block that cannot serve stays so.
LEMMA BatcherSpentForEver ==
    ASSUME returned \in [1..MaxBatch -> 0..BatchSize],
           returned' \in [1..MaxBatch -> 0..BatchSize],
           \/ UNCHANGED returned
           \/ \E d \in 1..MaxBatch : returned' = [returned EXCEPT ![d] = @ + 1],
           expired \subseteq expired'
    PROVE  \A b : ~Batcher!usable(b) => ~Batcher!usable(b)'
  <1>1. ASSUME NEW b \in 1..MaxBatch
        PROVE  returned'[b] >= returned[b]
    BY <1>1
  <1>2. ASSUME NEW b, Batcher!usable(b)'
        PROVE  Batcher!usable(b)
    <2>1. b \in 1..MaxBatch /\ b \notin expired' /\ returned'[b] < BatchSize
      BY <1>2 DEF Batcher!usable
    <2>2. returned[b] < BatchSize
      BY <1>1, <2>1, SizesAssumption
    <2> QED BY <2>1, <2>2 DEF Batcher!usable
  <1> QED BY <1>2

\* A step that leaves the fetches and the installed block alone, in which
\* blocks are used up or expire and callers move.
LEMMA BatcherFetchesAlone ==
    ASSUME BatcherFlightInv, BatcherFlightShapes',
           UNCHANGED <<fetches, fetch_in_progress, block>>,
           \A b : ~Batcher!usable(b) => ~Batcher!usable(b)',
           BatcherLooked'
    PROVE  BatcherFlightInv'
  <1>1. BatcherUnsettled' = BatcherUnsettled
    BY DEF BatcherUnsettled
  <1>2. BatcherFlag'
    BY <1>1 DEF BatcherFlag, BatcherFlightInv
  <1>3. ~Batcher!usable(block) => ~Batcher!usable(block)'
    BY DEF Batcher!usable
  <1>4. Batcher!SingleFlight'
    BY <1>3 DEF Batcher!SingleFlight, BatcherFlightInv
  <1> QED BY <1>2, <1>4 DEF BatcherFlightInv

\* What callers have looked at stays useless while one of them moves on.
LEMMA BatcherLookedStays ==
    ASSUME BatcherFlightInv, NEW c \in Callers, DOMAIN at' = Callers,
           \A d \in Callers \ {c} : at'[d] = at[d] /\ seen'[d] = seen[d],
           \A b : ~Batcher!usable(b) => ~Batcher!usable(b)',
           at'[c] = "lock" => seen'[c] = seen[c] /\ ~Batcher!usable(seen[c])
    PROVE  BatcherLooked'
  <1> SUFFICES ASSUME NEW d \in Callers, at'[d] = "lock"
               PROVE  ~Batcher!usable(seen[d])'
    BY DEF BatcherLooked
  <1>1. seen'[d] = seen[d] /\ ~Batcher!usable(seen[d])
    BY DEF BatcherFlightInv, BatcherLooked
  <1> QED BY <1>1 DEF Batcher!usable

\* An attempt at a block, which is the one loaded before if the caller goes on
\* to the mutex.
LEMMA BatcherAttemptInFlight ==
    ASSUME BatcherFlightInv, NEW c \in Callers, NEW STATE b, NEW on,
           Batcher!NextOr(c, b, on), on = "lock" => b = seen[c],
           UNCHANGED <<block, expired, batches, fetches, fetch_in_progress>>
    PROVE  BatcherFlightInv'
  <1>1. CASE Batcher!usable(b) /\ Batcher!next(c, b)
    <2>1. BatcherFlightShapes'
      BY <1>1, SizesAssumption DEF Batcher!usable, Batcher!next, BatcherFlightInv, BatcherFlightShapes, BatcherShapes
    <2>2. \A d : ~Batcher!usable(d) => ~Batcher!usable(d)'
      <3>1. b \in 1..MaxBatch /\ returned' = [returned EXCEPT ![b] = @ + 1]
        BY <1>1, Zenon DEF Batcher!usable, Batcher!next
      <3> QED BY <2>1, <3>1, BatcherSpentForEver, Zenon DEF BatcherFlightInv, BatcherFlightShapes, BatcherShapes
    <2>3. BatcherLooked'
      BY <1>1, <2>1, <2>2, BatcherLookedStays, Zenon DEF Batcher!next, BatcherFlightInv, BatcherFlightShapes, BatcherShapes
    <2> QED BY <2>1, <2>2, <2>3, BatcherFetchesAlone
  <1>2. CASE /\ ~Batcher!usable(b) /\ at' = [at EXCEPT ![c] = on]
             /\ UNCHANGED <<returned, seen>>
    <2>1. BatcherFlightShapes'
      BY <1>2, Zenon DEF BatcherFlightInv, BatcherFlightShapes, BatcherShapes
    <2>2. \A d : ~Batcher!usable(d) => ~Batcher!usable(d)'
      BY <1>2, <2>1, BatcherSpentForEver, Zenon DEF BatcherFlightInv, BatcherFlightShapes, BatcherShapes
    <2>3. BatcherLooked'
      BY <1>2, <2>1, <2>2, BatcherLookedStays DEF BatcherFlightInv, BatcherFlightShapes, BatcherShapes
    <2> QED BY <2>1, <2>2, <2>3, BatcherFetchesAlone, Zenon
  <1> QED BY <1>1, <1>2 DEF Batcher!NextOr

\* A caller that moves on without an attempt and not to the mutex.
LEMMA BatcherMoveInFlight ==
    ASSUME BatcherFlightInv, NEW c \in Callers, NEW on, on # "lock",
           at' = [at EXCEPT ![c] = on],
           seen' = seen \/ (\E b : seen' = [seen EXCEPT ![c] = b]),
           UNCHANGED returned, expired' = expired
    PROVE  BatcherLooked' /\ (\A b : ~Batcher!usable(b) => ~Batcher!usable(b)') /\ BatcherShapes' /\ DOMAIN seen' = Callers
  <1>1. BatcherShapes' /\ DOMAIN seen' = Callers
    BY DEF BatcherFlightInv, BatcherFlightShapes, BatcherShapes
  <1>2. \A b : ~Batcher!usable(b) => ~Batcher!usable(b)'
    BY BatcherSpentForEver, Zenon DEF BatcherFlightInv, BatcherFlightShapes, BatcherShapes
  <1>3. BatcherLooked'
    BY <1>1, <1>2, BatcherLookedStays, Zenon DEF BatcherFlightInv, BatcherFlightShapes, BatcherShapes
  <1> QED BY <1>1, <1>2, <1>3, Zenon

\* A fetch that is under way takes a step: the installed block stays, or the
\* fetch is settled.
LEMMA BatcherFetchGoesOn ==
    ASSUME BatcherFlightInv, NEW g \in BatcherUnsettled, NEW f,
           f \in [stage : Batcher!Stages, block : 0..MaxBatch],
           fetches' = [fetches EXCEPT ![g] = f],
           UNCHANGED <<fetch_in_progress, at, seen, returned, expired>>,
           batches' \in 0..MaxBatch,
           block' = block \/ f.stage = "ready"
    PROVE  BatcherFlightInv'
  <1>1. /\ g \in 1..Len(fetches) /\ g = Len(fetches) /\ ~Batcher!usable(block)
        /\ \A h \in 1..Len(fetches) \ {g} : fetches[h].stage \in {"ready", "failed"}
    BY DEF BatcherUnsettled, BatcherFlightInv, Batcher!SingleFlight
  <1>2. fetch_in_progress
    BY DEF BatcherFlightInv, BatcherFlag
  <1>3. /\ fetches' \in Seq([stage : Batcher!Stages, block : 0..MaxBatch])
        /\ Len(fetches') = Len(fetches)
        /\ fetches'[g] = f
        /\ \A h \in 1..Len(fetches) \ {g} : fetches'[h] = fetches[h]
    BY <1>1 DEF BatcherFlightInv, BatcherFlightShapes
  <1>4. BatcherFlightShapes'
    BY <1>3 DEF BatcherFlightInv, BatcherFlightShapes, BatcherShapes
  <1>5. BatcherLooked'
    BY DEF BatcherFlightInv, BatcherLooked, Batcher!usable
  <1>6. BatcherFlag'
    BY <1>2 DEF BatcherFlag
  <1>7. Batcher!SingleFlight'
    <2>1. CASE block' = block
      <3>1. ~Batcher!usable(block)'
        BY <1>1, <2>1 DEF Batcher!usable
      <3> QED BY <1>1, <1>3, <3>1, Zenon DEF Batcher!SingleFlight
    <2>2. CASE f.stage = "ready"
      BY <1>1, <1>3, <2>2 DEF Batcher!SingleFlight
    <2> QED BY <2>1, <2>2
  <1> QED BY <1>4, <1>5, <1>6, <1>7, Zenon DEF BatcherFlightInv

\* Every step of the batcher preserves it.
LEMMA BatcherFlightNext == BatcherFlightInv /\ [Batcher!Next]_(Batcher!vars) => BatcherFlightInv'
  <1> SUFFICES ASSUME BatcherFlightInv, [Batcher!Next]_(Batcher!vars)
               PROVE  BatcherFlightInv'
    OBVIOUS
  <1>1. ASSUME NEW c \in Callers, Batcher!NewId(c)
        PROVE  BatcherFlightInv'
    <2>1. /\ BatcherLooked' /\ (\A b : ~Batcher!usable(b) => ~Batcher!usable(b)')
          /\ BatcherShapes' /\ DOMAIN seen' = Callers
      BY <1>1, BatcherMoveInFlight, Zenon DEF Batcher!NewId
    <2>2. BatcherFlightShapes'
      BY <1>1, <2>1 DEF Batcher!NewId, BatcherFlightInv, BatcherFlightShapes
    <2> QED BY <1>1, <2>1, <2>2, BatcherFetchesAlone DEF Batcher!NewId
  <1>2. ASSUME NEW c \in Callers, Batcher!FastNext(c)
        PROVE  BatcherFlightInv'
    BY <1>2, BatcherAttemptInFlight, Zenon DEF Batcher!FastNext
  <1>3. ASSUME NEW c \in Callers, Batcher!TryGetId(c)
        PROVE  BatcherFlightInv'
    <2>1. /\ BatcherLooked' /\ (\A b : ~Batcher!usable(b) => ~Batcher!usable(b)')
          /\ BatcherShapes' /\ DOMAIN seen' = Callers
      BY <1>3, BatcherMoveInFlight, Zenon DEF Batcher!TryGetId
    <2>2. BatcherFlightShapes'
      BY <1>3, <2>1 DEF Batcher!TryGetId, BatcherFlightInv, BatcherFlightShapes
    <2> QED BY <1>3, <2>1, <2>2, BatcherFetchesAlone, Zenon DEF Batcher!TryGetId
  <1>4. ASSUME NEW c \in Callers, Batcher!TryNext(c)
        PROVE  BatcherFlightInv'
    BY <1>4, BatcherAttemptInFlight DEF Batcher!TryNext
  <1>5. ASSUME NEW c \in Callers, Batcher!Elect(c)
        PROVE  BatcherFlightInv'
    <2>1. CASE Batcher!usable(block) /\ Batcher!next(c, block) /\ UNCHANGED <<fetches, fetch_in_progress>>
      <3>1. Batcher!NextOr(c, block, "idle")
        BY <2>1 DEF Batcher!NextOr
      <3> QED BY <1>5, <2>1, <3>1, BatcherAttemptInFlight DEF Batcher!Elect
    <2>2. CASE ~(block # seen[c] /\ Batcher!usable(block)) /\ Batcher!JoinFetch(c)
      <3>1. /\ BatcherLooked' /\ (\A b : ~Batcher!usable(b) => ~Batcher!usable(b)')
            /\ BatcherShapes' /\ DOMAIN seen' = Callers
        BY <1>5, <2>2, BatcherMoveInFlight, Zenon DEF Batcher!JoinFetch, Batcher!Elect
      <3>2. ~Batcher!usable(block)'
        <4>1. ~Batcher!usable(block)
          BY <1>5, <2>2, Zenon DEF Batcher!Elect, BatcherFlightInv, BatcherLooked
        <4> QED BY <1>5, <3>1, <4>1, Zenon DEF Batcher!Elect, Batcher!usable
      <3>3. BatcherFlightShapes' /\ fetch_in_progress'
        <4>1. [stage |-> "queued", block |-> 0] \in [stage : Batcher!Stages, block : 0..MaxBatch]
          BY SizesAssumption DEF Batcher!Stages
        <4>2. fetches' \in Seq([stage : Batcher!Stages, block : 0..MaxBatch])
          <5>1. CASE fetches' = fetches
            BY <5>1 DEF BatcherFlightInv, BatcherFlightShapes
          <5>2. CASE fetches' = Append(fetches, [stage |-> "queued", block |-> 0])
            BY <4>1, <5>2 DEF BatcherFlightInv, BatcherFlightShapes
          <5> QED BY <2>2, <5>1, <5>2 DEF Batcher!JoinFetch
        <4>3. fetch_in_progress' /\ fetch_in_progress' \in BOOLEAN
          BY <2>2 DEF Batcher!JoinFetch
        <4> QED BY <1>5, <3>1, <4>2, <4>3 DEF Batcher!Elect, BatcherFlightShapes, BatcherFlightInv
      <3>4. Batcher!SingleFlight'
        <4>1. CASE fetch_in_progress
          BY <2>2, <3>2, <4>1 DEF Batcher!JoinFetch, Batcher!SingleFlight, BatcherFlightInv
        <4>2. CASE ~fetch_in_progress
          <5>1. \A g \in 1..Len(fetches) : fetches[g].stage \in {"ready", "failed"}
            BY <4>2 DEF BatcherFlightInv, BatcherFlag, BatcherUnsettled
          <5>2. fetches' = Append(fetches, [stage |-> "queued", block |-> 0])
            BY <2>2, <4>2 DEF Batcher!JoinFetch
          <5>3. /\ Len(fetches') = Len(fetches) + 1
                /\ \A g \in 1..Len(fetches) : fetches'[g] = fetches[g]
            BY <5>2 DEF BatcherFlightInv, BatcherFlightShapes
          <5>4. Len(fetches) \in Nat
            BY DEF BatcherFlightInv, BatcherFlightShapes
          <5> QED BY <3>2, <5>1, <5>3, <5>4 DEF Batcher!SingleFlight
        <4> QED BY <4>1, <4>2
      <3> QED BY <3>1, <3>3, <3>4, Zenon DEF BatcherFlightInv, BatcherFlag
    <2> QED BY <1>5, <2>1, <2>2, Zenon DEF Batcher!Elect
  <1>6. ASSUME NEW c \in Callers, Batcher!ClearFetch(c)
        PROVE  BatcherFlightInv'
    <2>1. /\ BatcherLooked' /\ (\A b : ~Batcher!usable(b) => ~Batcher!usable(b)')
          /\ BatcherShapes' /\ DOMAIN seen' = Callers
      BY <1>6, BatcherMoveInFlight, Zenon DEF Batcher!ClearFetch
    <2>2. fetches' = fetches /\ UNCHANGED <<block, returned, expired, batches>>
      BY <1>6 DEF Batcher!ClearFetch
    <2>3. fetch_in_progress' \in BOOLEAN
      BY <1>6 DEF Batcher!ClearFetch
    <2>4. Batcher!SingleFlight'
      BY <2>2 DEF Batcher!SingleFlight, BatcherFlightInv, Batcher!usable
    <2>5. BatcherFlag'
      <3> SUFFICES ASSUME ~fetch_in_progress', NEW g \in BatcherUnsettled
                   PROVE  FALSE
        BY <2>2 DEF BatcherFlag, BatcherUnsettled
      <3>1. g = Len(fetches)
        BY DEF BatcherUnsettled, BatcherFlightInv, Batcher!SingleFlight
      <3>2. fetch_in_progress
        BY DEF BatcherFlightInv, BatcherFlag
      <3>3. gen[c] = Len(fetches)
        BY <1>6, <3>2, Zenon DEF Batcher!ClearFetch
      <3> QED BY <1>6, <3>1, <3>3 DEF Batcher!ClearFetch, BatcherUnsettled
    <2> QED BY <2>1, <2>2, <2>3, <2>4, <2>5, Zenon DEF BatcherFlightInv, BatcherFlightShapes
  <1>7. ASSUME NEW c \in Callers, Batcher!Continue(c)
        PROVE  BatcherFlightInv'
    <2>1. CASE Batcher!NextOr(c, fetches[gen[c]].block, "posted")
      BY <1>7, <2>1, BatcherAttemptInFlight DEF Batcher!Continue
    <2>2. CASE at' = [at EXCEPT ![c] = "idle"] /\ UNCHANGED <<returned, seen>>
      <3>1. /\ BatcherLooked' /\ (\A b : ~Batcher!usable(b) => ~Batcher!usable(b)')
            /\ BatcherShapes' /\ DOMAIN seen' = Callers
        BY <1>7, <2>2, BatcherMoveInFlight, Zenon DEF Batcher!Continue
      <3>2. BatcherFlightShapes'
        BY <1>7, <3>1, Zenon DEF Batcher!Continue, BatcherFlightInv, BatcherFlightShapes
      <3> QED BY <1>7, <3>1, <3>2, BatcherFetchesAlone, Zenon DEF Batcher!Continue
    <2> QED BY <1>7, <2>1, <2>2, Zenon DEF Batcher!Continue
  <1>8. ASSUME NEW g \in 1..Len(fetches), Batcher!FetchStep(g)
        PROVE  BatcherFlightInv'
    <2> DEFINE R == [stage : Batcher!Stages, block : 0..MaxBatch]
    <2>1. fetches[g] \in R /\ g \in BatcherUnsettled
      <3>1. fetches[g].stage \in {"queued", "asking", "answered"}
        BY <1>8, Zenon DEF Batcher!FetchStep, Batcher!StartFetch, Batcher!ClusterAnswers, Batcher!FetchReturns
      <3>2. g \in BatcherUnsettled
        BY <3>1, Zenon DEF BatcherUnsettled
      <3>3. fetches \in Seq(R)
        BY DEF BatcherFlightInv, BatcherFlightShapes
      <3> HIDE DEF R
      <3>4. fetches[g] \in R
        BY <3>3
      <3> QED BY <3>2, <3>4, Zenon
    <2>2. PICK f : /\ f \in R
                   /\ fetches' = [fetches EXCEPT ![g] = f]
                   /\ block' = block \/ f.stage = "ready"
      <3>1. ASSUME NEW s \in Batcher!Stages
            PROVE  [fetches[g] EXCEPT !.stage = s] \in R
                   /\ [fetches[g] EXCEPT !.stage = s].stage = s
        BY <2>1, <3>1, Zenon
      <3>2. CASE Batcher!StartFetch(g)
        <4>1. "asking" \in Batcher!Stages
          BY Zenon DEF Batcher!Stages
        <4>2. fetches' = [fetches EXCEPT ![g] = [fetches[g] EXCEPT !.stage = "asking"]]
          BY <3>2 DEF Batcher!StartFetch
        <4> QED BY <3>1, <3>2, <4>1, <4>2, Zenon DEF Batcher!StartFetch
      <3>3. CASE Batcher!ClusterAnswers(g)
        <4>1. PICK b \in 0..MaxBatch :
                fetches' = [fetches EXCEPT ![g] = [stage |-> "answered", block |-> b]]
          <5>1. CASE /\ batches < MaxBatch
                     /\ fetches' = [fetches EXCEPT
                            ![g] = [stage |-> "answered", block |-> batches + 1]]
            <6>1. batches + 1 \in 0..MaxBatch
              BY <5>1, SizesAssumption DEF BatcherFlightInv, BatcherFlightShapes
            <6> QED BY <5>1, <6>1, Zenon
          <5>2. CASE fetches' = [fetches EXCEPT ![g] = [stage |-> "answered", block |-> 0]]
            <6>1. 0 \in 0..MaxBatch
              BY SizesAssumption
            <6> QED BY <5>2, <6>1, Zenon
          <5> QED BY <3>3, <5>1, <5>2, Zenon DEF Batcher!ClusterAnswers
        <4>2. [stage |-> "answered", block |-> b] \in R
          BY Zenon DEF Batcher!Stages
        <4> QED BY <3>3, <4>1, <4>2, Zenon DEF Batcher!ClusterAnswers
      <3>4. CASE Batcher!FetchReturns(g)
        <4>1. "failed" \in Batcher!Stages /\ "ready" \in Batcher!Stages
              /\ [stage |-> "asking", block |-> 0] \in R
          BY SizesAssumption DEF Batcher!Stages
        <4> QED BY <3>1, <3>4, <4>1, Zenon DEF Batcher!FetchReturns
      <3> QED BY <1>8, <3>2, <3>3, <3>4, Zenon DEF Batcher!FetchStep
    <2>3. UNCHANGED <<fetch_in_progress, at, seen, returned, expired>>
      BY <1>8, Zenon DEF Batcher!FetchStep, Batcher!StartFetch, Batcher!ClusterAnswers, Batcher!FetchReturns
    <2>4. batches' \in 0..MaxBatch
      BY <1>8, SizesAssumption DEF Batcher!FetchStep, Batcher!StartFetch, Batcher!ClusterAnswers, Batcher!FetchReturns,
                                   BatcherFlightInv, BatcherFlightShapes
    <2> QED BY <2>1, <2>2, <2>3, <2>4, BatcherFetchGoesOn, Zenon
  <1>9. ASSUME UNCHANGED <<fetches, fetch_in_progress, block, at, seen, returned, batches>>,
               expired \subseteq expired'
        PROVE  BatcherFlightInv'
    <2>1. BatcherFlightShapes'
      BY <1>9, Zenon DEF BatcherFlightInv, BatcherFlightShapes, BatcherShapes
    <2>2. \A b : ~Batcher!usable(b) => ~Batcher!usable(b)'
      BY <1>9, <2>1, BatcherSpentForEver, Zenon DEF BatcherFlightInv, BatcherFlightShapes, BatcherShapes
    <2>3. BatcherLooked'
      BY <1>9, <2>2, Zenon DEF BatcherFlightInv, BatcherLooked, Batcher!usable
    <2> QED BY <1>9, <2>1, <2>2, <2>3, BatcherFetchesAlone, Zenon
  <1>10. ASSUME NEW b \in 1..MaxBatch, Batcher!Expire(b)
         PROVE  BatcherFlightInv'
    BY <1>9, <1>10, Zenon DEF Batcher!Expire
  <1>11. CASE UNCHANGED Batcher!vars
    BY <1>9, <1>11 DEF Batcher!vars
  <1> QED BY <1>1, <1>2, <1>3, <1>4, <1>5, <1>6, <1>7, <1>8, <1>10, <1>11, Zenon
          DEF Batcher!Next, Batcher!CallerStep

\* However many callers race and however late the continuations of earlier
\* fetches run, new_id() has at most one batch under way, and only while the
\* installed block cannot serve.
THEOREM FetchInSingleFlight == Batcher!Spec => []Batcher!SingleFlight
  <1>1. Batcher!Init => BatcherFlightInv
    <2> SUFFICES ASSUME Batcher!Init
                 PROVE  BatcherFlightInv
      OBVIOUS
    <2>1. BatcherFlightShapes
      <3>1. fetches \in Seq([stage : Batcher!Stages, block : 0..MaxBatch])
        BY DEF Batcher!Init
      <3>2. BatcherShapes /\ DOMAIN seen = Callers /\ batches \in 0..MaxBatch
        BY SizesAssumption DEF Batcher!Init, BatcherShapes
      <3>3. fetch_in_progress \in BOOLEAN
        BY Zenon DEF Batcher!Init
      <3> QED BY <3>1, <3>2, <3>3 DEF BatcherFlightShapes
    <2>2. BatcherUnsettled = {} /\ Batcher!SingleFlight
      BY DEF Batcher!Init, BatcherUnsettled, Batcher!SingleFlight
    <2>3. BatcherLooked
      BY Zenon DEF Batcher!Init, BatcherLooked
    <2> QED BY <2>1, <2>2, <2>3 DEF BatcherFlightInv, BatcherFlag
  <1>2. BatcherFlightInv => Batcher!SingleFlight
    BY DEF BatcherFlightInv
  <1> QED BY <1>1, <1>2, BatcherFlightNext, PTL DEF Batcher!Spec

-----------------------------------------------------------------------------
(***************************************************************************)
(* The call ids.                                                           *)
(***************************************************************************)
INSTANCE FiniteSetTheorems

\* The limit, with the callers that were granted a slot and have not taken it.
AdmissionBound ==
    head - tail + Cardinality(Granted)
        =< Max - 1 + Cardinality(Callers) + Cardinality(urgent) + Cardinality(retrying)

\* The inductive invariant of the call ids.
IInv == TypeOK /\ SlotAccounting /\ AdmissionBound

\* The sets of ids and the set of granted callers are finite, with cardinalities
\* that are natural numbers; granted callers are at most all callers.
LEMMA Finiteness ==
    ASSUME TypeOK
    PROVE  /\ IsFiniteSet(live) /\ Cardinality(live) \in Nat
           /\ IsFiniteSet(urgent) /\ Cardinality(urgent) \in Nat
           /\ IsFiniteSet(retrying) /\ Cardinality(retrying) \in Nat
           /\ IsFiniteSet(Granted) /\ Cardinality(Granted) \in Nat
           /\ Cardinality(Callers) \in Nat
           /\ Cardinality(Granted) =< Cardinality(Callers)
  <1>1. IsFiniteSet(1 .. head)
    BY FS_Interval DEF TypeOK
  <1>2. IsFiniteSet(live)
    BY <1>1, FS_Subset, Zenon DEF TypeOK
  <1>3. IsFiniteSet(urgent) /\ IsFiniteSet(retrying)
    BY <1>2, FS_Subset, Zenon DEF TypeOK
  <1>4. IsFiniteSet(Granted) /\ Cardinality(Granted) =< Cardinality(Callers)
    BY CallersAssumption, FS_Subset DEF Granted
  <1> QED
    BY <1>2, <1>3, <1>4, CallersAssumption, FS_CardinalityType

\* Replacing one element of a finite set by a new one keeps its cardinality.
LEMMA ReplaceElement ==
    ASSUME NEW S, IsFiniteSet(S), NEW x \in S, NEW y, y \notin S
    PROVE  Cardinality((S \ {x}) \cup {y}) = Cardinality(S)
  <1> DEFINE T == S \ {x}
  <1>1. IsFiniteSet(T) /\ Cardinality(T) = Cardinality(S) - 1
    BY FS_RemoveElement
  <1>2. y \notin T
    BY Zenon
  <1>3. Cardinality(S) \in Nat
    BY FS_CardinalityType, Zenon
  <1> HIDE DEF T
  <1>4. Cardinality(T \cup {y}) = Cardinality(T) + 1
    BY <1>1, <1>2, FS_AddElement, Zenon
  <1>5. Cardinality(T \cup {y}) = Cardinality(S)
    BY <1>1, <1>3, <1>4
  <1> QED
    BY <1>5, Zenon DEF T

\* The id that force_next() is about to issue is owned by no invocation.
LEMMA FreshId ==
    ASSUME TypeOK
    PROVE  head + 1 \notin live /\ head + 1 \notin urgent /\ head + 1 \notin retrying
  BY DEF TypeOK

\* Granting a caller adds it to Granted, taking its slot removes it.
LEMMA GrantedStep ==
    ASSUME TypeOK, NEW c \in Callers
    PROVE  /\ pc' = [pc EXCEPT ![c] = "granted"]
                => Granted' = Granted \cup {c}
           /\ pc' = [pc EXCEPT ![c] = "out"] \/ pc' = [pc EXCEPT ![c] = "waiting"]
                                             \/ pc' = [pc EXCEPT ![c] = "overload"]
                => Granted' = Granted \ {c}
  BY Zenon DEF TypeOK, Granted

\* Initially no slot is taken.
LEMMA InitIInv == Init => IInv
  <1> SUFFICES ASSUME Init PROVE IInv
    BY Zenon
  <1>1. TypeOK
    BY DEF Init, TypeOK
  <1>2. Granted = {}
    BY Zenon DEF Init, Granted
  <1>3. Cardinality({}) = 0
    BY FS_EmptySet, Zenon
  <1>4. Cardinality(Callers) \in Nat
    BY CallersAssumption, FS_CardinalityType, Zenon
  <1> QED
    BY <1>1, <1>2, <1>3, <1>4, MaxAssumption DEF Init, IInv, SlotAccounting, AdmissionBound

\* Every step of next(), force_next(), execute() and complete() keeps the invariant.
LEMMA NextIInv == IInv /\ [Next]_vars => IInv'
  <1> SUFFICES ASSUME IInv, [Next]_vars PROVE IInv'
    BY Zenon
  <1> USE DEF IInv
  <1>f. /\ IsFiniteSet(live) /\ Cardinality(live) \in Nat
        /\ IsFiniteSet(urgent) /\ Cardinality(urgent) \in Nat
        /\ IsFiniteSet(retrying) /\ Cardinality(retrying) \in Nat
        /\ IsFiniteSet(Granted) /\ Cardinality(Granted) \in Nat
        /\ Cardinality(Callers) \in Nat
        /\ Cardinality(Granted) =< Cardinality(Callers)
    BY Finiteness, Zenon
  <1>m. head \in Nat /\ tail \in Nat /\ Max \in Nat
    BY MaxAssumption DEF TypeOK
  \* a caller sees space: it is counted at once
  <1>1. ASSUME NEW c \in Callers, NextSeesSpace(c) \/ IdleSeesSpace(c) PROVE IInv'
    <2>1. TypeOK'
      BY <1>1, Zenon DEF NextSeesSpace, IdleSeesSpace, TypeOK
    <2>2. SlotAccounting'
      BY <1>1, Zenon DEF NextSeesSpace, IdleSeesSpace, SlotAccounting
    <2>3. Cardinality(Granted)' \in Nat /\ Cardinality(Granted)' =< Cardinality(Callers)
      <3>1. Granted' \in SUBSET Callers
        BY Zenon DEF Granted
      <3> QED BY <3>1, CallersAssumption, FS_Subset, FS_CardinalityType
    <2>4. head - tail =< Max - 1
      BY <1>1, <1>m DEF NextSeesSpace, IdleSeesSpace, has_space
    <2>5. AdmissionBound'
      BY <1>1, <1>f, <1>m, <2>3, <2>4 DEF NextSeesSpace, IdleSeesSpace, AdmissionBound
    <2> QED BY <2>1, <2>2, <2>5
  \* a caller finds no space, waits or gives up: nothing is counted
  <1>2. ASSUME NEW c \in Callers, NextOverload(c) \/ NextWaits(c) \/ IdleTimesOut(c) PROVE IInv'
    <2>1. TypeOK'
      BY <1>2, Zenon DEF NextOverload, NextWaits, IdleTimesOut, TypeOK
    <2>2. SlotAccounting'
      BY <1>2 DEF NextOverload, NextWaits, IdleTimesOut, SlotAccounting
    <2>3. Granted' = Granted
      BY <1>2, GrantedStep, Zenon DEF NextOverload, NextWaits, IdleTimesOut, Granted, Outside, TypeOK
    <2>4. AdmissionBound'
      BY <1>2, <2>3 DEF NextOverload, NextWaits, IdleTimesOut, AdmissionBound
    <2> QED BY <2>1, <2>2, <2>4
  \* a granted caller takes its slot: it was counted already
  <1>3. ASSUME NEW c \in Callers, NextTakesSlot(c) PROVE IInv'
    <2>1. TypeOK'
      BY <1>3 DEF NextTakesSlot, TypeOK
    <2>2. Cardinality(live') = Cardinality(live) + 1
      BY <1>3, <1>f, FreshId, FS_AddElement, Zenon DEF NextTakesSlot
    <2>3. SlotAccounting'
      BY <1>3, <1>f, <1>m, <2>2 DEF NextTakesSlot, SlotAccounting
    <2>4. c \in Granted /\ Granted' = Granted \ {c}
      BY <1>3, GrantedStep, Zenon DEF NextTakesSlot, Granted
    <2>5. Cardinality(Granted') = Cardinality(Granted) - 1
      BY <1>f, <2>4, FS_RemoveElement, Zenon
    <2>6. AdmissionBound'
      BY <1>3, <1>f, <1>m, <2>5 DEF NextTakesSlot, AdmissionBound
    <2> QED BY <2>1, <2>3, <2>6, Zenon
  \* an urgent invocation pays for itself in urgent
  <1>4. ASSUME InvokeUrgent PROVE IInv'
    <2>1. TypeOK'
      BY <1>4 DEF InvokeUrgent, TypeOK
    <2>2. Cardinality(live') = Cardinality(live) + 1 /\ Cardinality(urgent') = Cardinality(urgent) + 1
      BY <1>4, <1>f, FreshId, FS_AddElement, Zenon DEF InvokeUrgent
    <2>3. SlotAccounting'
      BY <1>4, <1>f, <1>m, <2>2 DEF InvokeUrgent, SlotAccounting
    <2>4. Granted' = Granted
      BY <1>4, Zenon DEF InvokeUrgent, Granted
    <2>5. AdmissionBound'
      BY <1>4, <1>f, <1>m, <2>2, <2>4 DEF InvokeUrgent, AdmissionBound
    <2> QED BY <2>1, <2>3, <2>5, Zenon
  \* a retry pays for its second slot in retrying
  <1>5. ASSUME NEW id \in live, RetryTakesSlot(id) PROVE IInv'
    <2>1. TypeOK'
      BY <1>5 DEF RetryTakesSlot, TypeOK
    <2>2. Cardinality(live') = Cardinality(live)
      BY <1>5, <1>f, FreshId, ReplaceElement, Zenon DEF RetryTakesSlot
    <2>3. Cardinality(urgent') = Cardinality(urgent)
      <3>1. CASE id \in urgent
        BY <1>5, <1>f, <3>1, FreshId, ReplaceElement, Zenon DEF RetryTakesSlot
      <3>2. CASE id \notin urgent
        BY <1>5, <3>2 DEF RetryTakesSlot
      <3> QED BY <3>1, <3>2
    <2>4. Cardinality(retrying') = Cardinality(retrying) + 1
      BY <1>5, <1>f, FreshId, FS_AddElement, Zenon DEF RetryTakesSlot
    <2>5. SlotAccounting'
      BY <1>5, <1>f, <1>m, <2>2, <2>4 DEF RetryTakesSlot, SlotAccounting
    <2>6. Granted' = Granted
      BY <1>5 DEF RetryTakesSlot, Granted
    <2>7. AdmissionBound'
      BY <1>5, <1>f, <1>m, <2>3, <2>4, <2>6 DEF RetryTakesSlot, AdmissionBound
    <2> QED BY <2>1, <2>5, <2>7
  <1>6. ASSUME NEW id \in live, RetryReleasesSlot(id) PROVE IInv'
    <2>1. Cardinality(retrying') = Cardinality(retrying) - 1 /\ id \in retrying
      BY <1>6, <1>f, FS_RemoveElement, Zenon DEF RetryReleasesSlot
    <2>2. Cardinality(retrying') \in Nat
      BY <1>6, <1>f, FS_RemoveElement, FS_CardinalityType, Zenon DEF RetryReleasesSlot
    <2>3. SlotAccounting'
      BY <1>6, <1>f, <1>m, <2>1, <2>2 DEF RetryReleasesSlot, SlotAccounting
    <2>4. TypeOK'
      BY <1>6, <1>f, <1>m, <2>1, <2>2, <2>3 DEF RetryReleasesSlot, TypeOK, SlotAccounting
    <2>5. Granted' = Granted
      BY <1>6 DEF RetryReleasesSlot, Granted
    <2>6. AdmissionBound'
      BY <1>6, <1>f, <1>m, <2>1, <2>5 DEF RetryReleasesSlot, AdmissionBound
    <2> QED BY <2>3, <2>4, <2>6
  <1>7. ASSUME NEW id \in live, Complete(id) PROVE IInv'
    <2>1. Cardinality(live') = Cardinality(live) - 1 /\ Cardinality(live') \in Nat
      BY <1>7, <1>f, FS_RemoveElement, FS_CardinalityType, Zenon DEF Complete
    <2>2. Cardinality(urgent') >= Cardinality(urgent) - 1 /\ Cardinality(urgent') \in Nat
      <3>1. urgent' = urgent \ {id}
        BY <1>7, Zenon DEF Complete
      <3>2. Cardinality(urgent \ {id}) = (IF id \in urgent THEN Cardinality(urgent) - 1
                                                          ELSE Cardinality(urgent))
        BY <1>f, FS_RemoveElement, Zenon
      <3>3. Cardinality(urgent \ {id}) \in Nat
        BY <1>f, FS_RemoveElement, FS_CardinalityType, Zenon
      <3> QED BY <1>f, <3>1, <3>2, <3>3
    <2>3. SlotAccounting'
      BY <1>7, <1>f, <1>m, <2>1 DEF Complete, SlotAccounting
    <2>4. TypeOK'
      BY <1>7, <1>f, <1>m, <2>1, <2>3 DEF Complete, TypeOK, SlotAccounting
    <2>5. Granted' = Granted
      BY <1>7 DEF Complete, Granted
    <2>6. AdmissionBound'
      BY <1>7, <1>f, <1>m, <2>2, <2>5 DEF Complete, AdmissionBound
    <2> QED BY <2>3, <2>4, <2>6, Zenon
  <1>8. ASSUME UNCHANGED vars PROVE IInv'
    BY <1>8 DEF vars, TypeOK, SlotAccounting, AdmissionBound, Granted
  <1> QED
    BY <1>1, <1>2, <1>3, <1>4, <1>5, <1>6, <1>7, <1>8, Zenon DEF Next, NextCall

\* Types, and the assertion in complete(): tail never passes head.
THEOREM TypeCorrect == Spec => []TypeOK
  <1>1. IInv => TypeOK
    BY DEF IInv
  <1> QED
    BY InitIInv, NextIInv, <1>1, PTL DEF Spec

\* Slots taken and not given back are exactly those of the live invocations and
\* of the retries under way, for any number of callers and any limit.
THEOREM SlotsAccounted == Spec => []SlotAccounting
  <1>1. IInv => SlotAccounting
    BY DEF IInv
  <1> QED
    BY InitIInv, NextIInv, <1>1, PTL DEF Spec

\* n callers racing in next() exceed the limit by at most n - 1, urgent
\* invocations and retries under way aside.
THEOREM OvershootIsBounded == Spec => []OvershootBounded
  <1>1. IInv => OvershootBounded
    <2> SUFFICES ASSUME IInv PROVE OvershootBounded
      OBVIOUS
    <2> QED
      BY Finiteness, MaxAssumption DEF IInv, TypeOK, AdmissionBound, OvershootBounded
  <1> QED
    BY InitIInv, NextIInv, <1>1, PTL DEF Spec

-----------------------------------------------------------------------------
(***************************************************************************)
(* The writes of a connection.                                             *)
(***************************************************************************)
CONSTANTS Writers, MaxWrites

VARIABLES
    pushed, write_queue, posting, strand, write_in_progress,
    drain_batch, written, alive, open, wire, freed

\* The write side of a connection, for any writers.
Writer == INSTANCE SocketWriter

\* The count of an instance of FiniteSets is that of the library's theorems.
LEMMA WriterCounting ==
    ASSUME NEW S
    PROVE  Writer!Cardinality(S) = Cardinality(S)
  BY Zenon DEF Writer!Cardinality, Cardinality

\* The entries that writer w has pushed.
WriterMine(w) == {i \in DOMAIN pushed : pushed[i][1] = w}

\* The tasks of the socket's strand.
WriterTasks == {"flush", "close"}

\* The types of the state, and what each flag of the write side stands for.
WriterTypes ==
    /\ MaxWrites \in Nat
    /\ pushed \in Seq(Writer!Entries) /\ write_queue \in Seq(Writer!Entries)
    /\ drain_batch \in Seq(Writer!Entries) /\ wire \in Seq(Writer!Entries)
    /\ posting \subseteq Writers /\ strand \in Seq(WriterTasks)
    /\ write_in_progress = (drain_batch # <<>>)
    /\ written \in BOOLEAN /\ (written => write_in_progress)
    /\ alive \in BOOLEAN /\ freed \in [Writer!Entries -> 0..1]

\* Only a connection that is not alive is about to be closed.
WriterClosing == \A i \in DOMAIN strand : strand[i] = "close" => ~alive

\* A writer's entries are numbered, so the one it pushes next is a new one.
WriterNumbered == \A w \in Writers : \A i \in WriterMine(w) : pushed[i][2] =< Cardinality(WriterMine(w))

\* What is queued or in the batch was pushed and is not deleted, and nothing is in
\* both; an entry that was not pushed is not deleted.
WriterWhole ==
    /\ \A e \in Writer!Range(write_queue) \cup Writer!Range(drain_batch) : e \in Writer!Range(pushed) /\ freed[e] = 0
    /\ Writer!Range(write_queue) \cap Writer!Range(drain_batch) = {}
    /\ \A e \in Writer!Entries : freed[e] # 0 => e \in Writer!Range(pushed)

\* What is written, in the batch and queued is what was pushed.
WriterOrdered == alive => wire \o (IF written THEN <<>> ELSE drain_batch) \o write_queue = pushed

\* The inductive invariant.
WriterIInv == WriterTypes /\ WriterClosing /\ WriterNumbered /\ WriterWhole /\ WriterOrdered

-----------------------------------------------------------------------------
\* Nothing is in the empty sequence.
LEMMA WriterRangeEmpty == Writer!Range(<<>>) = {}
  BY DEF Writer!Range

\* What an appended sequence holds.
LEMMA WriterRangeAppend ==
    ASSUME NEW S, NEW s \in Seq(S), NEW e \in S
    PROVE  Writer!Range(Append(s, e)) = Writer!Range(s) \cup {e}
  <1>1. Append(s, e) \in Seq(S) /\ Len(Append(s, e)) = Len(s) + 1 /\ Append(s, e)[Len(s) + 1] = e
        /\ \A i \in 1..Len(s) : Append(s, e)[i] = s[i]
    OBVIOUS
  <1>2. DOMAIN Append(s, e) = 1..(Len(s) + 1) /\ DOMAIN s = 1..Len(s) /\ Len(s) \in Nat
    BY <1>1
  <1>3. Writer!Range(Append(s, e)) \subseteq Writer!Range(s) \cup {e}
    BY <1>1, <1>2 DEF Writer!Range
  <1>4. Writer!Range(s) \cup {e} \subseteq Writer!Range(Append(s, e))
    BY <1>1, <1>2 DEF Writer!Range
  <1> QED
    BY <1>3, <1>4

\* What a concatenation holds.
LEMMA WriterRangeConcat ==
    ASSUME NEW S, NEW s \in Seq(S), NEW t \in Seq(S)
    PROVE  Writer!Range(s \o t) = Writer!Range(s) \cup Writer!Range(t)
  <1>1. /\ DOMAIN s = 1..Len(s) /\ DOMAIN t = 1..Len(t) /\ Len(s) \in Nat /\ Len(t) \in Nat
        /\ DOMAIN (s \o t) = 1..(Len(s) + Len(t))
        /\ \A i \in 1..Len(s) : (s \o t)[i] = s[i]
        /\ \A i \in 1..Len(t) : (s \o t)[Len(s) + i] = t[i]
    OBVIOUS
  <1>2. \A i \in DOMAIN (s \o t) : i \in DOMAIN s \/ \E j \in DOMAIN t : i = Len(s) + j
    <2> SUFFICES ASSUME NEW i \in 1..(Len(s) + Len(t)), i \notin 1..Len(s)
                 PROVE  \E j \in 1..Len(t) : i = Len(s) + j
      BY <1>1, Zenon
    <2>1. i - Len(s) \in 1..Len(t) /\ i = Len(s) + (i - Len(s))
      BY <1>1
    <2> QED
      BY <2>1, Zenon
  <1>3. ASSUME NEW i \in DOMAIN (s \o t)
        PROVE  (s \o t)[i] \in Writer!Range(s) \cup Writer!Range(t)
    <2>1. CASE i \in DOMAIN s
      BY <1>1, <2>1 DEF Writer!Range
    <2>2. CASE \E j \in DOMAIN t : i = Len(s) + j
      BY <1>1, <2>2 DEF Writer!Range
    <2> QED
      BY <1>2, <2>1, <2>2
  <1>4. Writer!Range(s) \cup Writer!Range(t) \subseteq Writer!Range(s \o t)
    <2>1. \A i \in DOMAIN s : i \in DOMAIN (s \o t)
      BY <1>1
    <2>2. \A i \in DOMAIN t : Len(s) + i \in DOMAIN (s \o t)
      BY <1>1
    <2>3. Writer!Range(s) \subseteq Writer!Range(s \o t)
      BY <1>1, <2>1 DEF Writer!Range
    <2>4. Writer!Range(t) \subseteq Writer!Range(s \o t)
      BY <1>1, <2>2 DEF Writer!Range
    <2> QED
      BY <2>3, <2>4
  <1>5. Writer!Range(s \o t) \subseteq Writer!Range(s) \cup Writer!Range(t)
    BY <1>3 DEF Writer!Range
  <1> QED
    BY <1>4, <1>5

\* Concatenation is associative, and the empty sequence is its unit.
LEMMA WriterJoining ==
    ASSUME NEW S, NEW s \in Seq(S), NEW t \in Seq(S), NEW e \in S
    PROVE  /\ s \o <<>> = s /\ s \o t \in Seq(S)
           /\ s \o Append(t, e) = Append(s \o t, e)
  <1>1. s \o <<>> = s
    OBVIOUS
  <1>2. s \o t \in Seq(S)
    OBVIOUS
  <1>3. s \o Append(t, e) = Append(s \o t, e)
    OBVIOUS
  <1> QED
    BY <1>1, <1>2, <1>3

\* A task is posted behind the others, and the next one is taken from the front.
LEMMA WriterPosting ==
    ASSUME WriterTypes, NEW x \in WriterTasks, strand' = Append(strand, x)
    PROVE  /\ strand' \in Seq(WriterTasks)
           /\ \A i \in DOMAIN strand' : strand'[i] = x \/ \E j \in DOMAIN strand : strand'[i] = strand[j]
  BY DEF WriterTypes

\* The first task is taken from the strand.
LEMMA WriterTaking ==
    ASSUME WriterTypes, strand # <<>>, strand' = Tail(strand)
    PROVE  /\ strand' \in Seq(WriterTasks)
           /\ \A i \in DOMAIN strand' : \E j \in DOMAIN strand : strand'[i] = strand[j]
  <1>1. /\ strand \in Seq(WriterTasks) /\ strand' \in Seq(WriterTasks)
        /\ DOMAIN strand' = 1..(Len(strand) - 1) /\ DOMAIN strand = 1..Len(strand)
        /\ \A i \in 1..(Len(strand) - 1) : strand'[i] = strand[i + 1]
    BY DEF WriterTypes
  <1>2. \A i \in 1..(Len(strand) - 1) : i + 1 \in 1..Len(strand)
    BY <1>1
  <1> QED
    BY <1>1, <1>2

-----------------------------------------------------------------------------
\* The invariant holds before the first write.
LEMMA WriterInitOk ==
    ASSUME MaxWrites \in Nat, Writer!Init
    PROVE  WriterIInv
  <1>1. WriterTypes
    <2>1. <<>> \in Seq(Writer!Entries) /\ <<>> \in Seq(WriterTasks)
      OBVIOUS
    <2>2. freed \in [Writer!Entries -> 0..1]
      BY DEF Writer!Init
    <2>3. /\ write_in_progress = (drain_batch # <<>>) /\ written \in BOOLEAN
          /\ (written => write_in_progress) /\ alive \in BOOLEAN
      BY Zenon DEF Writer!Init
    <2>4. /\ pushed \in Seq(Writer!Entries) /\ write_queue \in Seq(Writer!Entries)
          /\ drain_batch \in Seq(Writer!Entries) /\ wire \in Seq(Writer!Entries)
          /\ posting \subseteq Writers /\ strand \in Seq(WriterTasks)
      BY <2>1, Zenon DEF Writer!Init
    <2> QED
      BY <2>2, <2>3, <2>4, Zenon DEF WriterTypes
  <1>2. WriterClosing /\ WriterNumbered
    BY DEF Writer!Init, WriterClosing, WriterNumbered, WriterMine
  <1>3. WriterWhole
    BY WriterRangeEmpty, Zenon DEF Writer!Init, WriterWhole
  <1>4. WriterOrdered
    BY DEF Writer!Init, WriterOrdered
  <1> QED
    BY <1>1, <1>2, <1>3, <1>4 DEF WriterIInv

\* The entry that a writer pushes next is one it has not pushed, and pushing it
\* counts it.
LEMMA WriterNewEntry ==
    ASSUME WriterTypes, WriterNumbered, NEW w \in Writers, NEW n, n = Cardinality(WriterMine(w)), n < MaxWrites,
           pushed' = Append(pushed, <<w, n + 1>>)
    PROVE  n \in Nat /\ <<w, n + 1>> \in Writer!Entries \ Writer!Range(pushed) /\ WriterNumbered'
  <1> DEFINE e == <<w, n + 1>>
  <1>1. /\ pushed \in Seq(Writer!Entries) /\ DOMAIN pushed = 1..Len(pushed) /\ Len(pushed) \in Nat
        /\ MaxWrites \in Nat
    BY DEF WriterTypes
  <1>2. \A v : IsFiniteSet(WriterMine(v)) /\ Cardinality(WriterMine(v)) \in Nat
    <2>1. IsFiniteSet(DOMAIN pushed)
      BY <1>1, FS_Interval
    <2> QED
      BY <2>1, FS_Subset, FS_CardinalityType, Zenon DEF WriterMine
  <1>3. n \in Nat /\ e \in Writer!Entries
    BY <1>1, <1>2 DEF Writer!Entries
  <1>4. e \notin Writer!Range(pushed)
    <2> SUFFICES ASSUME NEW i \in DOMAIN pushed, pushed[i] = e
                 PROVE  FALSE
      BY DEF Writer!Range
    <2>1. i \in WriterMine(w) /\ pushed[i][2] = n + 1
      BY DEF WriterMine
    <2>2. n + 1 =< n
      BY <2>1, Zenon DEF WriterNumbered
    <2> QED
      BY <1>3, <2>2
  <1>5. /\ pushed' \in Seq(Writer!Entries) /\ DOMAIN pushed' = 1..(Len(pushed) + 1)
        /\ pushed'[Len(pushed) + 1] = e /\ \A i \in DOMAIN pushed : pushed'[i] = pushed[i]
    BY <1>1, <1>3
  <1>6. WriterMine(w)' = WriterMine(w) \cup {Len(pushed) + 1} /\ Len(pushed) + 1 \notin WriterMine(w)
    BY <1>1, <1>5 DEF WriterMine
  <1>7. Cardinality(WriterMine(w)') = n + 1
    BY <1>2, <1>6, FS_AddElement, Zenon
  <1>8. \A v : v # w => WriterMine(v)' = WriterMine(v)
    BY <1>1, <1>5 DEF WriterMine
  <1>9. WriterNumbered'
    <2> SUFFICES ASSUME NEW v \in Writers, NEW i \in WriterMine(v)'
                 PROVE  pushed'[i][2] =< Cardinality(WriterMine(v)')
      BY Zenon DEF WriterNumbered
    <2>1. CASE i = Len(pushed) + 1
      <3>1. v = w
        BY <1>5, <2>1 DEF WriterMine
      <3> QED
        BY <1>3, <1>5, <1>7, <2>1, <3>1
    <2>2. CASE i # Len(pushed) + 1
      <3>1. i \in WriterMine(v) /\ i \in DOMAIN pushed /\ pushed'[i] = pushed[i]
        BY <1>1, <1>5, <2>2 DEF WriterMine
      <3>2. pushed[i][2] =< Cardinality(WriterMine(v)) /\ pushed[i][2] \in Nat
        BY <1>1, <3>1 DEF WriterNumbered, Writer!Entries
      <3>3. CASE v = w
        BY <1>3, <1>7, <3>1, <3>2, <3>3
      <3>4. CASE v # w
        BY <1>8, <3>1, <3>2, <3>4, Zenon
      <3> QED
        BY <3>3, <3>4, Zenon
    <2> QED
      BY <2>1, <2>2, Zenon
  <1> QED
    BY <1>3, <1>4, <1>9

\* enqueue_write: the entry is new, so it was not deleted, and it is the last
\* one pushed.
LEMMA WriterPushOk ==
    ASSUME WriterIInv, NEW w \in Writers, Writer!Push(w)
    PROVE  WriterIInv'
  <1>1. WriterTypes /\ WriterClosing /\ WriterNumbered /\ WriterWhole /\ WriterOrdered
    BY DEF WriterIInv
  <1>2. PICK n : /\ n = Cardinality(WriterMine(w)) /\ n < MaxWrites
                 /\ pushed' = Append(pushed, <<w, n + 1>>)
                 /\ write_queue' = Append(write_queue, <<w, n + 1>>)
    BY WriterCounting, Zenon DEF Writer!Push, WriterMine
  <1>3. n \in Nat /\ <<w, n + 1>> \in Writer!Entries \ Writer!Range(pushed) /\ WriterNumbered'
    BY <1>1, <1>2, WriterNewEntry, Zenon
  <1>4. PICK e \in Writer!Entries \ Writer!Range(pushed) :
           pushed' = Append(pushed, e) /\ write_queue' = Append(write_queue, e)
    BY <1>2, <1>3, Zenon
  <1>5. /\ strand' = strand /\ write_in_progress' = write_in_progress /\ drain_batch' = drain_batch
        /\ written' = written /\ alive' = alive /\ wire' = wire /\ freed' = freed
        /\ posting' = posting \cup {w}
    BY Zenon DEF Writer!Push
  <1>6. WriterTypes'
    BY <1>1, <1>4, <1>5 DEF WriterTypes
  <1>7. WriterClosing'
    BY <1>1, <1>5, Zenon DEF WriterClosing
  <1>8. /\ Writer!Range(pushed') = Writer!Range(pushed) \cup {e}
        /\ Writer!Range(write_queue') = Writer!Range(write_queue) \cup {e}
    BY <1>1, <1>4, WriterRangeAppend DEF WriterTypes
  <1>9. WriterWhole'
    BY <1>1, <1>4, <1>5, <1>8 DEF WriterWhole, WriterTypes
  <1>10. WriterOrdered'
    <2> SUFFICES ASSUME alive
                 PROVE  wire \o (IF written THEN <<>> ELSE drain_batch) \o write_queue' = pushed'
      BY <1>5 DEF WriterOrdered
    <2> DEFINE b == IF written THEN <<>> ELSE drain_batch
    <2>1. b \in Seq(Writer!Entries) /\ wire \in Seq(Writer!Entries) /\ write_queue \in Seq(Writer!Entries)
      BY <1>1 DEF WriterTypes
    <2>2. wire \o b \o write_queue = pushed
      BY <1>1 DEF WriterOrdered
    <2> HIDE DEF b
    <2>3. wire \o b \in Seq(Writer!Entries)
      BY <2>1
    <2>4. wire \o b \o Append(write_queue, e) = Append(wire \o b \o write_queue, e)
      BY <2>1, <2>3, <1>4, WriterJoining
    <2> QED
      BY <1>4, <2>2, <2>4, Zenon DEF b
  <1> QED
    BY <1>3, <1>6, <1>7, <1>9, <1>10, Zenon DEF WriterIInv

\* The steps that only post to the strand.
LEMMA WriterPostOk ==
    ASSUME WriterIInv, Writer!CloseConnection \/ \E w \in Writers : Writer!PostFlush(w)
    PROVE  WriterIInv'
  <1>1. WriterTypes /\ WriterClosing /\ WriterNumbered /\ WriterWhole /\ WriterOrdered
    BY DEF WriterIInv
  <1>2. /\ pushed' = pushed /\ write_queue' = write_queue /\ drain_batch' = drain_batch
        /\ write_in_progress' = write_in_progress /\ written' = written /\ wire' = wire
        /\ freed' = freed /\ posting' \subseteq posting
    BY DEF Writer!CloseConnection, Writer!PostFlush
  <1>3. \/ alive' = alive /\ strand' = Append(strand, "flush")
        \/ alive' = FALSE /\ strand' = Append(strand, "close")
    BY Zenon DEF Writer!CloseConnection, Writer!PostFlush
  <1>4. WriterTypes'
    <2>1. strand' \in Seq(WriterTasks)
      BY <1>1, <1>3, WriterPosting DEF WriterTasks
    <2>2. alive' \in BOOLEAN
      BY <1>1, <1>3, Zenon DEF WriterTypes
    <2> QED
      BY <1>1, <1>2, <2>1, <2>2 DEF WriterTypes
  <1>5. WriterClosing'
    <2>1. "flush" \in WriterTasks /\ "close" \in WriterTasks /\ "flush" # "close"
      BY DEF WriterTasks
    <2> QED
      BY <1>1, <1>3, <2>1, WriterPosting, Zenon DEF WriterClosing
  <1>6. WriterNumbered'
    BY <1>1, <1>2, Zenon DEF WriterNumbered, WriterMine
  <1>7. WriterWhole'
    BY <1>1, <1>2 DEF WriterWhole
  <1>8. WriterOrdered'
    BY <1>1, <1>2, <1>3, Zenon DEF WriterOrdered
  <1> QED
    BY <1>4, <1>5, <1>6, <1>7, <1>8, Zenon DEF WriterIInv

\* Everything queued becomes the batch, when there is none or it is written.
LEMMA WriterDraining ==
    ASSUME WriterTypes, WriterWhole, WriterOrdered, written \/ drain_batch = <<>>, drain_batch' = write_queue,
           write_in_progress' = (write_queue # <<>>), write_queue' = <<>>, written' = FALSE,
           pushed' = pushed, wire' = wire, alive' = alive,
           freed' = [e \in Writer!Entries |-> IF e \in Writer!Range(drain_batch) THEN freed[e] + 1 ELSE freed[e]]
    PROVE  /\ write_in_progress' = (drain_batch' # <<>>) /\ freed' \in [Writer!Entries -> 0..1]
           /\ WriterWhole' /\ WriterOrdered'
  <1>1. /\ \A e \in Writer!Entries : freed[e] \in 0..1
        /\ \A e \in Writer!Range(drain_batch) : e \in Writer!Range(pushed) /\ freed[e] = 0
        /\ \A e \in Writer!Range(write_queue) : e \in Writer!Range(pushed) /\ freed[e] = 0
        /\ \A e \in Writer!Range(write_queue) : e \notin Writer!Range(drain_batch)
        /\ \A e \in Writer!Entries : freed[e] # 0 => e \in Writer!Range(pushed)
        /\ Writer!Range(pushed) \subseteq Writer!Entries
    <2>1. Writer!Range(pushed) \subseteq Writer!Entries
      BY DEF WriterTypes, Writer!Range
    <2>2. \A e \in Writer!Entries : freed[e] \in 0..1
      BY DEF WriterTypes
    <2> QED
      BY <2>1, <2>2, Zenon DEF WriterWhole
  <1>2. freed' \in [Writer!Entries -> 0..1]
    BY <1>1
  <1>3. \A e \in Writer!Range(write_queue) : freed'[e] = 0
    BY <1>1
  <1>4. \A e \in Writer!Entries : freed'[e] # 0 => e \in Writer!Range(pushed)
    <2> SUFFICES ASSUME NEW e \in Writer!Entries, freed'[e] # 0, e \notin Writer!Range(drain_batch)
                 PROVE  e \in Writer!Range(pushed)
      BY <1>1, Zenon
    <2>1. freed'[e] = freed[e]
      OBVIOUS
    <2> QED
      BY <1>1, <2>1, Zenon
  <1>5. WriterWhole'
    BY <1>1, <1>3, <1>4, WriterRangeEmpty, Zenon DEF WriterWhole
  <1>6. WriterOrdered'
    <2> SUFFICES ASSUME alive
                 PROVE  wire \o write_queue \o <<>> = pushed
      BY DEF WriterOrdered
    <2>1. wire \o <<>> \o write_queue = pushed
      BY Zenon DEF WriterOrdered
    <2>2. wire \o <<>> = wire /\ wire \o write_queue \in Seq(Writer!Entries)
      BY DEF WriterTypes
    <2>3. wire \o write_queue \o <<>> = wire \o write_queue
      BY <2>2
    <2> QED
      BY <2>1, <2>2, <2>3, Zenon
  <1> QED
    BY <1>2, <1>5, <1>6, Zenon

\* flush_write_queue: the queue becomes the batch, or stays while a write is
\* in progress.
LEMMA WriterRunFlushOk ==
    ASSUME WriterIInv, Writer!RunFlush
    PROVE  WriterIInv'
  <1>1. WriterTypes /\ WriterClosing /\ WriterNumbered /\ WriterWhole /\ WriterOrdered
    BY DEF WriterIInv
  <1>2. /\ pushed' = pushed /\ posting' = posting /\ written' = written /\ alive' = alive
        /\ wire' = wire /\ freed' = freed /\ strand # <<>> /\ strand' = Tail(strand)
    BY DEF Writer!RunFlush
  <1>3. /\ strand' \in Seq(WriterTasks)
        /\ \A i \in DOMAIN strand' : \E j \in DOMAIN strand : strand'[i] = strand[j]
    BY <1>1, <1>2, WriterTaking
  <1>4. WriterClosing'
    BY <1>1, <1>2, <1>3, Zenon DEF WriterClosing
  <1>5. WriterNumbered'
    BY <1>1, <1>2 DEF WriterNumbered, WriterMine
  <1>6. CASE write_in_progress
    <2>1. write_queue' = write_queue /\ write_in_progress' = write_in_progress /\ drain_batch' = drain_batch
      BY <1>6, Zenon DEF Writer!RunFlush, Writer!flush_write_queue
    <2>2. WriterTypes'
      BY <1>1, <1>2, <1>3, <2>1, Zenon DEF WriterTypes
    <2>3. WriterWhole'
      BY <1>1, <1>2, <2>1 DEF WriterWhole
    <2>4. WriterOrdered'
      BY <1>1, <1>2, <2>1 DEF WriterOrdered
    <2> QED
      BY <1>4, <1>5, <2>2, <2>3, <2>4, Zenon DEF WriterIInv
  <1>7. CASE ~write_in_progress
    <2>1. drain_batch' = write_queue /\ write_in_progress' = (write_queue # <<>>) /\ write_queue' = <<>>
      BY <1>7 DEF Writer!RunFlush, Writer!flush_write_queue
    <2>2. drain_batch = <<>> /\ written' = FALSE
      BY <1>1, <1>2, <1>7, Zenon DEF WriterTypes
    <2>3. freed' = [e \in Writer!Entries |-> IF e \in Writer!Range(drain_batch) THEN freed[e] + 1 ELSE freed[e]]
      BY <1>1, <1>2, <2>2, WriterRangeEmpty DEF WriterTypes
    <2>4. /\ write_in_progress' = (drain_batch' # <<>>) /\ freed' \in [Writer!Entries -> 0..1]
          /\ WriterWhole' /\ WriterOrdered'
      BY <1>1, <1>2, <2>1, <2>2, <2>3, WriterDraining, Zenon
    <2>5. WriterTypes'
      <3>1. <<>> \in Seq(Writer!Entries)
        OBVIOUS
      <3> QED
        BY <1>1, <1>2, <1>3, <2>1, <2>2, <2>4, <3>1, Zenon DEF WriterTypes
    <2> QED
      BY <1>4, <1>5, <2>4, <2>5 DEF WriterIInv
  <1> QED
    BY <1>6, <1>7

\* The completion handler deletes the batch and starts the next write.
LEMMA WriterWriteDoneOk ==
    ASSUME WriterIInv, Writer!WriteDone
    PROVE  WriterIInv'
  <1>1. WriterTypes /\ WriterClosing /\ WriterNumbered /\ WriterWhole /\ WriterOrdered
    BY DEF WriterIInv
  <1>2. /\ pushed' = pushed /\ posting' = posting /\ alive' = alive /\ wire' = wire
        /\ strand' = strand /\ written /\ written' = FALSE
        /\ drain_batch' = write_queue /\ write_in_progress' = (write_queue # <<>>)
        /\ write_queue' = <<>>
        /\ freed' = [e \in Writer!Entries |-> IF e \in Writer!Range(drain_batch) THEN freed[e] + 1 ELSE freed[e]]
    BY DEF Writer!WriteDone, Writer!Free
  <1>3. WriterClosing'
    BY <1>1, <1>2, Zenon DEF WriterClosing
  <1>4. WriterNumbered'
    BY <1>1, <1>2 DEF WriterNumbered, WriterMine
  <1>5. /\ write_in_progress' = (drain_batch' # <<>>) /\ freed' \in [Writer!Entries -> 0..1]
        /\ WriterWhole' /\ WriterOrdered'
    BY <1>1, <1>2, WriterDraining, Zenon
  <1>6. WriterTypes'
    <2>1. <<>> \in Seq(Writer!Entries)
      OBVIOUS
    <2> QED
      BY <1>1, <1>2, <1>5, <2>1, Zenon DEF WriterTypes
  <1> QED
    BY <1>3, <1>4, <1>5, <1>6 DEF WriterIInv

\* The entries of the queue, or of the queue and the batch, are deleted: none of
\* them is used again.
LEMMA WriterDropping ==
    ASSUME WriterTypes, WriterWhole, NEW s \in {write_queue, drain_batch \o write_queue},
           freed' = [e \in Writer!Entries |-> IF e \in Writer!Range(s) THEN freed[e] + 1 ELSE freed[e]],
           pushed' = pushed, write_queue' = <<>>,
           IF s = write_queue THEN drain_batch' \in {<<>>, drain_batch} ELSE drain_batch' = <<>>
    PROVE  freed' \in [Writer!Entries -> 0..1] /\ WriterWhole'
  <1>1. /\ \A e \in Writer!Entries : freed[e] \in 0..1
        /\ \A e \in Writer!Range(drain_batch) : e \in Writer!Range(pushed) /\ freed[e] = 0
        /\ \A e \in Writer!Range(write_queue) : e \in Writer!Range(pushed) /\ freed[e] = 0
        /\ \A e \in Writer!Range(write_queue) : e \notin Writer!Range(drain_batch)
        /\ \A e \in Writer!Entries : freed[e] # 0 => e \in Writer!Range(pushed)
        /\ Writer!Range(pushed) \subseteq Writer!Entries
    <2>1. Writer!Range(pushed) \subseteq Writer!Entries
      BY DEF WriterTypes, Writer!Range
    <2>2. \A e \in Writer!Entries : freed[e] \in 0..1
      BY DEF WriterTypes
    <2> QED
      BY <2>1, <2>2, Zenon DEF WriterWhole
  <1>2. Writer!Range(s) \subseteq Writer!Range(write_queue) \cup Writer!Range(drain_batch)
    <2>1. Writer!Range(drain_batch \o write_queue) = Writer!Range(drain_batch) \cup Writer!Range(write_queue)
      BY WriterRangeConcat DEF WriterTypes
    <2> QED
      BY <2>1, Zenon
  <1>3. \A e \in Writer!Range(s) : e \in Writer!Range(pushed) /\ freed[e] = 0
    BY <1>1, <1>2, Zenon
  <1>4. freed' \in [Writer!Entries -> 0..1] /\ \A e \in Writer!Entries : freed'[e] # 0 => e \in Writer!Range(pushed)
    <2> HIDE DEF Writer!Entries
    <2>1. ASSUME NEW e \in Writer!Entries
          PROVE  freed'[e] \in 0..1 /\ (freed'[e] # 0 => e \in Writer!Range(pushed))
      <3>1. CASE e \in Writer!Range(s)
        <4>1. freed'[e] = freed[e] + 1
          BY <3>1
        <4> QED
          BY <1>3, <3>1, <4>1
      <3>2. CASE e \notin Writer!Range(s)
        <4>1. freed'[e] = freed[e]
          BY <3>2
        <4> QED
          BY <1>1, <4>1, Zenon
      <3> QED
        BY <3>1, <3>2, Zenon
    <2>2. freed' = [e \in Writer!Entries |-> freed'[e]]
      BY Zenon
    <2> QED
      BY <2>1, <2>2, Zenon
  <1>5. \A e \in Writer!Range(drain_batch') : e \in Writer!Range(pushed) /\ freed'[e] = 0
    <2>1. CASE drain_batch' = <<>>
      BY <2>1, WriterRangeEmpty, Zenon
    <2>2. CASE s = write_queue /\ drain_batch' = drain_batch
      BY <1>1, <2>2, Zenon
    <2> QED
      BY <2>1, <2>2
  <1> QED
    BY <1>4, <1>5, WriterRangeEmpty, Zenon DEF WriterWhole

\* close: the queue is dropped, the batch of a write in progress is not.
LEMMA WriterRunCloseOk ==
    ASSUME WriterIInv, Writer!RunClose
    PROVE  WriterIInv'
  <1>1. WriterTypes /\ WriterClosing /\ WriterNumbered /\ WriterWhole /\ WriterOrdered
    BY DEF WriterIInv
  <1>2. /\ pushed' = pushed /\ posting' = posting /\ alive' = alive /\ wire' = wire
        /\ strand # <<>> /\ Head(strand) = "close" /\ strand' = Tail(strand)
        /\ written' = written /\ drain_batch' = drain_batch
        /\ write_in_progress' = write_in_progress /\ write_queue' = <<>>
        /\ freed' = [e \in Writer!Entries |-> IF e \in Writer!Range(write_queue) THEN freed[e] + 1 ELSE freed[e]]
    BY Zenon DEF Writer!RunClose, Writer!Free
  <1>3. /\ strand' \in Seq(WriterTasks)
        /\ \A i \in DOMAIN strand' : \E j \in DOMAIN strand : strand'[i] = strand[j]
    BY <1>1, <1>2, WriterTaking
  <1>4. WriterClosing'
    BY <1>1, <1>2, <1>3, Zenon DEF WriterClosing
  <1>5. WriterNumbered'
    BY <1>1, <1>2 DEF WriterNumbered, WriterMine
  <1>6. freed' \in [Writer!Entries -> 0..1] /\ WriterWhole'
    BY <1>1, <1>2, WriterDropping
  <1>7. ~alive
    <2>1. 1 \in DOMAIN strand /\ strand[1] = "close"
      BY <1>1, <1>2 DEF WriterTypes
    <2> QED
      BY <1>1, <2>1, Zenon DEF WriterClosing
  <1>8. WriterTypes'
    <2>1. <<>> \in Seq(Writer!Entries)
      OBVIOUS
    <2> QED
      BY <1>1, <1>2, <1>3, <1>6, <2>1 DEF WriterTypes
  <1> QED
    BY <1>2, <1>4, <1>5, <1>6, <1>7, <1>8 DEF WriterIInv, WriterOrdered

\* The completion handler with an error deletes the batch and fails what is
\* queued.
LEMMA WriterWriteFailsOk ==
    ASSUME WriterIInv, Writer!WriteFails
    PROVE  WriterIInv'
  <1>1. WriterTypes /\ WriterClosing /\ WriterNumbered /\ WriterWhole /\ WriterOrdered
    BY Zenon DEF WriterIInv
  <1>2. /\ pushed' = pushed /\ posting' = posting /\ wire' = wire /\ alive' = FALSE
        /\ written' = FALSE /\ drain_batch' = <<>> /\ write_in_progress' = FALSE /\ write_queue' = <<>>
        /\ freed' = [e \in Writer!Entries |->
                        IF e \in Writer!Range(drain_batch \o write_queue) THEN freed[e] + 1 ELSE freed[e]]
        /\ strand' = Append(strand, "close") \/ strand' = strand
    BY <1>1, Zenon DEF Writer!WriteFails, Writer!Free, WriterTypes
  <1>3. strand' \in Seq(WriterTasks)
    <2>1. "close" \in WriterTasks /\ strand \in Seq(WriterTasks)
      BY <1>1 DEF WriterTasks, WriterTypes
    <2> QED
      BY <1>1, <1>2, <2>1, WriterPosting
  <1>4. WriterClosing' /\ WriterOrdered'
    BY <1>2, Zenon DEF WriterClosing, WriterOrdered
  <1>5. WriterNumbered'
    BY <1>1, <1>2, Zenon DEF WriterNumbered, WriterMine
  <1>6. freed' \in [Writer!Entries -> 0..1] /\ WriterWhole'
    BY <1>1, <1>2, WriterDropping, Zenon
  <1>7. WriterTypes'
    <2>1. <<>> \in Seq(Writer!Entries) /\ FALSE = (<<>> # <<>>)
      OBVIOUS
    <2> QED
      BY <1>1, <1>2, <1>3, <1>6, <2>1, Zenon DEF WriterTypes
  <1> QED
    BY <1>4, <1>5, <1>6, <1>7 DEF WriterIInv

\* The batch moves from the queue's side to the wire.
LEMMA WriterGoesOutOk ==
    ASSUME WriterIInv, Writer!BatchGoesOut
    PROVE  WriterIInv'
  <1>1. WriterTypes /\ WriterClosing /\ WriterNumbered /\ WriterWhole /\ WriterOrdered
    BY DEF WriterIInv
  <1>2. /\ pushed' = pushed /\ posting' = posting /\ wire' = wire \o drain_batch /\ alive' = alive
        /\ ~written /\ written' = TRUE /\ write_in_progress /\ write_in_progress' = write_in_progress
        /\ write_queue' = write_queue /\ drain_batch' = drain_batch /\ strand' = strand
        /\ freed' = freed
    BY DEF Writer!BatchGoesOut
  <1>3. wire' \in Seq(Writer!Entries) /\ wire' \o <<>> = wire'
    <2>1. wire' \in Seq(Writer!Entries)
      BY <1>1, <1>2 DEF WriterTypes
    <2> QED
      BY <2>1
  <1>4. WriterTypes'
    BY <1>1, <1>2, <1>3, Zenon DEF WriterTypes
  <1>5. WriterClosing' /\ WriterWhole'
    BY <1>1, <1>2, Zenon DEF WriterClosing, WriterWhole
  <1>6. WriterNumbered'
    BY <1>1, <1>2, Zenon DEF WriterNumbered, WriterMine
  <1>7. WriterOrdered'
    BY <1>1, <1>2, <1>3, Zenon DEF WriterOrdered
  <1> QED
    BY <1>4, <1>5, <1>6, <1>7, Zenon DEF WriterIInv

\* Every step of the write side preserves the invariant.
LEMMA WriterNextOk ==
    ASSUME WriterIInv, [Writer!Next]_(Writer!vars)
    PROVE  WriterIInv'
  <1>1. CASE UNCHANGED Writer!vars
    <2>1. /\ pushed' = pushed /\ posting' = posting /\ wire' = wire /\ alive' = alive
          /\ written' = written /\ write_in_progress' = write_in_progress
          /\ write_queue' = write_queue /\ drain_batch' = drain_batch /\ strand' = strand
          /\ freed' = freed
      BY <1>1 DEF Writer!vars
    <2>2. WriterTypes' /\ WriterClosing'
      BY <2>1, Zenon DEF WriterIInv, WriterTypes, WriterClosing
    <2>3. WriterNumbered' /\ WriterWhole'
      BY <2>1 DEF WriterIInv, WriterNumbered, WriterMine, WriterWhole
    <2>4. WriterOrdered'
      BY <2>1 DEF WriterIInv, WriterOrdered
    <2> QED
      BY <2>2, <2>3, <2>4 DEF WriterIInv
  <1> QED
    BY <1>1, WriterPushOk, WriterPostOk, WriterRunFlushOk, WriterRunCloseOk,
       WriterGoesOutOk, WriterWriteDoneOk, WriterWriteFailsOk, SMTT(20) DEF Writer!Next

\* Any number of threads may push on the lock-free queue of a connection,
\* post flushes and close it: no entry is used after it was deleted, and
\* while the connection is alive the socket is given the entries in the order
\* of the pushes, none of them missing.
THEOREM WriterWrittenInOrder ==
    ASSUME MaxWrites \in Nat
    PROVE  Writer!Spec => []Writer!InPushOrder
  <1>1. Writer!Init => WriterIInv
    BY WriterInitOk
  <1>2. WriterIInv /\ [Writer!Next]_(Writer!vars) => WriterIInv'
    BY WriterNextOk, Zenon
  <1>3. WriterIInv => Writer!InPushOrder
    <2> SUFFICES ASSUME WriterIInv
                 PROVE  Writer!InPushOrder
      BY Zenon
    <2>1. Writer!Range(write_queue \o drain_batch) = Writer!Range(write_queue) \cup Writer!Range(drain_batch)
      BY WriterRangeConcat DEF WriterIInv, WriterTypes
    <2> QED
      BY <2>1 DEF WriterIInv, WriterWhole, WriterOrdered, Writer!InPushOrder
  <1> QED
    BY <1>1, <1>2, <1>3, PTL DEF Writer!Spec

\* No entry is deleted twice, whether a completed write, a failed write or
\* the close deletes it.
THEOREM WriterDeletedOnce ==
    ASSUME MaxWrites \in Nat
    PROVE  Writer!Spec => []Writer!TypeOK
  <1>1. Writer!Init => WriterIInv
    BY WriterInitOk
  <1>2. WriterIInv /\ [Writer!Next]_(Writer!vars) => WriterIInv'
    BY WriterNextOk, Zenon
  <1>3. WriterIInv => Writer!TypeOK
    <2> SUFFICES ASSUME WriterIInv
                 PROVE  Writer!TypeOK
      OBVIOUS
    <2>1. Writer!Range(pushed) \subseteq Writer!Entries
      BY DEF WriterIInv, WriterTypes, Writer!Range
    <2> QED
      BY <2>1 DEF WriterIInv, WriterTypes, Writer!TypeOK, WriterTasks
  <1> QED
    BY <1>1, <1>2, <1>3, PTL DEF Writer!Spec
=============================================================================
