------------------------- MODULE RetryUpdateProofs -------------------------
(* RetryUpdate implements AtomicUpdate, for any callers, fields and bounds.  *)
EXTENDS RetryUpdate, TLAPS

\* The cache shows the server's object, or an older version of it.
CacheOK == /\ 1 <= cache.ver /\ cache.ver <= server.ver
           /\ cache.ver = server.ver => cache = server

\* What p read agrees with the server as long as their versions do: all of it
\* when the read replaced p's object or was the first, else the fields that are
\* present.
ReadAgrees(p) ==
  /\ (p \notin Live \/ conflicts[p] = 0) => obj[p] = server.val
  /\ \A f \in Fields : server.val[f] # 0 => obj[p][f] = server.val[f]

ReadOK ==
  \A p \in Callers :
    /\ rv[p] <= server.ver
    /\ pc[p] = "update" => 1 <= rv[p]
    /\ (pc[p] = "get" /\ conflicts[p] = 0) => obj[p] = Blank
    /\ (pc[p] = "update" /\ rv[p] = server.ver) => ReadAgrees(p)

\* Each conflict of a caller that reads from the server has a version of its own.
RivalsOK ==
  \A p \in Live : /\ conflicts[p] < server.ver
                  /\ pc[p] = "update" => conflicts[p] < rv[p]

\* A version that is not the first has been written by somebody, who is one of
\* the others or a caller that is through with its call.
WrittenOK ==
  server.ver > 1 => edits > 0 \/ \E q \in Callers : pc[q] \in {"ok", "error"}

RetryInv == TypeOK /\ CacheOK /\ ReadOK /\ RivalsOK /\ WrittenOK

\* The types of what a step computes from a read.
LEMMA DecodedType ==
  ASSUME TypeOK, NEW p \in Callers
  PROVE  /\ Source(p) \in Copies
         /\ Decoded(p, Source(p)) \in Values
         /\ Adjust(p) \in Values
         /\ Stored(p) \in Copies
  <1>1. Source(p) \in Copies
    BY DEF TypeOK, Source
  <1>2. Decoded(p, Source(p)) \in Values
    BY <1>1 DEF TypeOK, Decoded, Copies, Values
  <1>3. obj[p] \in Values /\ Target[p] \in Fields
    BY RetryAssumption DEF TypeOK
  <1>4. Adjust(p) \in Values
    BY <1>3 DEF Adjust, Values
  <1>5. Stored(p) \in Copies
    <2>1. [f \in Fields |-> IF f \in Part(p) THEN Adjust(p)[f] ELSE server.val[f]]
            \in Values
      BY <1>4 DEF TypeOK, Copies, Values
    <2>2. QED
      BY <2>1 DEF TypeOK, Stored, Written, Copies
  <1>6. QED
    BY <1>1, <1>2, <1>4, <1>5

\* The first state satisfies the invariant.
LEMMA RetryInit == Init => RetryInv
  <1> SUFFICES ASSUME Init PROVE RetryInv
    OBVIOUS
  <1>1. Blank \in Values
    BY DEF Blank, Values
  <1>2. TypeOK
    BY <1>1, RetryAssumption DEF Init, TypeOK, Copies
  <1>3. CacheOK
    BY DEF Init, CacheOK
  <1>4. ReadOK
    BY DEF Init, ReadOK
  <1>5. RivalsOK
    BY RetryAssumption DEF Init, RivalsOK
  <1>6. WrittenOK
    BY DEF Init, WrittenOK
  <1>7. QED
    BY <1>2, <1>3, <1>4, <1>5, <1>6 DEF RetryInv

\* A read: the version and the fields come from one copy.
LEMMA GetKeeps ==
  ASSUME RetryInv, NEW p \in Callers, GetSucceeds(p)
  PROVE  RetryInv'
  <1> USE DEF RetryInv
  <1>1. TypeOK'
    BY DecodedType DEF GetSucceeds, Goto, TypeOK, Copies
  <1>2. CacheOK'
    BY DEF GetSucceeds, CacheOK
  <1>3. Source(p).ver <= server.ver /\ (Source(p).ver = server.ver => Source(p) = server)
    BY DEF TypeOK, Copies, Source, CacheOK
  <1>4. ASSUME Source(p) = server PROVE ReadAgrees(p)'
    <2>1. /\ obj' = [obj EXCEPT ![p] = Decoded(p, server)] /\ obj \in [Callers -> Values]
          /\ pc[p] = "get" /\ UNCHANGED <<server, conflicts>> /\ server.val \in Values
      BY <1>4 DEF GetSucceeds, TypeOK, Copies
    <2>2. obj'[p] = Decoded(p, server)
      BY <2>1
    <2>3. \A f \in Fields : server.val[f] # 0 => Decoded(p, server)[f] = server.val[f]
      BY <2>1 DEF Decoded, Values
    <2>4. p \notin Live \/ conflicts[p] = 0 => Decoded(p, server) = server.val
      <3>1. conflicts[p] = 0 => obj[p] = Blank
        BY <2>1 DEF ReadOK
      <3>2. CASE p \notin Live
        BY <3>2 DEF Decoded
      <3>3. CASE p \in Live /\ conflicts[p] = 0
        BY <2>1, <3>1, <3>3 DEF Decoded, Blank, Values
      <3>4. QED
        BY <3>2, <3>3
    <2>5. QED
      BY <2>1, <2>2, <2>3, <2>4 DEF ReadAgrees
  <1>5. ReadOK'
    <2>1. /\ pc' = [pc EXCEPT ![p] = "update"] /\ rv' = [rv EXCEPT ![p] = Source(p).ver]
          /\ \A q \in Callers \ {p} : obj'[q] = obj[q]
          /\ UNCHANGED <<server, conflicts>>
      BY DEF GetSucceeds, Goto, TypeOK
    <2>2. 1 <= Source(p).ver
      BY DEF Source, CacheOK, TypeOK, Copies
    <2>3. \A q \in Callers \ {p} : ReadAgrees(q)' = ReadAgrees(q)
      BY <2>1 DEF ReadAgrees
    <2>4. QED
      BY <1>3, <1>4, <2>1, <2>2, <2>3 DEF ReadOK, TypeOK
  <1>6. RivalsOK'
    BY DEF GetSucceeds, Goto, RivalsOK, TypeOK, Source
  <1>7. WrittenOK'
    BY DEF GetSucceeds, Goto, WrittenOK, TypeOK
  <1>8. QED
    BY <1>1, <1>2, <1>5, <1>6, <1>7

\* An accepted update makes every other read an old one.
LEMMA AcceptKeeps ==
  ASSUME RetryInv, NEW p \in Callers, UpdateAccepted(p)
  PROVE  RetryInv'
  <1> USE DEF RetryInv
  <1>1. TypeOK'
    BY DecodedType DEF UpdateAccepted, Goto, Outcomes, TypeOK
  <1>2. server.ver \in Nat /\ server'.ver = server.ver + 1
    BY DEF UpdateAccepted, Stored, Written, TypeOK, Copies
  <1>3. cache.ver \in Nat /\ \A q \in Callers : rv[q] \in Nat
    BY DEF TypeOK, Copies
  <1>4. CacheOK'
    BY <1>2, <1>3 DEF UpdateAccepted, CacheOK
  <1>5. ReadOK'
    <2>1. PICK where \in {"ok", "error"} : pc' = [pc EXCEPT ![p] = where]
      BY DEF UpdateAccepted, Goto, Outcomes
    <2>2. /\ \A q \in Callers \ {p} : pc'[q] = pc[q] /\ obj'[q] = obj[q]
          /\ pc'[p] \in {"ok", "error"} /\ UNCHANGED <<rv, conflicts>>
      BY <2>1 DEF UpdateAccepted, TypeOK
    <2>3. QED
      BY <1>2, <1>3, <2>2 DEF ReadOK
  <1>6. RivalsOK'
    BY <1>2, RetryAssumption DEF UpdateAccepted, Goto, Outcomes, RivalsOK, TypeOK
  <1>7. WrittenOK'
    BY DEF UpdateAccepted, Goto, Outcomes, WrittenOK, TypeOK
  <1>8. QED
    BY <1>1, <1>4, <1>5, <1>6, <1>7

\* A conflict and an error change nothing but the caller.
LEMMA RefusalKeeps ==
  ASSUME RetryInv, NEW p \in Callers, UpdateConflicts(p) \/ Fails(p)
  PROVE  RetryInv'
  <1> USE DEF RetryInv
  <1>1. AfterConflict(p) \in {"get", "error"}
    BY DEF AfterConflict
  <1>2. TypeOK'
    BY <1>1, DecodedType, RetryAssumption
       DEF UpdateConflicts, Fails, Goto, AfterConflict, TypeOK
  <1>3. CacheOK'
    BY DEF UpdateConflicts, Fails, CacheOK
  <1>4. ReadOK'
    BY <1>1 DEF UpdateConflicts, Fails, Goto, ReadOK, ReadAgrees, TypeOK
  <1>5. RivalsOK'
    BY <1>1, RetryAssumption
       DEF UpdateConflicts, Fails, Goto, RivalsOK, ReadOK, TypeOK, Copies
  <1>6. WrittenOK'
    BY <1>1 DEF UpdateConflicts, Fails, Goto, WrittenOK, TypeOK
  <1>7. QED
    BY <1>2, <1>3, <1>4, <1>5, <1>6

\* What the writes of others do to the server's object.
LEMMA ForeignStep ==
  ASSUME TypeOK, Foreign
  PROVE  /\ server' \in Copies /\ server'.ver = server.ver + 1
         /\ edits' \in 0..MaxEdits
         /\ UNCHANGED <<cache, pc, obj, rv, conflicts>>
  <1>1. server \in Copies /\ edits \in 0..MaxEdits
    BY DEF TypeOK
  <1>2. \A f \in Fields, v \in {0, 1} : [server.val EXCEPT ![f] = v] \in Values
    BY <1>1 DEF Copies, Values
  <1>3. server' \in Copies /\ server'.ver = server.ver + 1
    <2>1. \A e \in BOOLEAN, w \in Values :
            Written(e, w) \in Copies /\ Written(e, w).ver = server.ver + 1
      BY <1>1 DEF Written, Copies
    <2>2. \/ \E f \in Fields, v \in {0, 1} : server' = Written(TRUE, [server.val EXCEPT ![f] = v])
          \/ server' = Written(FALSE, server.val)
      BY DEF Foreign
    <2>3. server.val \in Values
      BY <1>1 DEF Copies
    <2>4. \E e \in BOOLEAN, w \in Values : server' = Written(e, w)
      BY <2>2, <2>3, <1>2
    <2>5. QED
      BY <2>1, <2>4
  <1>4. edits < MaxEdits /\ edits' = edits + 1
    BY DEF Foreign
  <1>5. edits' \in 0..MaxEdits
    BY <1>1, <1>4, RetryAssumption
  <1>6. UNCHANGED <<cache, pc, obj, rv, conflicts>>
    BY DEF Foreign
  <1>7. QED
    BY <1>3, <1>5, <1>6

\* The watch and the writes of others.
LEMMA AroundKeeps ==
  ASSUME RetryInv, Sync \/ Foreign
  PROVE  RetryInv'
  <1>1. CASE Sync
    <2>1. cache' = server /\ UNCHANGED <<server, pc, obj, rv, conflicts, edits>>
      BY <1>1 DEF Sync
    <2>2. TypeOK'
      BY <2>1 DEF RetryInv, TypeOK
    <2>3. CacheOK'
      BY <2>1 DEF RetryInv, TypeOK, Copies, CacheOK
    <2>4. ReadOK' /\ RivalsOK'
      BY <2>1 DEF RetryInv, ReadOK, ReadAgrees, RivalsOK
    <2>5. WrittenOK'
      BY <2>1 DEF RetryInv, WrittenOK
    <2>6. QED
      BY <2>2, <2>3, <2>4, <2>5 DEF RetryInv
  <1>2. CASE Foreign
    <2>1. TypeOK /\ CacheOK /\ ReadOK /\ RivalsOK
      BY DEF RetryInv
    <2>2. /\ server' \in Copies /\ server'.ver = server.ver + 1
          /\ edits' \in 0..MaxEdits
          /\ UNCHANGED <<cache, pc, obj, rv, conflicts>>
      BY <1>2, <2>1, ForeignStep
    <2>3. /\ server.ver \in Nat /\ cache.ver \in Nat
          /\ \A q \in Callers : rv[q] \in Nat /\ conflicts[q] \in Nat
      BY <2>1, RetryAssumption DEF TypeOK, Copies
    <2>4. TypeOK'
      BY <2>1, <2>2 DEF TypeOK
    <2>5. CacheOK'
      BY <2>1, <2>2, <2>3 DEF CacheOK
    <2>6. ReadOK'
      BY <2>1, <2>2, <2>3 DEF ReadOK
    <2>7. RivalsOK'
      BY <2>1, <2>2, <2>3, RetryAssumption DEF RivalsOK
    <2>8. edits' > 0
      BY <1>2, <2>1 DEF Foreign, TypeOK
    <2>9. QED
      BY <2>4, <2>5, <2>6, <2>7, <2>8 DEF RetryInv, WrittenOK
  <1>3. QED
    BY <1>1, <1>2

\* The invariant is inductive.
LEMMA RetryInductive == Spec => []RetryInv
  <1>1. RetryInv /\ [Next]_vars => RetryInv'
    <2> SUFFICES ASSUME RetryInv, [Next]_vars PROVE RetryInv'
      OBVIOUS
    <2>1. CASE UNCHANGED vars
      BY <2>1 DEF vars, RetryInv, TypeOK, CacheOK, ReadOK, ReadAgrees, RivalsOK, WrittenOK
    <2>2. ASSUME NEW p \in Callers, Step(p) PROVE RetryInv'
      BY <2>2, GetKeeps, AcceptKeeps, RefusalKeeps DEF Step
    <2>3. QED
      BY <2>1, <2>2, AroundKeeps DEF Next
  <1>2. QED
    BY <1>1, RetryInit, PTL DEF Spec

-----------------------------------------------------------------------------
(* The refinement.                                                          *)

\* A step of one caller changes its outcome alone.
LEMMA OpMoves ==
  ASSUME TypeOK, NEW p \in Callers, pc[p] \in {"get", "update"},
         NEW where \in {"get", "update", "ok", "error"}, Goto(p, where),
         \A q \in Callers \ {p} : conflicts'[q] = conflicts[q]
  PROVE  /\ Atomic!Under(p)
         /\ conflicts[p] = 0 => Op[p] = "pending"
         /\ (where \in {"get", "update"} /\ conflicts'[p] = conflicts[p]) => Op' = Op
         /\ (where \in {"get", "update"} /\ conflicts'[p] # 0) =>
              Op' = [Op EXCEPT ![p] = "again"]
         /\ where = "ok" => Op' = [Op EXCEPT ![p] = "done"]
         /\ where = "error" => Op' = [Op EXCEPT ![p] = "failed"]
  <1>1. pc' = [pc EXCEPT ![p] = where] /\ pc \in [Callers -> {"get", "update", "ok", "error"}]
    BY DEF Goto, TypeOK
  <1>2. Op[p] = IF conflicts[p] = 0 THEN "pending" ELSE "again"
    BY DEF Op
  <1>3. Op'[p] = CASE where = "ok" -> "done" [] where = "error" -> "failed"
                   [] where \in {"get", "update"} /\ conflicts'[p] = 0 -> "pending"
                   [] where \in {"get", "update"} /\ conflicts'[p] # 0 -> "again"
    BY <1>1 DEF Op
  <1>4. \A q \in Callers \ {p} : Op'[q] = Op[q]
    BY <1>1 DEF Op
  <1>5. /\ Op \in [Callers -> {"pending", "again", "done", "failed"}]
        /\ Op' \in [Callers -> {"pending", "again", "done", "failed"}]
    BY <1>1 DEF TypeOK, Op
  <1>6. Op' = [Op EXCEPT ![p] = Op'[p]]
    BY <1>4, <1>5
  <1>7. ASSUME where \in {"get", "update"}, conflicts'[p] = conflicts[p] PROVE Op' = Op
    <2>1. Op'[p] = Op[p]
      BY <1>2, <1>3, <1>7
    <2>2. QED
      BY <2>1, <1>4, <1>5
  <1>8. QED
    BY <1>2, <1>3, <1>6, <1>7 DEF Atomic!Under

\* An accepted update is an adjustment of the object as it is at that moment.
LEMMA AcceptRefines ==
  ASSUME RetryInv, NEW p \in Callers, UpdateAccepted(p)
  PROVE  Atomic!Apply(p)
  <1>1. /\ TypeOK /\ server.exists /\ pc[p] = "update" /\ ReadAgrees(p)
        /\ server' = Stored(p) /\ UNCHANGED conflicts
    BY DEF RetryInv, ReadOK, UpdateAccepted
  <1>2. PICK where \in {"ok", "error"} : Goto(p, where)
    BY DEF UpdateAccepted, Outcomes
  <1>3. /\ Atomic!Under(p)
        /\ \E result \in {"done", "failed"} : Op' = [Op EXCEPT ![p] = result]
    BY <1>1, <1>2, OpMoves
  <1>4. server'.exists = TRUE /\ server'.val \in Values
    BY <1>1, DecodedType DEF Stored, Written, Copies
  <1>5. /\ server.val \in Values /\ obj[p] \in Values
        /\ Target[p] \in Fields /\ Target[p] \in Part(p)
    BY <1>1, RetryAssumption DEF TypeOK, Copies, Part
  <1>6. \A f \in Fields :
          server'.val[f] = IF f = Target[p] THEN obj[p][f] + 1
                           ELSE IF f \in Part(p) THEN obj[p][f] ELSE server.val[f]
    BY <1>1, <1>5 DEF Stored, Written, Adjust, Values
  <1>7. Atomic!Leftover(p, server'.val)
    BY <1>1, <1>4, <1>6 DEF ReadAgrees, Atomic!Leftover, Atomic!Values, Values
  <1>8. ASSUME p \in Callers \ Live \/ Op[p] = "pending"
        PROVE  Atomic!Once(p, server'.val)
    <2>1. p \notin Live \/ conflicts[p] = 0
      BY <1>1, <1>8 DEF Op
    <2>2. obj[p] = server.val
      BY <1>1, <2>1 DEF ReadAgrees
    <2>3. QED
      BY <1>4, <1>5, <1>6, <2>2 DEF Atomic!Once, Values
  <1>9. Atomic!Adjusted(p, server'.val)
    BY <1>7, <1>8 DEF Atomic!Adjusted
  <1>10. server'.exists = server.exists /\ edits' = edits
    BY <1>1, <1>4 DEF TypeOK, Copies, UpdateAccepted
  <1>11. QED
    BY <1>1, <1>3, <1>9, <1>10 DEF Atomic!Apply

\* A conflict that is tried again is a retry or nothing, and has a rival.
LEMMA ConflictRefines ==
  ASSUME RetryInv, NEW p \in Callers, UpdateConflicts(p)
  PROVE  Atomic!Refuse(p) \/ Atomic!Retry(p) \/ UNCHANGED Atomic!vars
  <1>1. /\ TypeOK /\ pc[p] = "update" /\ UNCHANGED <<server, edits>>
        /\ rv[p] # server.ver /\ rv[p] <= server.ver /\ 1 <= rv[p]
    BY DEF RetryInv, ReadOK, UpdateConflicts
  <1>2. PICK where \in {"get", "error"} : Goto(p, where)
    BY DEF UpdateConflicts, AfterConflict
  <1>3. /\ conflicts' = [conflicts EXCEPT ![p] = conflicts[p] + 1]
        /\ conflicts[p] \in Nat
    <2>1. conflicts \in [Callers -> 0..Steps] /\ conflicts[p] < Steps
      BY <1>1 DEF TypeOK
    <2>2. QED
      BY <2>1, RetryAssumption DEF UpdateConflicts
  <1>4. conflicts'[p] # 0 /\ \A q \in Callers \ {p} : conflicts'[q] = conflicts[q]
    BY <1>1, <1>3 DEF TypeOK
  <1>5. CASE where = "error"
    BY <1>1, <1>2, <1>4, <1>5, OpMoves DEF Atomic!Refuse
  <1>6. CASE where = "get"
    <2>1. Op' = [Op EXCEPT ![p] = "again"]
      BY <1>1, <1>2, <1>4, <1>6, OpMoves
    <2>2. CASE conflicts[p] = 0
      <3>1. server.ver > 1
        BY <1>1 DEF TypeOK, Copies
      <3>2. edits > 0 \/ \E q \in Callers : pc[q] \in {"ok", "error"}
        BY <3>1 DEF RetryInv, WrittenOK
      <3>3. edits > 0 \/ \E q \in Callers \ {p} : Op[q] \in {"done", "failed"}
        BY <1>1, <3>2 DEF Op
      <3>4. Op[p] = "pending"
        BY <1>1, <2>2 DEF Op
      <3>5. QED
        BY <1>1, <2>1, <3>3, <3>4 DEF Atomic!Retry
    <2>3. CASE conflicts[p] # 0
      <3>1. Op[p] = "again" /\ Op \in [Callers -> {"pending", "again", "done", "failed"}]
        BY <1>1, <2>3 DEF Op, TypeOK
      <3>2. Op' = Op
        BY <2>1, <3>1
      <3>3. QED
        BY <1>1, <3>2 DEF Atomic!vars
    <2>4. QED
      BY <2>2, <2>3
  <1>7. QED
    BY <1>5, <1>6

\* A read is a step nobody sees, and an error is a refusal.
LEMMA RefusalRefines ==
  ASSUME RetryInv, NEW p \in Callers, GetSucceeds(p) \/ Fails(p)
  PROVE  Atomic!Refuse(p) \/ UNCHANGED Atomic!vars
  <1>1. TypeOK /\ pc[p] \in {"get", "update"} /\ UNCHANGED <<server, edits, conflicts>>
    BY DEF RetryInv, GetSucceeds, Fails
  <1>2. PICK where \in {"update", "error"} : Goto(p, where)
    BY DEF GetSucceeds, Fails
  <1>3. Atomic!Under(p) /\ (Op' = Op \/ Op' = [Op EXCEPT ![p] = "failed"])
    BY <1>1, <1>2, OpMoves
  <1>4. QED
    BY <1>1, <1>3 DEF Atomic!Refuse, Atomic!vars

\* What others and the watch do is what the abstract environment may do.
LEMMA AroundRefines ==
  ASSUME RetryInv, Sync \/ Foreign
  PROVE  Atomic!Foreign \/ UNCHANGED Atomic!vars
  <1>1. UNCHANGED pc
    BY DEF Sync, Foreign
  <1>2. UNCHANGED Op
    BY <1>1 DEF Op, Sync, Foreign
  <1>3. CASE Sync
    BY <1>2, <1>3 DEF Sync, Atomic!vars
  <1>4. CASE Foreign
    <2>1. server' \in Copies /\ server.exists /\ edits' = edits + 1
      BY <1>4, ForeignStep DEF RetryInv, Foreign
    <2>2. server'.exists \in BOOLEAN /\ server'.val \in Values
      BY <2>1 DEF Copies
    <2>3. QED
      BY <1>2, <2>1, <2>2 DEF Atomic!Foreign, Atomic!Values, Values
  <1>5. QED
    BY <1>3, <1>4

\* RetryUpdate and RetryStatusUpdate implement the atomic update, for any
\* callers, any fields, any number of steps and any writes of others: a call
\* stores at most one update, and that applies the adjustment exactly once for a
\* caller that reads through a cache or met no conflict; one that reads from the
\* server and met one may bring back what is absent there, its own former
\* increments included (retry.go:18), and nothing else.
THEOREM RetryIsAtomic == Spec => ImplementsAtomic
  <1>1. Init => Atomic!Init
    <2> SUFFICES ASSUME Init PROVE Atomic!Init
      OBVIOUS
    <2>1. server.exists = TRUE /\ server.val = Blank /\ Blank \in Values /\ edits = 0
      BY DEF Init, Blank, Values
    <2>2. Op = [p \in Callers |-> "pending"]
      BY DEF Init, Op
    <2>3. QED
      BY <2>1, <2>2 DEF Atomic!Init, Atomic!Values, Values
  <1>2. RetryInv /\ [Next]_vars => [Atomic!Next]_(Atomic!vars)
    <2> SUFFICES ASSUME RetryInv, [Next]_vars PROVE Atomic!Next \/ UNCHANGED Atomic!vars
      OBVIOUS
    <2>1. CASE UNCHANGED vars
      <3>1. UNCHANGED <<server, pc, edits>>
        BY <2>1 DEF vars
      <3>2. QED
        BY <3>1 DEF Atomic!vars, Op
    <2>2. ASSUME NEW p \in Callers, Step(p) PROVE Atomic!Next \/ UNCHANGED Atomic!vars
      BY <2>2, AcceptRefines, ConflictRefines, RefusalRefines DEF Step, Atomic!Next
    <2>3. CASE Sync \/ Foreign
      BY <2>3, AroundRefines DEF Atomic!Next
    <2>4. QED
      BY <2>1, <2>2, <2>3 DEF Next
  <1>3. QED
    BY <1>1, <1>2, RetryInductive, PTL DEF Spec, ImplementsAtomic, Atomic!Spec

\* A caller that reads from the API server gives up on conflicts only against
\* as many writes of others, for any number of steps.
THEOREM RivalsOnly == Spec => []ConflictsHaveRivals
  <1>1. RetryInv => ConflictsHaveRivals
    BY RetryAssumption DEF RetryInv, RivalsOK, TypeOK, Copies, ConflictsHaveRivals
  <1>2. QED
    BY <1>1, RetryInductive, PTL

\* In a call that is under way a caller met fewer conflicts than its back-off has
\* steps (update.go:24-29), however many callers and writers there are.
THEOREM RetryTypes == Spec => []TypeOK
  <1>1. RetryInv => TypeOK
    BY DEF RetryInv
  <1>2. QED
    BY <1>1, RetryInductive, PTL
=============================================================================
