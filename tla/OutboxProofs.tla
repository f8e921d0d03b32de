---------------------------- MODULE OutboxProofs ----------------------------
(***************************************************************************)
(* Theorems about Outbox, for any number of events, exporters and failures. *)
(***************************************************************************)
EXTENDS Outbox, FiniteSetTheorems, WellFoundedInduction, TLAPS

Typed ==
    /\ status \in [Events -> {"absent", "pending", "exported"}]
    /\ files \subseteq SUBSET Events
    /\ work \in [Exporters -> [pc : {"idle", "file", "mark"}, batch : SUBSET Events]]
    /\ \A x \in Exporters : Cardinality(work[x].batch) <= Limit
    /\ failures \in 0..MaxFailures /\ disturbed \in BOOLEAN

\* What is to be marked has its file.
MarkedHaveFiles ==
    /\ \A x \in Exporters : work[x].pc = "mark" => work[x].batch \in files
    /\ ExportedIsWritten

\* Undisturbed, the exporter at work is alone, its batch is pending, and what the files
\* hold is exported, or about to be.
Alone == \A x, y \in Exporters : work[x] # Idle /\ work[y] # Idle => x = y
BatchIsPending == \A x \in Exporters : \A e \in work[x].batch : status[e] = "pending"
WrittenIsMarked ==
    \A F \in files : \A e \in F :
        status[e] = "exported" \/ \E x \in Exporters : work[x].pc = "mark" /\ e \in work[x].batch
Undisturbed == ~disturbed => Alone /\ BatchIsPending /\ WrittenIsMarked

Inv == Typed /\ MarkedHaveFiles /\ Undisturbed /\ WrittenOnce

-----------------------------------------------------------------------------

\* A finite interval's subset has a greatest element.
LEMMA Greatest ==
    ASSUME NEW n \in Nat, NEW S \in SUBSET (1..n), S # {}
    PROVE  \E m \in S : \A s \in S : s <= m
<1> DEFINE T == {k \in Nat : \E s \in S : k = n - s}
           R == OpToRel(<, Nat)
<1>1. \A s \in S : s \in Int /\ n - s \in T
  OBVIOUS
<1>2. T \subseteq Nat /\ T # {}
  BY <1>1
<1>3. \E t \in T : \A u \in T : ~(<<u, t>> \in R)
  <2>1. IsWellFoundedOn(R, Nat)
    BY NatLessThanWellFounded
  <2> HIDE DEF R, T
  <2> QED BY <1>2, <2>1, WFMin
<1>4. PICK t \in T : \A u \in T : ~(<<u, t>> \in R)
  BY <1>3
<1>5. \A u \in T : t <= u
  <2> SUFFICES ASSUME NEW u \in T, u < t PROVE FALSE
    BY <1>2
  <2>1. <<u, t>> \in R
    BY <1>2 DEF OpToRel
  <2> QED BY <1>4, <2>1
<1>6. PICK m \in S : t = n - m
  OBVIOUS
<1>7. \A s \in S : s <= m
  <2> SUFFICES ASSUME NEW s \in S PROVE s <= m
    OBVIOUS
  <2>1. t <= n - s
    BY <1>1, <1>5
  <2>2. s \in Int /\ m \in Int
    BY <1>1
  <2> QED BY <1>6, <2>1, <2>2
<1> QED BY <1>7

\* ORDER BY ... LIMIT returns no more than the limit.
LEMMA OldestIsBounded ==
    ASSUME NEW E \in SUBSET Events
    PROVE  Oldest(E) \in SUBSET E /\ Cardinality(Oldest(E)) <= Limit
<1> DEFINE S == Oldest(E)
<1>1. S \in SUBSET E
  BY DEF Oldest
<1>2. IsFiniteSet(E) /\ IsFiniteSet(S)
  <2>1. IsFiniteSet(Events)
    BY OutboxAssumption, FS_Interval DEF Events
  <2> QED BY <1>1, <2>1, FS_Subset
<1>3. CASE S = {}
  BY <1>1, <1>3, FS_EmptySet, OutboxAssumption
<1>4. CASE S # {}
  <2>1. PICK m \in S : \A s \in S : s <= m
    BY <1>1, <1>4, Greatest, OutboxAssumption DEF Events
  <2> DEFINE D == {d \in E : d < m}
  <2>2. Cardinality(D) < Limit
    BY <2>1 DEF Oldest
  <2>3. S \ {m} \in SUBSET D
    <3> SUFFICES ASSUME NEW s \in S, s # m PROVE s \in E /\ s < m
      OBVIOUS
    <3>1. s \in E /\ s <= m
      BY <1>1, <2>1
    <3>2. s \in Events /\ m \in Events
      <4> HIDE DEF S
      <4> QED BY <1>1
    <3>3. s \in Int /\ m \in Int
      BY <3>2, OutboxAssumption DEF Events
    <3> QED BY <3>1, <3>3
  <2>4. IsFiniteSet(D) /\ Cardinality(S \ {m}) <= Cardinality(D)
    BY <1>2, <2>3, FS_Subset
  <2>5. Cardinality(S \ {m}) = Cardinality(S) - 1
    BY <1>2, <2>1, FS_RemoveElement
  <2>6. Cardinality(S) \in Nat /\ Cardinality(D) \in Nat
    BY <1>2, <2>4, FS_CardinalityType
  <2> QED BY <1>1, <2>2, <2>4, <2>5, <2>6, OutboxAssumption
<1> QED BY <1>3, <1>4

LEMMA InitInv == OutboxInit => Inv
<1> SUFFICES ASSUME OutboxInit PROVE Inv
  OBVIOUS
<1>1. Typed
  <2>1. Cardinality({}) = 0
    BY FS_EmptySet
  <2>2. \A x \in Exporters : work[x].batch = {}
    BY DEF OutboxInit, Idle
  <2>3. \A x \in Exporters : Cardinality(work[x].batch) <= Limit
    BY <2>1, <2>2, OutboxAssumption
  <2>4. /\ status \in [Events -> {"absent", "pending", "exported"}]
        /\ files \subseteq SUBSET Events
        /\ disturbed \in BOOLEAN
    BY DEF OutboxInit
  <2>5. work \in [Exporters -> [pc : {"idle", "file", "mark"}, batch : SUBSET Events]]
    BY DEF OutboxInit, Idle
  <2>6. failures \in 0..MaxFailures
    BY OutboxAssumption DEF OutboxInit
  <2> QED BY <2>3, <2>4, <2>5, <2>6 DEF Typed
<1>2. MarkedHaveFiles
  BY DEF OutboxInit, MarkedHaveFiles, ExportedIsWritten, Idle
<1>3. Undisturbed
  BY DEF OutboxInit, Undisturbed, Alone, BatchIsPending, WrittenIsMarked, Idle
<1>4. WrittenOnce
  BY DEF OutboxInit, WrittenOnce
<1> QED BY <1>1, <1>2, <1>3, <1>4 DEF Inv

\* Whatever inserts a row leaves those that were there alone.
LEMMA InsertInv ==
    ASSUME Inv, NEW e \in Events, Enqueue(e)
    PROVE  Inv'
<1> USE DEF Inv, Enqueue
<1>1. Typed'
  BY DEF Typed
<1>2. \A d \in Events : status[d] # "absent" => status'[d] = status[d]
  BY DEF Typed
<1>3. \A d \in Events : status'[d] = "exported" => status[d] = "exported"
  BY DEF Typed
<1>4. MarkedHaveFiles'
  BY <1>3 DEF MarkedHaveFiles, ExportedIsWritten
<1>5. Undisturbed'
  BY <1>2 DEF Undisturbed, Alone, BatchIsPending, WrittenIsMarked, Typed
<1>6. WrittenOnce'
  BY DEF WrittenOnce
<1> QED BY <1>1, <1>4, <1>5, <1>6

LEMMA SelectInv ==
    ASSUME Inv, NEW x \in Exporters, Select(x)
    PROVE  Inv'
<1> USE DEF Inv, Select
<1> DEFINE B == Oldest(Pending)
<1>1. B \in SUBSET Pending /\ Pending \in SUBSET Events /\ Cardinality(B) <= Limit
  BY OldestIsBounded DEF Pending
<1>2. work' = [work EXCEPT ![x] = [pc |-> "file", batch |-> B]]
  OBVIOUS
<1>3. Typed'
  <2>1. work' \in [Exporters -> [pc : {"idle", "file", "mark"}, batch : SUBSET Events]]
    BY <1>1, <1>2 DEF Typed
  <2>2. \A y \in Exporters : Cardinality(work'[y].batch) <= Limit
    BY <1>1, <1>2 DEF Typed
  <2>3. disturbed' \in BOOLEAN
    BY DEF Typed
  <2> QED BY <2>1, <2>2, <2>3 DEF Typed
<1>4. MarkedHaveFiles'
  BY <1>2 DEF Typed, MarkedHaveFiles, ExportedIsWritten
<1>5. Undisturbed'
  <2> SUFFICES ASSUME ~disturbed'
               PROVE  Alone' /\ BatchIsPending' /\ WrittenIsMarked'
    BY DEF Undisturbed
  <2>1. ~disturbed /\ \A y \in Exporters \ {x} : work[y] = Idle
    OBVIOUS
  <2>2. Alone'
    BY <1>2, <2>1 DEF Alone, Typed
  <2>3. BatchIsPending'
    BY <1>1, <1>2, <2>1 DEF Undisturbed, BatchIsPending, Typed, Pending
  <2>4. WrittenIsMarked'
    BY <1>2, <2>1 DEF Undisturbed, WrittenIsMarked, Typed, Idle
  <2> QED BY <2>2, <2>3, <2>4
<1>6. WrittenOnce'
  BY DEF WrittenOnce
<1> QED BY <1>3, <1>4, <1>5, <1>6

LEMMA ReplaceInv ==
    ASSUME Inv, NEW x \in Exporters, Replace(x)
    PROVE  Inv'
<1> USE DEF Inv, Replace
<1>1. /\ \A y \in Exporters : work'[y].batch = work[y].batch
      /\ \A y \in Exporters : work'[y].pc = IF y = x THEN "mark" ELSE work[y].pc
      /\ work' \in [Exporters -> [pc : {"idle", "file", "mark"}, batch : SUBSET Events]]
  BY DEF Typed
<1>2. Typed'
  BY <1>1 DEF Typed
<1>3. MarkedHaveFiles'
  BY <1>1 DEF MarkedHaveFiles, ExportedIsWritten
<1>4. ASSUME ~disturbed
      PROVE  /\ Alone /\ BatchIsPending /\ WrittenIsMarked
             /\ \A y \in Exporters \ {x} : work[y] = Idle
             /\ \A G \in files : \A e \in G : status[e] = "exported"
  <2>1. Alone /\ BatchIsPending /\ WrittenIsMarked
    BY <1>4 DEF Undisturbed
  <2>2. \A y \in Exporters \ {x} : work[y] = Idle
    BY <2>1 DEF Alone, Idle
  <2>3. \A y \in Exporters : work[y].pc # "mark"
    BY <2>2 DEF Idle
  <2> QED BY <2>1, <2>2, <2>3 DEF WrittenIsMarked
<1>5. Undisturbed'
  <2> SUFFICES ASSUME ~disturbed
               PROVE  Alone' /\ BatchIsPending' /\ WrittenIsMarked'
    BY DEF Undisturbed
  <2>1. Alone'
    BY <1>4 DEF Alone, Typed
  <2>2. BatchIsPending'
    BY <1>1, <1>4 DEF BatchIsPending
  <2>3. WrittenIsMarked'
    BY <1>1, <1>4 DEF WrittenIsMarked
  <2> QED BY <2>1, <2>2, <2>3
<1>6. WrittenOnce'
  <2> SUFFICES ASSUME ~disturbed, NEW F \in files', NEW G \in files', F # G
               PROVE  F \cap G = {}
    BY DEF WrittenOnce
  <2>1. \A H \in files : H \cap work[x].batch = {}
    BY <1>4 DEF BatchIsPending
  <2> QED BY <2>1 DEF WrittenOnce
<1> QED BY <1>2, <1>3, <1>5, <1>6

LEMMA MarkInv ==
    ASSUME Inv, NEW x \in Exporters, Mark(x)
    PROVE  Inv'
<1> USE DEF Inv, Mark
<1> DEFINE B == work[x].batch
<1>1. B \in SUBSET Events /\ B \in files
  BY DEF Typed, MarkedHaveFiles
<1>2. /\ status' \in [Events -> {"absent", "pending", "exported"}]
      /\ \A e \in Events : status'[e] = IF e \in B THEN "exported" ELSE status[e]
  BY DEF Typed, Exported
<1>3. /\ work' = [work EXCEPT ![x] = Idle]
      /\ work' \in [Exporters -> [pc : {"idle", "file", "mark"}, batch : SUBSET Events]]
      /\ \A y \in Exporters : work'[y] = IF y = x THEN Idle ELSE work[y]
  BY DEF Typed, Idle
<1>4. Typed'
  <2>1. Cardinality({}) = 0
    BY FS_EmptySet
  <2> QED BY <1>2, <1>3, <2>1, OutboxAssumption DEF Typed, Idle
<1>5. MarkedHaveFiles'
  BY <1>1, <1>2, <1>3 DEF MarkedHaveFiles, ExportedIsWritten, Idle
<1>6. Undisturbed'
  <2> SUFFICES ASSUME ~disturbed
               PROVE  Alone' /\ BatchIsPending' /\ WrittenIsMarked'
    BY DEF Undisturbed
  <2>1. Alone /\ BatchIsPending /\ WrittenIsMarked
    BY DEF Undisturbed
  <2>2. \A y \in Exporters \ {x} : work[y] = Idle
    BY <2>1 DEF Alone, Idle
  <2>3. \A y \in Exporters : work'[y] = Idle
    BY <1>3, <2>2
  <2>4. Alone' /\ BatchIsPending'
    BY <2>3 DEF Alone, BatchIsPending, Idle
  <2>5. WrittenIsMarked'
    BY <1>1, <1>2, <2>1, <2>2 DEF WrittenIsMarked, Typed, Idle
  <2> QED BY <2>4, <2>5
<1>7. WrittenOnce'
  BY DEF WrittenOnce
<1> QED BY <1>4, <1>5, <1>6, <1>7

LEMMA FailInv ==
    ASSUME Inv, NEW x \in Exporters, Fail(x)
    PROVE  Inv'
<1> USE DEF Inv, Fail
<1>1. Cardinality({}) = 0
  BY FS_EmptySet
<1>2. Typed'
  BY <1>1, OutboxAssumption DEF Typed, Idle
<1>3. MarkedHaveFiles'
  BY DEF Typed, MarkedHaveFiles, ExportedIsWritten, Idle
<1>4. Undisturbed' /\ WrittenOnce'
  BY DEF Undisturbed, WrittenOnce
<1> QED BY <1>2, <1>3, <1>4

LEMMA NextInv == Inv /\ [OutboxNext]_vars => Inv'
<1> SUFFICES ASSUME Inv, [OutboxNext]_vars PROVE Inv'
  OBVIOUS
<1>1. ASSUME NEW e \in Events, Capture(e) PROVE Inv'
  <2>1. Enqueue(e)
    BY <1>1 DEF Capture, Enqueue, Inv, Typed
  <2> QED BY <2>1, InsertInv
<1>2. ASSUME NEW e \in Events, Enqueue(e) PROVE Inv'
  BY <1>2, InsertInv
<1>3. ASSUME NEW x \in Exporters, Select(x) PROVE Inv'
  BY <1>3, SelectInv
<1>4. ASSUME NEW x \in Exporters, Replace(x) PROVE Inv'
  BY <1>4, ReplaceInv
<1>5. ASSUME NEW x \in Exporters, Mark(x) PROVE Inv'
  BY <1>5, MarkInv
<1>6. ASSUME NEW x \in Exporters, Fail(x) PROVE Inv'
  BY <1>6, FailInv
<1>7. CASE UNCHANGED vars
  BY <1>7 DEF vars, Inv, Typed, MarkedHaveFiles, ExportedIsWritten, Undisturbed, Alone,
              BatchIsPending, WrittenIsMarked, WrittenOnce
<1> QED BY <1>1, <1>2, <1>3, <1>4, <1>5, <1>6, <1>7 DEF OutboxNext, Export

\* The inductive invariant holds in every state of every behaviour of the outbox.
THEOREM OutboxInvariant == Spec => []Inv
BY InitInv, NextInv, PTL DEF Spec

\* Every variable has its type, and no batch exceeds the limit of export().
THEOREM OutboxTypeCorrect == Spec => []TypeOK
<1>1. Inv => TypeOK
  BY DEF Inv, Typed, TypeOK
<1> QED BY <1>1, OutboxInvariant, PTL

\* An event marked exported is in a file, whoever exports at once and whatever fails.
THEOREM ExportedWritten == Spec => []ExportedIsWritten
<1>1. Inv => ExportedIsWritten
  BY DEF Inv, MarkedHaveFiles
<1> QED BY <1>1, OutboxInvariant, PTL

\* Undisturbed, no event is written to two files.
THEOREM EachWrittenOnce == Spec => []WrittenOnce
<1>1. Inv => WrittenOnce
  BY DEF Inv
<1> QED BY <1>1, OutboxInvariant, PTL

-----------------------------------------------------------------------------
(* The refinement of AtLeastOnce. *)

\* What an exporter holds was captured.
Batched == \A x \in Exporters : work[x].batch \subseteq Accepted

\* A step of what the outbox promises, or none.
Kept == [Promise!DeliveryNext]_<<Accepted, Written, Settled>>

LEMMA InsertKept ==
    ASSUME Inv, Batched, NEW e \in Events, Capture(e) \/ Enqueue(e)
    PROVE  Batched' /\ Kept
<1>1. status \in [Events -> {"absent", "pending", "exported"}] /\ UNCHANGED <<files, work>>
  BY DEF Capture, Enqueue, Inv, Typed
<1>2. CASE status[e] = "absent"
  <2>1. status' = [status EXCEPT ![e] = "pending"]
    BY <1>2 DEF Capture, Enqueue
  <2>2. Accepted' = Accepted \cup {e} /\ Settled' = Settled /\ e \notin Accepted
    BY <1>1, <1>2, <2>1 DEF Accepted, Settled
  <2>3. Promise!Accept(e)
    BY <1>1, <2>2 DEF Promise!Accept, Written
  <2> QED BY <1>1, <2>2, <2>3 DEF Batched, Kept, Promise!DeliveryNext
<1>3. CASE status[e] # "absent"
  <2>1. status' = status
    BY <1>1, <1>3 DEF Capture, Enqueue
  <2> QED BY <1>1, <2>1 DEF Batched, Kept, Accepted, Written, Settled
<1> QED BY <1>2, <1>3

LEMMA SelectKept ==
    ASSUME Inv, Batched, NEW x \in Exporters, Select(x)
    PROVE  Batched' /\ Kept
<1>1. UNCHANGED <<status, files>> /\ work' = [work EXCEPT ![x] = [pc |-> "file", batch |-> Oldest(Pending)]]
  BY DEF Select
<1>2. Oldest(Pending) \subseteq Accepted
  BY DEF Oldest, Pending, Accepted
<1>3. Accepted' = Accepted /\ Written' = Written /\ Settled' = Settled
  BY <1>1 DEF Accepted, Written, Settled
<1>4. Batched'
  BY <1>1, <1>2, <1>3 DEF Batched, Inv, Typed
<1> QED BY <1>3, <1>4 DEF Kept

LEMMA ReplaceKept ==
    ASSUME Inv, Batched, NEW x \in Exporters, Replace(x)
    PROVE  Batched' /\ Kept
<1> DEFINE B == work[x].batch
<1>1. status' = status /\ files' = files \cup {B} /\ work' = [work EXCEPT ![x].pc = "mark"]
  BY DEF Replace
<1>2. Accepted' = Accepted /\ Settled' = Settled
  BY <1>1 DEF Accepted, Settled
<1>3. Batched'
  BY <1>1, <1>2 DEF Batched, Inv, Typed
<1>4. B \subseteq Accepted /\ B \in SUBSET Events
  BY DEF Batched, Accepted
<1> HIDE DEF B
<1>5. Written' = Written \cup B
  BY <1>1 DEF Written
<1>6. Promise!Write(B)
  BY <1>2, <1>4, <1>5 DEF Promise!Write
<1> QED BY <1>3, <1>4, <1>6 DEF Kept, Promise!DeliveryNext

LEMMA MarkKept ==
    ASSUME Inv, Batched, NEW x \in Exporters, Mark(x)
    PROVE  Batched' /\ Kept
<1> DEFINE B == work[x].batch
<1>1. /\ work[x].pc = "mark" /\ status' = Exported(B) /\ files' = files
      /\ work' = [work EXCEPT ![x] = Idle]
  BY DEF Mark
<1>2. B \subseteq Accepted /\ B \in SUBSET Events /\ B \in files
  BY <1>1 DEF Batched, Accepted, Inv, MarkedHaveFiles
<1> HIDE DEF B
<1>3. Accepted' = Accepted /\ Settled' = Settled \cup B
  BY <1>1, <1>2 DEF Accepted, Settled, Exported
<1>4. B \subseteq Written /\ Written' = Written
  BY <1>1, <1>2 DEF Written
<1>5. Promise!Settle(B)
  BY <1>3, <1>4 DEF Promise!Settle
<1>6. Batched'
  BY <1>1, <1>3 DEF Batched, Idle, Inv, Typed
<1> QED BY <1>2, <1>5, <1>6 DEF Kept, Promise!DeliveryNext

LEMMA FailKept ==
    ASSUME Inv, Batched, NEW x \in Exporters, Fail(x)
    PROVE  Batched' /\ Kept
<1>1. UNCHANGED <<status, files>> /\ work' = [work EXCEPT ![x] = Idle]
  BY DEF Fail
<1>2. Accepted' = Accepted /\ Written' = Written /\ Settled' = Settled
  BY <1>1 DEF Accepted, Written, Settled
<1>3. Batched'
  BY <1>1, <1>2 DEF Batched, Idle, Inv, Typed
<1> QED BY <1>2, <1>3 DEF Kept

\* The outbox delivers at least once, whoever exports and whatever fails: only what was
\* captured is written, only what was written is marked, and both for good.
THEOREM AtLeastOnceCorrect == Spec => ImplementsAtLeastOnce
<1>1. OutboxInit => Inv /\ Batched
  <2>1. OutboxInit => Batched
    BY DEF OutboxInit, Batched, Idle
  <2> QED BY <2>1, InitInv
<1>2. OutboxInit => Promise!DeliveryInit
  BY DEF OutboxInit, Promise!DeliveryInit, Accepted, Written, Settled
<1>3. Inv /\ Batched /\ [OutboxNext]_vars => Inv' /\ Batched' /\ Kept
  <2> SUFFICES ASSUME Inv, Batched, [OutboxNext]_vars PROVE Batched' /\ Kept
    BY NextInv
  <2>1. ASSUME NEW e \in Events, Capture(e) \/ Enqueue(e) PROVE Batched' /\ Kept
    BY <2>1, InsertKept
  <2>2. ASSUME NEW x \in Exporters, Select(x) PROVE Batched' /\ Kept
    BY <2>2, SelectKept
  <2>3. ASSUME NEW x \in Exporters, Replace(x) PROVE Batched' /\ Kept
    BY <2>3, ReplaceKept
  <2>4. ASSUME NEW x \in Exporters, Mark(x) PROVE Batched' /\ Kept
    BY <2>4, MarkKept
  <2>5. ASSUME NEW x \in Exporters, Fail(x) PROVE Batched' /\ Kept
    BY <2>5, FailKept
  <2>6. CASE UNCHANGED vars
    BY <2>6 DEF vars, Batched, Kept, Accepted, Written, Settled
  <2> QED BY <2>1, <2>2, <2>3, <2>4, <2>5, <2>6 DEF OutboxNext, Export
<1>4. Kept <=> [Promise!DeliveryNext]_<<Accepted, Written, Settled>>
  BY DEF Kept
<1> QED BY <1>1, <1>2, <1>3, <1>4, PTL DEF Spec, ImplementsAtLeastOnce, Promise!DeliverySpec
=============================================================================
