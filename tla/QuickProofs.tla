---------------------------- MODULE QuickProofs ----------------------------
(***************************************************************************)
(* What holds of QuickInitialization for every set of initializations and  *)
(* releases, every bound and either retry budget.                          *)
(*                                                                         *)
(* The invariant follows one operation: while a read is in progress, what  *)
(* the reads before it have established; and, until System State is read,  *)
(* that a release never yet named by both GitHub and Notion is still the   *)
(* one at HEAD and not the published one, so that no promotion can pass.   *)
(***************************************************************************)
EXTENDS QuickInitialization, TLAPS

\* The reads completed before a read, on a path.
Prior(path, read) ==
    LET documents == IF path = "warm" THEN {"authority"} ELSE {"authority", "index", "manifest"}
    IN  CASE read = "authority" -> {}
          [] read = "index"     -> {"authority"}
          [] read = "manifest"  -> {"authority", "index"}
          [] read = "system"    -> documents
          [] read = "inventory" -> documents \cup {"system"}
          [] OTHER              -> documents \cup {"system", "inventory"}

\* An operation in progress has made the reads before this one, and perhaps this one in
\* a nested call; what they named agrees.
SoundRead(o) ==
    /\ o.attempt > 0 /\ o.reading = o.state /\ ~o.rejected
    /\ Prior(o.path, o.reading) \subseteq o.done
    /\ o.done \subseteq Prior(o.path, o.reading) \cup {o.reading}
    /\ o.reading \in {"authority", "index", "manifest"} => o.path # "warm"
    /\ o.reading # "authority" => o.live \in Versions
    /\ o.reading \notin {"authority", "index"} => o.docs = o.live
    /\ o.reading \in {"inventory", "liveness"} => o.stated = o.live /\ o.live \in o.active

SoundReady(o) ==
    /\ o.attempt = 0
    /\ ~o.rejected /\ o.live \in Versions /\ o.docs = o.live /\ o.stated = o.live
    /\ o.live \in o.active
    /\ o.done = IF o.path = "warm" THEN Reads \ {"index", "manifest"} ELSE Reads

\* h and s are the releases at HEAD and in System State.
Sound(o, h, s) ==
    /\ o.state = "not_started" =>
         o.attempt = 0 /\ o.nested = 0 /\ o.done = {} /\ ~o.rejected /\ o.path = "cold"
         /\ o.reading = "authority"
    /\ o.nested > 0 => o.attempt > 0
    /\ o.attempt > 0 /\ o.reading # "authority" => o.live \in Versions
    /\ o.state \in Reads => SoundRead(o)
    /\ o.state \in {"ready", "ready_with_warnings"} => SoundReady(o)
    /\ o.state \in Reads /\ h = s => h \in o.active
    /\ o.state \in Reads /\ o.reading # "authority" /\ o.live \notin o.active
         => h = o.live /\ s # o.live

Inv == TypeOK /\ \A p \in Procs : Sound(op[p], head, published)

-----------------------------------------------------------------------------
(* The breaker's operators. *)

LEMMA BudgetFacts == RetryBudget \in {0, 1} /\ ReadBudget = 6
BY InitializationAssumption DEF ReadBudget

LEMMA StateFacts ==
    /\ Reads \cap Terminal = {} /\ "not_started" \notin Reads \cup Terminal
    /\ {"ready", "ready_with_warnings", "blocked"} = Terminal
BY DEF Reads, Terminal

LEMMA NewOperationType == NewOperation \in OperationRecords
BY BudgetFacts DEF NewOperation, OperationRecords, Reads, Terminal

\* A blocked operation is well typed, and nothing more is claimed of it.
LEMMA BlockedFacts ==
    ASSUME NEW o \in OperationRecords, NEW h, NEW s, o.nested = 0
    PROVE  /\ Blocked(o) \in OperationRecords
           /\ Blocked(o).state = "blocked" /\ Blocked(o).reads = o.reads
           /\ Blocked(o).attempt = 0 /\ Blocked(o).nested = 0
           /\ Sound(Blocked(o), h, s)
<1>1. Blocked(o) \in OperationRecords
  <2> DEFINE end == IF o.live \in Undated THEN "raised" ELSE "blocked"
  <2>1. 0 \in 0..(RetryBudget + 1)
    BY BudgetFacts
  <2>2. end \in Terminal \cup {"none", "raised"} /\ "blocked" \in Terminal
    BY DEF Terminal
  <2>3. Blocked(o) = [o EXCEPT !.state = "blocked", !.attempt = 0, !.outcome = end]
    BY DEF Blocked
  <2> HIDE DEF end
  <2> QED BY ZenonT(40), <2>1, <2>2, <2>3 DEF OperationRecords
<1>2. /\ Blocked(o).state = "blocked" /\ Blocked(o).reads = o.reads
      /\ Blocked(o).attempt = 0 /\ Blocked(o).nested = 0
  BY DEF Blocked, OperationRecords
<1> QED BY <1>1, <1>2, StateFacts DEF Sound

LEMMA DenyFacts ==
    ASSUME NEW o \in OperationRecords
    PROVE  /\ Deny(o) \in OperationRecords
           /\ Deny(o).state = "blocked" /\ Deny(o).reads = o.reads
           /\ Deny(o).nested = o.nested /\ Deny(o).attempt = o.attempt
BY DEF Deny, OperationRecords, Terminal

\* The orchestration's next call: made within the budget, or the operation is blocked.
LEMMA IssueFacts ==
    ASSUME NEW o \in OperationRecords, NEW attempt \in 1..(RetryBudget + 1),
           o.nested = 0, o.state # "blocked"
    PROVE  /\ Issue(o, attempt) \in OperationRecords
           /\ Issue(o, attempt).state \in {o.state, "blocked"}
           /\ Issue(o, attempt).nested = 0
           /\ Issue(o, attempt).state = "blocked" => Issue(o, attempt).attempt = 0
           /\ Issue(o, attempt).state # "blocked" =>
                Issue(o, attempt) = [o EXCEPT !.reads = @ + 1, !.attempt = attempt]
<1>1. CASE WithinBudget(o)
  <2>1. Issue(o, attempt) = [o EXCEPT !.reads = @ + 1, !.attempt = attempt]
    BY <1>1 DEF Issue
  <2>2. o.reads + 1 \in 0..(ReadBudget + RetryBudget) /\ attempt \in 0..(RetryBudget + 1)
    BY <1>1, BudgetFacts DEF WithinBudget, OperationRecords
  <2>3. [o EXCEPT !.reads = @ + 1, !.attempt = attempt] \in OperationRecords
    BY ZenonT(40), <2>2 DEF OperationRecords
  <2> QED BY <2>1, <2>3 DEF OperationRecords
<1>2. CASE ~WithinBudget(o)
  <2>1. Issue(o, attempt) = Blocked(Deny(o))
    BY <1>2 DEF Issue
  <2>2. Blocked(Deny(o)).nested = 0
    BY DenyFacts DEF Blocked, OperationRecords
  <2> QED BY <2>1, <2>2, DenyFacts, BlockedFacts
<1> QED BY <1>1, <1>2

LEMMA ReadNextFacts ==
    ASSUME NEW o \in OperationRecords, NEW read \in Reads, o.nested = 0
    PROVE  LET next == ReadNext(o, read)
           IN  /\ next \in OperationRecords
               /\ next.state \in {read, "blocked"} /\ next.nested = 0
               /\ next.state = "blocked" => next.attempt = 0
               /\ o.state \in Terminal => next.state = "blocked" /\ next.reads = o.reads
               /\ next.state # "blocked" =>
                    next = [o EXCEPT !.state = read, !.reading = read,
                                     !.reads = @ + 1, !.attempt = 1]
<1>1. CASE o.state \in Terminal
  <2>1. ReadNext(o, read) = Blocked(o)
    BY <1>1 DEF ReadNext
  <2> QED BY <2>1, BlockedFacts
<1>2. CASE o.state \notin Terminal
  <2> DEFINE called == [o EXCEPT !.state = read, !.reading = read]
  <2>1. ReadNext(o, read) = Issue(called, 1)
    BY <1>2 DEF ReadNext
  <2>2. /\ called \in OperationRecords /\ called.state = read /\ called.nested = 0
        /\ called.state # "blocked"
    <3>1. read # "blocked"
      BY StateFacts
    <3> QED BY ZenonT(40), <3>1 DEF OperationRecords
  <2>3. 1 \in 1..(RetryBudget + 1)
    BY BudgetFacts
  <2> HIDE DEF called
  <2>4. /\ Issue(called, 1) \in OperationRecords
        /\ Issue(called, 1).state \in {read, "blocked"}
        /\ Issue(called, 1).nested = 0
        /\ Issue(called, 1).state = "blocked" => Issue(called, 1).attempt = 0
        /\ Issue(called, 1).state # "blocked" =>
             Issue(called, 1) = [called EXCEPT !.reads = @ + 1, !.attempt = 1]
    BY <2>2, <2>3, IssueFacts
  <2>5. [called EXCEPT !.reads = @ + 1, !.attempt = 1]
        = [o EXCEPT !.state = read, !.reading = read, !.reads = @ + 1, !.attempt = 1]
    BY DEF called, OperationRecords
  <2> QED BY <1>2, <2>1, <2>4, <2>5
<1> QED BY <1>1, <1>2

-----------------------------------------------------------------------------
(* The invariant. *)

\* A blocked operation is sound.
LEMMA BlockedIsSound ==
    ASSUME NEW o \in OperationRecords, NEW h, NEW s, o.state = "blocked", o.nested = 0, o.attempt = 0
    PROVE  Sound(o, h, s)
BY StateFacts DEF Sound

\* A step of one operation preserves the invariant when what it becomes is sound.
LEMMA OneMoves ==
    ASSUME Inv, NEW p \in Procs, NEW o \in OperationRecords, Sound(o, head, published),
           op' = [op EXCEPT ![p] = o],
           UNCHANGED <<head, published, promotions>>,
           cache' \in Snapshots, probes' \in 0..MaxProbes
    PROVE  Inv'
<1>1. op \in [Procs -> OperationRecords]
  BY DEF Inv, TypeOK
<1>2. TypeOK'
  BY <1>1 DEF Inv, TypeOK
<1>3. \A q \in Procs : op'[q] = IF q = p THEN o ELSE op[q]
  BY <1>1
<1> QED BY <1>2, <1>3 DEF Inv

LEMMA InitInv == Init => Inv
<1> SUFFICES ASSUME Init PROVE Inv
  OBVIOUS
<1>1. TypeOK
  BY NewOperationType, InitializationAssumption DEF Init, TypeOK
<1>2. Sound(NewOperation, head, published)
  BY StateFacts DEF Sound, NewOperation
<1> QED BY <1>1, <1>2 DEF Init, Inv

\* What a waiting operation is known to be.
LEMMA WaitingFacts ==
    ASSUME Inv, NEW p \in Procs, Waits(p)
    PROVE  /\ op[p] \in OperationRecords /\ op[p].nested = 0 /\ op[p].attempt > 0
           /\ op[p].reading \in Reads
           /\ op[p].state \in Reads \cup {"blocked"}
           /\ op[p].state # "blocked" => SoundRead(op[p])
           /\ op[p].reading # "authority" => op[p].live \in Versions
<1>1. op[p] \in OperationRecords /\ Sound(op[p], head, published)
  BY DEF Inv, TypeOK
<1>2. op[p].attempt > 0 /\ op[p].nested = 0
  BY DEF Waits
<1>3. op[p].state # "not_started"
  BY <1>1, <1>2 DEF Sound
<1>4. op[p].state \notin {"ready", "ready_with_warnings"}
  BY <1>1, <1>2 DEF Sound, SoundReady, OperationRecords
<1> QED BY <1>1, <1>2, <1>3, <1>4, StateFacts DEF Sound, OperationRecords

\* An answered read: well typed, nobody waiting.
LEMMA AnsweredFacts ==
    ASSUME Inv, NEW p \in Procs, NEW read \in Reads, Waits(p)
    PROVE  /\ Answered(p, read) \in OperationRecords
           /\ Answered(p, read) = [op[p] EXCEPT !.done = @ \cup {read}, !.attempt = 0]
           /\ Answered(p, read).nested = 0
           /\ Answered(p, read).state = op[p].state
<1>1. op[p] \in OperationRecords
  BY DEF Inv, TypeOK
<1>2. 0 \in 0..(RetryBudget + 1)
  BY BudgetFacts
<1>3. op[p].nested = 0
  BY DEF Waits
<1> QED BY ZenonT(40), <1>1, <1>2, <1>3 DEF Answered, OperationRecords

\* An operation may go on to a read when those before it are done and agree.
MayGoOn(o, read) ==
    /\ ~o.rejected /\ o.live \in Versions
    /\ o.done = Prior(o.path, read)
    /\ read \in {"index", "manifest"} => o.path # "warm"
    /\ read # "index" => o.docs = o.live
    /\ read \in {"inventory", "liveness"} => o.stated = o.live /\ o.live \in o.active
    /\ head = published => head \in o.active
    /\ o.live \notin o.active => head = o.live /\ published # o.live

LEMMA GoesOn ==
    ASSUME Inv, NEW p \in Procs, NEW o \in OperationRecords, NEW read \in Reads \ {"authority"},
           o.nested = 0, op' = [op EXCEPT ![p] = ReadNext(o, read)],
           o.state \notin Terminal => MayGoOn(o, read),
           UNCHANGED <<head, published, promotions>>,
           cache' \in Snapshots, probes' \in 0..MaxProbes
    PROVE  Inv'
<1> DEFINE next == ReadNext(o, read)
<1>1. /\ next \in OperationRecords /\ next.state \in {read, "blocked"} /\ next.nested = 0
      /\ next.state = "blocked" => next.attempt = 0
      /\ o.state \in Terminal => next.state = "blocked"
      /\ next.state # "blocked" =>
           next = [o EXCEPT !.state = read, !.reading = read, !.reads = @ + 1, !.attempt = 1]
  BY ReadNextFacts
<1>2. ASSUME next.state # "blocked" PROVE Sound(next, head, published)
  <2>1. MayGoOn(o, read)
    BY <1>1, <1>2
  <2>2. /\ next.state = read /\ next.reading = read /\ next.attempt = 1 /\ next.nested = 0
        /\ next.path = o.path /\ next.done = o.done /\ next.live = o.live /\ next.docs = o.docs
        /\ next.stated = o.stated /\ next.active = o.active /\ next.rejected = o.rejected
    <3>1. next = [o EXCEPT !.state = read, !.reading = read, !.reads = @ + 1, !.attempt = 1]
      BY <1>1, <1>2
    <3>2. next.nested = 0
      BY <1>1
    <3> HIDE DEF next
    <3> QED BY <3>1, <3>2 DEF OperationRecords
  <2> HIDE DEF next
  <2>3. SoundRead(next)
    BY <2>1, <2>2 DEF MayGoOn, SoundRead
  <2> QED BY <2>1, <2>2, <2>3, StateFacts DEF Sound, MayGoOn
<1>3. Sound(next, head, published)
  <2> HIDE DEF next
  <2> QED BY <1>1, <1>2, BlockedIsSound
<1> HIDE DEF next
<1> QED BY <1>1, <1>3, OneMoves DEF next

\* The same for an operation that is blocked.
LEMMA IsBlocked ==
    ASSUME Inv, NEW p \in Procs, NEW o \in OperationRecords,
           o.nested = 0, op' = [op EXCEPT ![p] = Blocked(o)],
           UNCHANGED <<head, published, promotions>>,
           cache' \in Snapshots, probes' \in 0..MaxProbes
    PROVE  Inv'
<1>1. Blocked(o) \in OperationRecords /\ Sound(Blocked(o), head, published)
  BY BlockedFacts
<1> QED BY <1>1, OneMoves

\* What an answer may rely on.
LEMMA BoundsFacts ==
    ASSUME Inv
    PROVE  /\ head \in Versions /\ published \in Versions /\ cache \in Snapshots
           /\ promotions \in 0..MaxPromotions /\ probes \in 0..MaxProbes
           /\ op \in [Procs -> OperationRecords]
BY DEF Inv, TypeOK

-----------------------------------------------------------------------------
(* The answers. *)

\* An answered read of an operation that is not blocked.
LEMMA AnsweredReadFacts ==
    ASSUME Inv, NEW p \in Procs, NEW read \in Reads, Answering(p, read), op[p].state \notin Terminal
    PROVE  LET o == Answered(p, read)
           IN  /\ ~o.rejected
               /\ o.done = Prior(o.path, read) \cup {read}
               /\ read \in {"authority", "index", "manifest"} => o.path # "warm"
               /\ read # "authority" => o.live \in Versions
               /\ read \notin {"authority", "index"} => o.docs = o.live
               /\ read \in {"inventory", "liveness"} => o.stated = o.live /\ o.live \in o.active
               /\ head = published => head \in o.active
               /\ read # "authority" /\ o.live \notin o.active => head = o.live /\ published # o.live
<1>1. Waits(p) /\ op[p].reading = read
  BY DEF Answering
<1>2. op[p] \in OperationRecords /\ SoundRead(op[p]) /\ op[p].state \in Reads
  BY <1>1, WaitingFacts, StateFacts
<1>3. Sound(op[p], head, published)
  BY DEF Inv
<1> DEFINE o == Answered(p, read)
<1>4. /\ o.rejected = op[p].rejected /\ o.path = op[p].path /\ o.live = op[p].live
      /\ o.docs = op[p].docs /\ o.stated = op[p].stated /\ o.active = op[p].active
      /\ o.done = op[p].done \cup {read}
  BY <1>2 DEF Answered, OperationRecords
<1> HIDE DEF o
<1>5. o.done = Prior(o.path, read) \cup {read}
  BY <1>1, <1>2, <1>4 DEF SoundRead
<1>6. /\ head = published => head \in o.active
      /\ read # "authority" /\ o.live \notin o.active => head = o.live /\ published # o.live
  BY <1>1, <1>2, <1>3, <1>4 DEF Sound
<1> QED BY <1>1, <1>2, <1>4, <1>5, <1>6 DEF SoundRead, o

LEMMA AuthorityReadInv == ASSUME Inv, NEW p \in Procs, AuthorityRead(p) PROVE Inv'
<1> DEFINE a == Answered(p, "authority")
           o == [a EXCEPT !.live = head]
           warmed == [o EXCEPT !.path = "warm", !.docs = cache.of]
<1>1. Answering(p, "authority") /\ Waits(p) /\ "authority" \in Reads
      /\ "index" \in Reads \ {"authority"} /\ "system" \in Reads \ {"authority"}
  BY DEF AuthorityRead, Answering, Reads
<1>2. a \in OperationRecords /\ a.nested = 0 /\ a.state = op[p].state
  BY <1>1, AnsweredFacts
<1>3. op[p].state \notin Terminal =>
        /\ ~a.rejected /\ a.done = {"authority"} /\ a.path # "warm"
        /\ head = published => head \in a.active
  BY <1>1, AnsweredReadFacts DEF Prior
<1>4. UNCHANGED <<head, published, promotions>> /\ cache' \in Snapshots /\ probes' \in 0..MaxProbes
  BY BoundsFacts DEF AuthorityRead
<1>5. op' = [op EXCEPT ![p] =
             IF o.state \notin Terminal /\ Usable(o)
               THEN ReadNext(warmed, "system")
               ELSE ReadNext(IF o.state \in Terminal THEN o ELSE FellBack(o), "index")]
  BY DEF AuthorityRead
<1> HIDE DEF a
<1>6. /\ o \in OperationRecords /\ o.nested = 0 /\ o.state = a.state /\ o.live = head
      /\ o.done = a.done /\ o.path = a.path /\ o.rejected = a.rejected /\ o.active = a.active
  BY <1>2, BoundsFacts DEF OperationRecords
<1> HIDE DEF o
<1>7. CASE o.state \in Terminal
  BY <1>1, <1>4, <1>5, <1>6, <1>7, GoesOn
<1>8. CASE o.state \notin Terminal /\ Usable(o)
  <2>1. cache.of = head
    BY <1>6, <1>8 DEF Usable
  <2>2. /\ warmed \in OperationRecords /\ warmed.nested = 0 /\ warmed.state = o.state
        /\ warmed.live = head /\ warmed.docs = head /\ warmed.path = "warm"
        /\ warmed.done = o.done /\ warmed.rejected = o.rejected /\ warmed.active = o.active
    BY ZenonT(40), <1>6, <2>1, BoundsFacts DEF OperationRecords
  <2> HIDE DEF warmed
  <2>3. MayGoOn(warmed, "system")
    BY <1>2, <1>3, <1>6, <1>8, <2>2, BoundsFacts DEF MayGoOn, Prior
  <2> QED BY <1>1, <1>4, <1>5, <1>8, <2>2, <2>3, GoesOn
<1>9. CASE o.state \notin Terminal /\ ~Usable(o)
  <2> DEFINE back == FellBack(o)
  <2>1. /\ back \in OperationRecords /\ back.nested = 0 /\ back.state = o.state
        /\ back.live = head /\ back.path # "warm"
        /\ back.done = o.done /\ back.rejected = o.rejected /\ back.active = o.active
    <3>1. (~(cache.intact /\ cache.of = o.live)) \in BOOLEAN
      OBVIOUS
    <3>2. \A w \in BOOLEAN :
            [o EXCEPT !.path = "warm_fallback_to_cold", !.warned = w] \in OperationRecords
      BY ZenonT(40), <1>6 DEF OperationRecords
    <3>3. [o EXCEPT !.path = "warm_fallback_to_cold",
                    !.warned = ~(cache.intact /\ cache.of = o.live)] \in OperationRecords
      BY <3>1, <3>2
    <3> QED BY <1>2, <1>3, <1>6, <1>9, <3>3 DEF FellBack, OperationRecords
  <2> HIDE DEF back
  <2>2. MayGoOn(back, "index")
    BY <1>2, <1>3, <1>6, <1>9, <2>1, BoundsFacts DEF MayGoOn, Prior
  <2> QED BY <1>1, <1>4, <1>5, <1>9, <2>1, <2>2, GoesOn DEF back
<1> QED BY <1>7, <1>8, <1>9

LEMMA IndexReadInv == ASSUME Inv, NEW p \in Procs, IndexRead(p) PROVE Inv'
<1> DEFINE o == Answered(p, "index")
           found == [o EXCEPT !.docs = head]
<1>1. Answering(p, "index") /\ Waits(p) /\ "index" \in Reads /\ "manifest" \in Reads \ {"authority"}
  BY DEF IndexRead, Answering, Reads
<1>2. o \in OperationRecords /\ o.nested = 0 /\ o.state = op[p].state
  BY <1>1, AnsweredFacts
<1>3. op[p].state \notin Terminal =>
        /\ ~o.rejected /\ o.done = {"authority", "index"} /\ o.path # "warm"
        /\ o.live \in Versions
        /\ head = published => head \in o.active
        /\ o.live \notin o.active => head = o.live /\ published # o.live
  BY <1>1, AnsweredReadFacts DEF Prior
<1>4. UNCHANGED <<head, published, promotions>> /\ cache' \in Snapshots /\ probes' \in 0..MaxProbes
  BY BoundsFacts DEF IndexRead
<1>5. op' = [op EXCEPT ![p] = IF IndexAgrees(o) THEN ReadNext(found, "manifest") ELSE Blocked(o)]
  BY DEF IndexRead
<1> HIDE DEF o
<1>6. CASE ~IndexAgrees(o)
  BY <1>2, <1>4, <1>5, <1>6, IsBlocked
<1>7. CASE IndexAgrees(o)
  <2>1. /\ found \in OperationRecords /\ found.nested = 0 /\ found.state = o.state
        /\ found.live = o.live /\ found.docs = head /\ found.path = o.path
        /\ found.done = o.done /\ found.rejected = o.rejected /\ found.active = o.active
    BY <1>2, BoundsFacts DEF OperationRecords
  <2>2. head = o.live
    BY <1>7 DEF IndexAgrees
  <2> HIDE DEF found
  <2>3. o.state \notin Terminal => MayGoOn(found, "manifest")
    BY <1>2, <1>3, <2>1, <2>2 DEF MayGoOn, Prior
  <2> QED BY <1>1, <1>4, <1>5, <1>7, <2>1, <2>3, GoesOn
<1> QED BY <1>6, <1>7

LEMMA ManifestReadInv == ASSUME Inv, NEW p \in Procs, ManifestRead(p) PROVE Inv'
<1> DEFINE o == Answered(p, "manifest")
<1>0. o.live \in Versions
  <2>1. op[p] \in OperationRecords /\ op[p].live \in Versions
    BY WaitingFacts DEF ManifestRead, Answering
  <2> QED BY <2>1 DEF Answered, OperationRecords
<1>1. /\ Answering(p, "manifest") /\ Waits(p)
      /\ "manifest" \in Reads /\ "system" \in Reads \ {"authority"}
  BY DEF ManifestRead, Answering, Reads
<1>2. o \in OperationRecords /\ o.nested = 0 /\ o.state = op[p].state
  BY <1>1, AnsweredFacts
<1>3. op[p].state \notin Terminal =>
        /\ ~o.rejected /\ o.done = {"authority", "index", "manifest"} /\ o.path # "warm"
        /\ o.live \in Versions /\ o.docs = o.live
        /\ head = published => head \in o.active
        /\ o.live \notin o.active => head = o.live /\ published # o.live
  BY <1>1, AnsweredReadFacts DEF Prior
<1>4. PICK stored \in BOOLEAN :
        /\ cache' = IF stored THEN [of |-> o.live, intact |-> TRUE, fresh |-> TRUE] ELSE cache
        /\ op' = [op EXCEPT ![p] =
             ReadNext([o EXCEPT !.warned = @ \/ (o.warm /\ ~stored)], "system")]
  BY DEF ManifestRead
<1>5. UNCHANGED <<head, published, promotions, probes>>
  BY DEF ManifestRead
<1> DEFINE kept == [o EXCEPT !.warned = @ \/ (o.warm /\ ~stored)]
<1> HIDE DEF o
<1>6. cache' \in Snapshots
  BY <1>0, <1>4, BoundsFacts DEF Snapshots
<1>7. kept \in OperationRecords
  <2>1. (o.warned \/ (o.warm /\ ~stored)) \in BOOLEAN
    OBVIOUS
  <2>2. \A w \in BOOLEAN : [o EXCEPT !.warned = w] \in OperationRecords
    BY <1>2 DEF OperationRecords
  <2>3. kept = [o EXCEPT !.warned = o.warned \/ (o.warm /\ ~stored)]
    OBVIOUS
  <2> QED BY <2>1, <2>2, <2>3
<1>8. /\ kept.nested = 0 /\ kept.state = o.state /\ kept.live = o.live /\ kept.docs = o.docs
      /\ kept.path = o.path /\ kept.done = o.done /\ kept.rejected = o.rejected
      /\ kept.active = o.active
  BY <1>2 DEF OperationRecords
<1> HIDE DEF kept
<1>9. o.state \notin Terminal => MayGoOn(kept, "system")
  BY <1>2, <1>3, <1>8 DEF MayGoOn, Prior
<1>10. op' = [op EXCEPT ![p] = ReadNext(kept, "system")]
  BY <1>4 DEF kept
<1> QED BY <1>1, <1>2, <1>5, <1>6, <1>7, <1>8, <1>9, <1>10, BoundsFacts, GoesOn

LEMMA SystemStateReadInv == ASSUME Inv, NEW p \in Procs, SystemStateRead(p) PROVE Inv'
<1> DEFINE a == Answered(p, "system")
           o == [a EXCEPT !.stated = published]
<1>1. /\ Answering(p, "system") /\ Waits(p)
      /\ "system" \in Reads /\ "inventory" \in Reads \ {"authority"}
  BY DEF SystemStateRead, Answering, Reads
<1>2. a \in OperationRecords /\ a.nested = 0 /\ a.state = op[p].state
  BY <1>1, AnsweredFacts
<1>3. op[p].state \notin Terminal =>
        /\ ~a.rejected /\ a.done = Prior(a.path, "inventory")
        /\ a.live \in Versions /\ a.docs = a.live
        /\ head = published => head \in a.active
        /\ a.live \notin a.active => head = a.live /\ published # a.live
  BY <1>1, AnsweredReadFacts DEF Prior
<1>4. UNCHANGED <<head, published, promotions>> /\ cache' \in Snapshots /\ probes' \in 0..MaxProbes
  BY BoundsFacts DEF SystemStateRead
<1>5. op' = [op EXCEPT ![p] = IF StateAgrees(o) THEN ReadNext(o, "inventory") ELSE Blocked(o)]
  BY DEF SystemStateRead
<1> HIDE DEF a
<1>6. /\ o \in OperationRecords /\ o.nested = 0 /\ o.state = a.state /\ o.live = a.live
      /\ o.docs = a.docs /\ o.done = a.done /\ o.path = a.path /\ o.rejected = a.rejected
      /\ o.active = a.active /\ o.stated = published
  BY <1>2, BoundsFacts DEF OperationRecords
<1> HIDE DEF o
<1>7. CASE ~StateAgrees(o)
  BY <1>4, <1>5, <1>6, <1>7, IsBlocked
<1>8. CASE StateAgrees(o)
  <2>1. o.stated = o.live /\ published = o.live
    BY <1>6, <1>8 DEF StateAgrees
  <2>2. o.state \notin Terminal => MayGoOn(o, "inventory")
    BY <1>2, <1>3, <1>6, <2>1 DEF MayGoOn
  <2> QED BY <1>1, <1>4, <1>5, <1>6, <1>8, <2>2, GoesOn
<1> QED BY <1>7, <1>8

LEMMA InventoryReadInv == ASSUME Inv, NEW p \in Procs, InventoryRead(p) PROVE Inv'
<1> DEFINE o == Answered(p, "inventory")
<1>1. /\ Answering(p, "inventory") /\ Waits(p)
      /\ "inventory" \in Reads /\ "liveness" \in Reads \ {"authority"}
  BY DEF InventoryRead, Answering, Reads
<1>2. o \in OperationRecords /\ o.nested = 0 /\ o.state = op[p].state
  BY <1>1, AnsweredFacts
<1>3. op[p].state \notin Terminal => MayGoOn(o, "liveness")
  BY <1>1, AnsweredReadFacts DEF Prior, MayGoOn
<1>4. UNCHANGED <<head, published, promotions>> /\ cache' \in Snapshots /\ probes' \in 0..MaxProbes
  BY BoundsFacts DEF InventoryRead
<1>5. op' = [op EXCEPT ![p] = ReadNext(o, "liveness")]
  BY DEF InventoryRead
<1> HIDE DEF o
<1> QED BY <1>1, <1>2, <1>3, <1>4, <1>5, GoesOn

LEMMA LivenessReadInv == ASSUME Inv, NEW p \in Procs, LivenessRead(p) PROVE Inv'
<1> DEFINE o == Answered(p, "liveness")
           end == IF o.warned THEN "ready_with_warnings" ELSE "ready"
           out == IF o.live \in Undated THEN "raised" ELSE end
           next == [o EXCEPT !.state = end, !.outcome = out]
<1>1. Answering(p, "liveness") /\ Waits(p) /\ "liveness" \in Reads
  BY DEF LivenessRead, Answering, Reads
<1>2. /\ o \in OperationRecords /\ o.nested = 0 /\ o.state = op[p].state /\ o.attempt = 0
  <2>1. op[p] \in OperationRecords
    BY BoundsFacts
  <2>2. o.attempt = 0
    BY <2>1 DEF Answered, OperationRecords
  <2> HIDE DEF o
  <2> QED BY <1>1, <2>2, AnsweredFacts DEF o
<1>3. op[p].state \notin Terminal =>
        /\ ~o.rejected /\ o.done = Prior(o.path, "liveness") \cup {"liveness"}
        /\ o.live \in Versions /\ o.docs = o.live /\ o.stated = o.live /\ o.live \in o.active
  BY <1>1, AnsweredReadFacts
<1>4. UNCHANGED <<head, published, promotions>> /\ cache' \in Snapshots /\ probes' \in 0..MaxProbes
  BY BoundsFacts DEF LivenessRead
<1>5. op' = [op EXCEPT ![p] = IF o.state \in Terminal THEN Blocked(o) ELSE next]
  BY DEF LivenessRead
<1>6. end \in {"ready", "ready_with_warnings"} /\ out \in Terminal \cup {"none", "raised"}
  BY DEF Terminal
<1> HIDE DEF o
<1>7. CASE o.state \in Terminal
  BY <1>2, <1>4, <1>5, <1>7, IsBlocked
<1>8. CASE o.state \notin Terminal
  <2> HIDE DEF end, out
  <2>1. /\ next \in OperationRecords /\ next.state = end /\ next.attempt = 0 /\ next.nested = 0
        /\ next.live = o.live /\ next.docs = o.docs /\ next.stated = o.stated
        /\ next.done = o.done /\ next.path = o.path /\ next.rejected = o.rejected
        /\ next.active = o.active
    <3>1. end \in Reads \cup Terminal \cup {"not_started"}
      BY <1>6, StateFacts
    <3>2. o \in OperationRecords /\ o.attempt = 0 /\ o.nested = 0
      BY <1>2
    <3>3. next \in OperationRecords
      BY <1>6, <3>1, <3>2 DEF OperationRecords
    <3>4. /\ next.state = end /\ next.attempt = o.attempt /\ next.nested = o.nested
          /\ next.live = o.live /\ next.docs = o.docs /\ next.stated = o.stated
      BY <3>2 DEF OperationRecords
    <3>5. /\ next.done = o.done /\ next.path = o.path /\ next.rejected = o.rejected
          /\ next.active = o.active
      BY <3>2 DEF OperationRecords
    <3> HIDE DEF next
    <3> QED BY <3>2, <3>3, <3>4, <3>5
  <2> HIDE DEF next
  <2>2. next.done = IF next.path = "warm" THEN Reads \ {"index", "manifest"} ELSE Reads
    BY <1>2, <1>3, <1>8, <2>1 DEF Prior, Reads
  <2>3. SoundReady(next)
    BY <1>2, <1>3, <1>8, <2>1, <2>2 DEF SoundReady
  <2>4. Sound(next, head, published)
    BY <1>6, <2>1, <2>3, StateFacts DEF Sound
  <2> QED BY <1>4, <1>5, <1>8, <2>1, <2>4, OneMoves
<1> QED BY <1>7, <1>8

LEMMA ContradictedInv == ASSUME Inv, NEW p \in Procs, Contradicted(p) PROVE Inv'
<1> DEFINE o == Answered(p, op[p].reading)
<1>1. Waits(p) /\ op' = [op EXCEPT ![p] = Blocked(o)]
  BY DEF Contradicted
<1>2. o \in OperationRecords /\ o.nested = 0
  BY <1>1, AnsweredFacts, WaitingFacts
<1>3. UNCHANGED <<head, published, promotions>> /\ cache' \in Snapshots /\ probes' \in 0..MaxProbes
  BY BoundsFacts DEF Contradicted
<1> HIDE DEF o
<1> QED BY <1>1, <1>2, <1>3, IsBlocked

-----------------------------------------------------------------------------
(* Failures, calls from outside, and what happens around the operations. *)

LEMMA FailedInv == ASSUME Inv, NEW p \in Procs, NEW transient \in BOOLEAN, Failed(p, transient) PROVE Inv'
<1> DEFINE o == op[p]
           again == [o EXCEPT !.retries = @ + 1]
           next == Issue(again, 2)
<1>1. Waits(p) /\ o \in OperationRecords /\ o.nested = 0
  BY WaitingFacts DEF Failed
<1>2. UNCHANGED <<head, published, promotions>> /\ cache' \in Snapshots /\ probes' \in 0..MaxProbes
  BY BoundsFacts DEF Failed
<1>3. op' = [op EXCEPT ![p] = IF transient /\ MayRetry(o, o.attempt) THEN next ELSE Blocked(o)]
  BY DEF Failed
<1>4. CASE ~(transient /\ MayRetry(o, o.attempt))
  <2> HIDE DEF o
  <2> QED BY <1>1, <1>2, <1>3, <1>4, IsBlocked
<1>5. CASE MayRetry(o, o.attempt) /\ transient
  <2>1. o.retries + 1 \in 0..RetryBudget /\ 2 \in 1..(RetryBudget + 1) /\ o.state \notin Terminal
    BY <1>1, <1>5, BudgetFacts DEF MayRetry, OperationRecords
  <2>2. SoundRead(o) /\ Sound(o, head, published) /\ o.state \in Reads
    BY <1>1, <2>1, WaitingFacts, StateFacts DEF Inv
  <2> HIDE DEF o
  <2>3. again \in OperationRecords /\ again.nested = 0 /\ again.state = o.state /\ again.state # "blocked"
    BY <1>1, <2>1, StateFacts DEF OperationRecords
  <2> HIDE DEF again
  <2>4. /\ next \in OperationRecords /\ next.nested = 0
        /\ next.state = "blocked" => next.attempt = 0
        /\ next.state # "blocked" => next = [again EXCEPT !.reads = @ + 1, !.attempt = 2]
    BY <2>1, <2>3, IssueFacts
  <2> HIDE DEF next
  <2>5. ASSUME next.state # "blocked" PROVE Sound(next, head, published)
    <3>1. /\ next.state = o.state /\ next.reading = o.reading /\ next.attempt = 2
          /\ next.rejected = o.rejected /\ next.path = o.path /\ next.done = o.done
          /\ next.live = o.live /\ next.docs = o.docs /\ next.stated = o.stated
          /\ next.active = o.active
      BY <1>1, <2>4, <2>5 DEF again, OperationRecords
    <3>2. SoundRead(next)
      BY <2>2, <3>1 DEF SoundRead
    <3>3. /\ head = published => head \in next.active
          /\ next.reading # "authority" => next.live \in Versions
          /\ next.reading # "authority" /\ next.live \notin next.active
               => head = next.live /\ published # next.live
      BY <2>2, <3>1 DEF Sound, SoundRead
    <3>4. next.state \in Reads
      BY <2>2, <3>1
    <3> QED BY <2>4, <3>2, <3>3, <3>4, StateFacts DEF Sound
  <2>6. Sound(next, head, published)
    BY <2>4, <2>5, BlockedIsSound
  <2> QED BY <1>2, <1>3, <1>5, <2>4, <2>6, OneMoves
<1> QED BY <1>4, <1>5

LEMMA BeginInv == ASSUME Inv, NEW p \in Procs, NEW warm \in BOOLEAN, Begin(p, warm) PROVE Inv'
<1> DEFINE o == op[p]
           begun == [o EXCEPT !.state = "authority", !.warm = warm, !.active = BothName]
           next == Issue(begun, 1)
<1>1. o \in OperationRecords /\ Sound(o, head, published) /\ o.state = "not_started"
  BY DEF Begin, Inv, TypeOK
<1>2. op' = [op EXCEPT ![p] = next]
  BY DEF Begin
<1>3. UNCHANGED <<head, published, promotions>> /\ cache' \in Snapshots /\ probes' \in 0..MaxProbes
  BY BoundsFacts DEF Begin
<1>4. BothName \subseteq Versions /\ (head = published => head \in BothName)
  BY BoundsFacts DEF BothName
<1>5. o.nested = 0 /\ o.done = {} /\ ~o.rejected /\ o.path = "cold"
  BY <1>1 DEF Sound
<1>6. o.reading = "authority"
  BY <1>1 DEF Sound
<1> HIDE DEF o
<1>7. /\ begun \in OperationRecords /\ begun.state = "authority" /\ begun.nested = 0
      /\ begun.reading = o.reading /\ begun.done = {} /\ ~begun.rejected /\ begun.path = "cold"
      /\ begun.active = BothName
  <2>1. "authority" \in Reads
    BY DEF Reads
  <2>2. begun \in OperationRecords
    BY <1>1, <1>4, <2>1 DEF OperationRecords
  <2> QED BY <1>1, <1>4, <1>5, <2>2 DEF OperationRecords
<1> HIDE DEF begun
<1>8. /\ next \in OperationRecords /\ next.nested = 0
      /\ next.state = "blocked" => next.attempt = 0
      /\ next.state # "blocked" => next = [begun EXCEPT !.reads = @ + 1, !.attempt = 1]
  <2>1. 1 \in 1..(RetryBudget + 1)
    BY BudgetFacts
  <2> QED BY <1>7, <2>1, IssueFacts
<1> HIDE DEF next
<1>9. ASSUME next.state # "blocked" PROVE Sound(next, head, published)
  <2>1. /\ next.state = "authority" /\ next.reading = "authority" /\ next.attempt = 1
        /\ ~next.rejected /\ next.path = "cold" /\ next.done = {} /\ next.active = BothName
    BY <1>6, <1>7, <1>8, <1>9 DEF OperationRecords
  <2>2. SoundRead(next)
    BY <2>1 DEF SoundRead, Prior
  <2> QED BY <1>4, <1>8, <2>1, <2>2 DEF Sound
<1>10. Sound(next, head, published)
  BY <1>8, <1>9, BlockedIsSound
<1> QED BY <1>2, <1>3, <1>8, <1>10, OneMoves

\* A denied operation keeps waiting for the answer to its own call.
LEMMA DenyIsSound ==
    ASSUME NEW o \in OperationRecords, NEW h, NEW s, Sound(o, h, s)
    PROVE  Deny(o) \in OperationRecords /\ Sound(Deny(o), h, s)
<1>1. /\ Deny(o) \in OperationRecords /\ Deny(o).state = "blocked" /\ Deny(o).nested = o.nested
      /\ Deny(o).attempt = o.attempt /\ Deny(o).live = o.live /\ Deny(o).reading = o.reading
  BY DenyFacts DEF Deny, OperationRecords
<1> QED BY <1>1, StateFacts DEF Sound

LEMMA ProbeInv == ASSUME Inv, NEW p \in Procs, NEW exact \in BOOLEAN, Probe(p, exact) PROVE Inv'
<1> DEFINE o == op[p]
           inside == [o EXCEPT !.reads = @ + 1, !.nested = 1]
           accepted == /\ exact /\ o.state = o.reading
                       /\ o.reading \notin o.done
                       /\ WithinBudget(o)
<1>1. o \in OperationRecords /\ Sound(o, head, published) /\ o.nested = 0 /\ o.state # "not_started"
  BY DEF Probe, Inv, TypeOK
<1>2. op' = [op EXCEPT ![p] = IF accepted THEN inside ELSE Refused(o)]
  BY DEF Probe
<1>3. UNCHANGED <<head, published, promotions>> /\ cache' \in Snapshots /\ probes' \in 0..MaxProbes
  <2>1. probes + 1 \in 0..MaxProbes
    BY InitializationAssumption, BoundsFacts DEF Probe
  <2> QED BY <2>1, BoundsFacts DEF Probe
<1> HIDE DEF o
<1>4. CASE accepted
  <2>1. o.state \in Reads /\ SoundRead(o)
    BY <1>1, <1>4 DEF OperationRecords, Sound
  <2>2. o.reads + 1 \in 0..(ReadBudget + RetryBudget) /\ 1 \in 0..(RetryBudget + 1)
    BY <1>1, <1>4, BudgetFacts DEF WithinBudget, OperationRecords
  <2>3. /\ inside \in OperationRecords
        /\ inside.state = o.state /\ inside.reading = o.reading /\ inside.attempt = o.attempt
        /\ inside.rejected = o.rejected /\ inside.path = o.path /\ inside.done = o.done
        /\ inside.live = o.live /\ inside.docs = o.docs /\ inside.stated = o.stated
        /\ inside.active = o.active
    BY ZenonT(40), <1>1, <2>2 DEF OperationRecords
  <2> HIDE DEF inside
  <2>4. SoundRead(inside)
    BY <2>1, <2>3 DEF SoundRead
  <2>5. Sound(inside, head, published)
    BY <1>1, <2>1, <2>3, <2>4, StateFacts DEF Sound, SoundRead
  <2> QED BY <1>2, <1>3, <1>4, <2>3, <2>5, OneMoves
<1>5. CASE ~accepted /\ o.state \in Terminal
  <2>1. op' = [op EXCEPT ![p] = o]
    BY <1>2, <1>5 DEF Refused
  <2> QED BY <1>1, <1>3, <2>1, OneMoves
<1>6. CASE ~accepted /\ o.state \notin Terminal
  <2>1. op' = [op EXCEPT ![p] = Deny(o)]
    BY <1>2, <1>6 DEF Refused
  <2>2. Deny(o) \in OperationRecords /\ Sound(Deny(o), head, published)
    BY <1>1, DenyIsSound
  <2> QED BY <1>3, <2>1, <2>2, OneMoves
<1> QED BY <1>4, <1>5, <1>6

LEMMA NestedAnsweredInv == ASSUME Inv, NEW p \in Procs, NestedAnswered(p) PROVE Inv'
<1> DEFINE o == op[p]
           next == [o EXCEPT !.done = @ \cup {o.reading}, !.nested = 0]
<1>1. o \in OperationRecords /\ Sound(o, head, published) /\ o.nested > 0
  BY DEF NestedAnswered, Inv, TypeOK
<1>2. op' = [op EXCEPT ![p] = next]
  BY BoundsFacts DEF NestedAnswered
<1>3. UNCHANGED <<head, published, promotions>> /\ cache' \in Snapshots /\ probes' \in 0..MaxProbes
  BY BoundsFacts DEF NestedAnswered
<1> HIDE DEF o
<1>4. /\ next \in OperationRecords /\ next.nested = 0
      /\ next.state = o.state /\ next.reading = o.reading /\ next.attempt = o.attempt
      /\ next.rejected = o.rejected /\ next.path = o.path /\ next.done = o.done \cup {o.reading}
      /\ next.live = o.live /\ next.docs = o.docs /\ next.stated = o.stated
      /\ next.active = o.active
  <2>1. 0 \in 0..(RetryBudget + 1)
    BY BudgetFacts
  <2> QED BY <1>1, <2>1 DEF OperationRecords
<1> HIDE DEF next
<1>5. o.attempt > 0 /\ o.state \in Reads \cup {"blocked"}
  BY <1>1, StateFacts DEF Sound, SoundReady, OperationRecords
<1>6. o.state \in Reads => SoundRead(next)
  BY <1>1, <1>4 DEF Sound, SoundRead
<1>7. Sound(next, head, published)
  BY <1>1, <1>4, <1>5, <1>6, StateFacts DEF Sound
<1> QED BY <1>2, <1>3, <1>4, <1>7, OneMoves
LEMMA NestedFailedInv ==
    ASSUME Inv, NEW p \in Procs, NEW transient \in BOOLEAN, NestedFailed(p, transient)
    PROVE  Inv'
<1> DEFINE o == op[p]
           over == [o EXCEPT !.nested = 0]
           again == [o EXCEPT !.retries = @ + 1, !.reads = @ + 1, !.nested = 2]
           denied == [Deny(o) EXCEPT !.retries = @ + 1, !.nested = 0]
<1>1. o \in OperationRecords /\ Sound(o, head, published) /\ o.nested > 0
  BY DEF NestedFailed, Inv, TypeOK
<1>2. op' = [op EXCEPT ![p] = IF ~(transient /\ MayRetry(o, o.nested))
                                THEN over ELSE IF WithinBudget(o) THEN again ELSE denied]
  BY DEF NestedFailed
<1>3. UNCHANGED <<head, published, promotions>> /\ cache' \in Snapshots /\ probes' \in 0..MaxProbes
  BY BoundsFacts DEF NestedFailed
<1> HIDE DEF o
<1>4. o.attempt > 0 /\ o.state \in Reads \cup {"blocked"}
  BY <1>1, StateFacts DEF Sound, SoundReady, OperationRecords
<1>5. CASE ~(transient /\ MayRetry(o, o.nested))
  <2>1. 0 \in 0..(RetryBudget + 1)
    BY BudgetFacts
  <2>2. /\ over \in OperationRecords /\ over.nested = 0
        /\ over.state = o.state /\ over.reading = o.reading /\ over.attempt = o.attempt
        /\ over.rejected = o.rejected /\ over.path = o.path /\ over.done = o.done
        /\ over.live = o.live /\ over.docs = o.docs /\ over.stated = o.stated
        /\ over.active = o.active
    BY <1>1, <2>1 DEF OperationRecords
  <2> HIDE DEF over
  <2>3. o.state \in Reads => SoundRead(over)
    BY <1>1, <2>2 DEF Sound, SoundRead
  <2>4. Sound(over, head, published)
    BY <1>1, <1>4, <2>2, <2>3, StateFacts DEF Sound
  <2>5. op' = [op EXCEPT ![p] = over]
    BY <1>2, <1>5
  <2> QED BY <1>3, <2>2, <2>4, <2>5, OneMoves
<1>6. CASE transient /\ MayRetry(o, o.nested) /\ WithinBudget(o)
  <2>1. /\ o.retries + 1 \in 0..RetryBudget /\ o.reads + 1 \in 0..(ReadBudget + RetryBudget)
        /\ 2 \in 0..(RetryBudget + 1)
    BY <1>1, <1>6, BudgetFacts DEF MayRetry, WithinBudget, OperationRecords
  <2>2. /\ again \in OperationRecords
        /\ again.state = o.state /\ again.reading = o.reading /\ again.attempt = o.attempt
        /\ again.rejected = o.rejected /\ again.path = o.path /\ again.done = o.done
        /\ again.live = o.live /\ again.docs = o.docs /\ again.stated = o.stated
        /\ again.active = o.active
    BY <1>1, <2>1 DEF OperationRecords
  <2> HIDE DEF again
  <2>3. o.state \in Reads => SoundRead(again)
    BY <1>1, <2>2 DEF Sound, SoundRead
  <2>4. Sound(again, head, published)
    BY <1>1, <1>4, <2>2, <2>3, StateFacts DEF Sound
  <2>5. op' = [op EXCEPT ![p] = again]
    BY <1>2, <1>6
  <2> QED BY <1>3, <2>2, <2>4, <2>5, OneMoves
<1>7. CASE transient /\ MayRetry(o, o.nested) /\ ~WithinBudget(o)
  <2> DEFINE d == Deny(o)
  <2>1. /\ d \in OperationRecords /\ d.state = "blocked" /\ d.attempt = o.attempt
        /\ d.retries = o.retries /\ d.live = o.live /\ d.reading = o.reading
    BY <1>1, DenyFacts DEF Deny, OperationRecords
  <2>2. o.retries + 1 \in 0..RetryBudget /\ 0 \in 0..(RetryBudget + 1)
    BY <1>1, <1>7, BudgetFacts DEF MayRetry, OperationRecords
  <2> HIDE DEF d
  <2>3. /\ denied \in OperationRecords /\ denied.nested = 0 /\ denied.state = "blocked"
        /\ denied.attempt = o.attempt /\ denied.live = o.live /\ denied.reading = o.reading
    BY <2>1, <2>2 DEF d, OperationRecords
  <2> HIDE DEF denied
  <2>4. Sound(denied, head, published)
    BY <1>1, <2>3, StateFacts DEF Sound
  <2>5. op' = [op EXCEPT ![p] = denied]
    BY <1>2, <1>7
  <2> QED BY <1>3, <2>3, <2>4, <2>5, OneMoves
<1> QED BY <1>5, <1>6, <1>7

LEMMA SnapshotAgesInv == ASSUME Inv, SnapshotAges PROVE Inv'
<1>1. cache' \in Snapshots
  <2>1. CASE cache = NoSnapshot
    BY <2>1 DEF SnapshotAges, Snapshots, NoSnapshot
  <2>2. CASE cache \in [of : Versions, intact : BOOLEAN, fresh : BOOLEAN]
    BY <2>2 DEF SnapshotAges, Snapshots
  <2> QED BY <2>1, <2>2, BoundsFacts DEF Snapshots
<1> QED BY <1>1 DEF SnapshotAges, Inv, TypeOK

\* A promotion or a publication: every operation in progress witnesses it, and a release
\* that both have never named is not promoted over while it is unpublished.
LEMMA WitnessedInv ==
    ASSUME Inv, Witnessed, head' \in Versions, published' \in Versions, UNCHANGED <<cache, probes>>,
           promotions' \in 0..MaxPromotions,
           \/ published = head /\ UNCHANGED published
           \/ published' = head /\ UNCHANGED head
    PROVE  Inv'
<1>1. BothName' \subseteq Versions /\ (published' = head' => head' \in BothName')
  BY DEF BothName
<1>2. \A p \in Procs : op'[p] = [op[p] EXCEPT !.active = @ \cup (BothName')]
  BY DEF Witnessed
<1>3. ASSUME NEW p \in Procs
      PROVE  op'[p] \in OperationRecords /\ Sound(op'[p], head', published')
  <2> DEFINE o == op[p]
             next == op'[p]
  <2>1. o \in OperationRecords /\ Sound(o, head, published)
    BY DEF Inv, TypeOK
  <2>2. next = [o EXCEPT !.active = @ \cup (BothName')]
    BY <1>2
  <2> HIDE DEF o, next
  <2>3. /\ next \in OperationRecords /\ next.nested = o.nested
        /\ next.state = o.state /\ next.reading = o.reading /\ next.attempt = o.attempt
        /\ next.rejected = o.rejected /\ next.path = o.path /\ next.done = o.done
        /\ next.live = o.live /\ next.docs = o.docs /\ next.stated = o.stated
        /\ next.active = o.active \cup (BothName')
    BY <1>1, <2>1, <2>2 DEF OperationRecords
  <2>4. o.state \in Reads => SoundRead(next)
    BY <2>1, <2>3 DEF Sound, SoundRead
  <2>5. o.state \in {"ready", "ready_with_warnings"} => SoundReady(next)
    BY <2>1, <2>3 DEF Sound, SoundReady
  <2>6. ASSUME o.state \in Reads, next.reading # "authority", next.live \notin next.active
        PROVE  head' = next.live /\ published' # next.live
    <3>1. head = o.live /\ published # o.live
      BY <2>1, <2>3, <2>6 DEF Sound
    <3>2. published' = head /\ head' = head
      BY <3>1
    <3>3. next.live \in BothName'
      BY <1>1, <2>3, <3>1, <3>2
    <3> QED BY <2>3, <2>6, <3>3
  <2>7. Sound(next, head', published')
    BY <1>1, <2>1, <2>3, <2>4, <2>5, <2>6 DEF Sound
  <2> QED BY <2>3, <2>7 DEF next
<1>4. op' \in [Procs -> OperationRecords]
  BY <1>3 DEF Witnessed
<1> QED BY <1>3, <1>4 DEF Inv, TypeOK

LEMMA PromoteInv == ASSUME Inv, NEW v \in Versions, Promote(v) PROVE Inv'
<1>1. promotions + 1 \in 0..MaxPromotions
  BY BoundsFacts, InitializationAssumption DEF Promote
<1> QED BY <1>1, BoundsFacts, WitnessedInv DEF Promote

LEMMA PublishInv == ASSUME Inv, Publish PROVE Inv'
BY BoundsFacts, WitnessedInv DEF Publish

LEMMA NextInv == ASSUME Inv, [Next]_vars PROVE Inv'
<1>1. ASSUME NEW p \in Procs, Reading(p) PROVE Inv'
  BY <1>1, AuthorityReadInv, IndexReadInv, ManifestReadInv, SystemStateReadInv, InventoryReadInv,
     LivenessReadInv, ContradictedInv, FailedInv, NestedFailedInv, NestedAnsweredInv DEF Reading
<1>2. CASE UNCHANGED vars
  BY <1>2 DEF vars, Inv, TypeOK
<1>3. CASE Next
  BY <1>1, <1>3, PromoteInv, PublishInv, SnapshotAgesInv, BeginInv, ProbeInv DEF Next
<1> QED BY <1>2, <1>3

-----------------------------------------------------------------------------
(* The theorems. *)

\* The invariant holds of every behaviour.
THEOREM QuickInvariant == Spec => []Inv
BY InitInv, NextInv, PTL DEF Spec

\* Reads and retries stay within their budgets, whatever is called inside or after the
\* orchestration.
THEOREM QuickTypeCorrect == Spec => []TypeOK
<1>1. Inv => TypeOK
  BY DEF Inv
<1> QED BY <1>1, QuickInvariant, PTL

\* What is READY is one release.
THEOREM ReadyCoherent == Spec => []ReadyIsCoherent
<1>1. Inv => ReadyIsCoherent
  <2>1. NoVersion \notin Versions
    BY InitializationAssumption
  <2> QED BY <2>1 DEF Inv, Sound, SoundReady, ReadyIsCoherent, IsReady
<1> QED BY <1>1, QuickInvariant, PTL

\* The release that is READY was active at some moment of the initialization.
THEOREM ReadyActive == Spec => []ReadyWasActive
<1>1. Inv => ReadyWasActive
  BY DEF Inv, Sound, SoundReady, ReadyWasActive, IsReady
<1> QED BY <1>1, QuickInvariant, PTL

\* A READY operation made the reads of its plan and was asked for no other.
THEOREM ReadyPlanned == Spec => []ReadyFollowsPlan
<1>1. Inv => ReadyFollowsPlan
  BY DEF Inv, Sound, SoundReady, ReadyFollowsPlan, IsReady
<1> QED BY <1>1, QuickInvariant, PTL

-----------------------------------------------------------------------------
(* What a step does to an operation that has ended. *)

Kept(q) == op[q].state \in Terminal =>
               op'[q].state = op[q].state /\ op'[q].reads = op[q].reads

LEMMA OthersKept ==
    ASSUME Inv, NEW p \in Procs, NEW q \in Procs, NEW o,
           op' = [op EXCEPT ![p] = o],
           op[p].state \in Terminal => o.state = op[p].state /\ o.reads = op[p].reads
    PROVE  Kept(q)
BY BoundsFacts DEF Kept

LEMMA EndedFacts ==
    ASSUME NEW o \in OperationRecords, NEW read \in Reads, o.nested = 0, o.state = "blocked"
    PROVE  /\ ReadNext(o, read).state = "blocked" /\ ReadNext(o, read).reads = o.reads
           /\ Blocked(o).state = "blocked" /\ Blocked(o).reads = o.reads
<1>1. o.state \in Terminal
  BY DEF Terminal
<1> QED BY <1>1, ReadNextFacts, BlockedFacts

\* The answer to a call of an operation that was blocked meanwhile.
LEMMA ReadingKept == ASSUME Inv, NEW p \in Procs, NEW q \in Procs, Reading(p) PROVE Kept(q)
<1>1. ASSUME Waits(p), op[p].state \in Terminal
      PROVE  /\ op[p].state = "blocked" /\ op[p] \in OperationRecords
             /\ \A read \in Reads : /\ Answered(p, read) \in OperationRecords
                                    /\ Answered(p, read).nested = 0
                                    /\ Answered(p, read).state = "blocked"
                                    /\ Answered(p, read).reads = op[p].reads
  <2>1. op[p].state = "blocked" /\ op[p] \in OperationRecords
    BY <1>1, WaitingFacts, StateFacts
  <2>2. \A read \in Reads : Answered(p, read).reads = op[p].reads
    BY <2>1 DEF Answered, OperationRecords
  <2> QED BY <1>1, <2>1, <2>2, AnsweredFacts
<1>2. Reads = {"authority", "index", "manifest", "system", "inventory", "liveness"}
  BY DEF Reads
<1>3. "blocked" \in Terminal
  BY DEF Terminal
<1>4. CASE AuthorityRead(p)
  <2> DEFINE o == [Answered(p, "authority") EXCEPT !.live = head]
  <2>1. Waits(p)
    BY <1>4 DEF AuthorityRead, Answering
  <2>2. op[p].state \in Terminal =>
          /\ o \in OperationRecords /\ o.nested = 0 /\ o.state = "blocked" /\ o.reads = op[p].reads
    BY <1>1, <1>2, <2>1, BoundsFacts DEF OperationRecords
  <2>3. PICK x : op' = [op EXCEPT ![p] = x]
                 /\ (o.state \in Terminal => x = ReadNext(o, "index"))
    BY <1>4 DEF AuthorityRead
  <2> HIDE DEF o
  <2>4. op[p].state \in Terminal =>
          ReadNext(o, "index").state = "blocked" /\ ReadNext(o, "index").reads = op[p].reads
    BY <1>2, <2>2, EndedFacts
  <2> QED BY <1>1, <1>3, <2>1, <2>2, <2>3, <2>4, OthersKept
<1>5. CASE IndexRead(p)
  <2> DEFINE o == Answered(p, "index")
             found == [o EXCEPT !.docs = head]
  <2>1. Waits(p) /\ op' = [op EXCEPT ![p] = IF IndexAgrees(o) THEN ReadNext(found, "manifest")
                                                              ELSE Blocked(o)]
    BY <1>5 DEF IndexRead, Answering
  <2>2. op[p].state \in Terminal =>
          /\ o \in OperationRecords /\ o.nested = 0 /\ o.reads = op[p].reads /\ o.state = "blocked"
    BY <1>1, <1>2, <2>1
  <2> HIDE DEF o
  <2>3. op[p].state \in Terminal =>
          found \in OperationRecords /\ found.nested = 0 /\ found.reads = op[p].reads
          /\ found.state = "blocked"
    BY <2>2, BoundsFacts DEF OperationRecords
  <2> HIDE DEF found
  <2> DEFINE x == IF IndexAgrees(o) THEN ReadNext(found, "manifest") ELSE Blocked(o)
  <2>4. op[p].state \in Terminal => x.state = "blocked" /\ x.reads = op[p].reads
    BY <1>2, <2>2, <2>3, EndedFacts
  <2> HIDE DEF x
  <2> QED BY <1>1, <2>1, <2>4, OthersKept DEF x
<1>6. CASE ManifestRead(p)
  <2> DEFINE o == Answered(p, "manifest")
  <2>1. PICK stored \in BOOLEAN :
          op' = [op EXCEPT ![p] =
             ReadNext([o EXCEPT !.warned = @ \/ (o.warm /\ ~stored)], "system")]
    BY <1>6 DEF ManifestRead
  <2>2. Waits(p)
    BY <1>6 DEF ManifestRead, Answering
  <2>3. op[p].state \in Terminal =>
          /\ o \in OperationRecords /\ o.nested = 0 /\ o.reads = op[p].reads /\ o.state = "blocked"
    BY <1>1, <1>2, <2>2
  <2> HIDE DEF o
  <2> DEFINE kept == [o EXCEPT !.warned = @ \/ (o.warm /\ ~stored)]
  <2>4. o \in OperationRecords => kept \in OperationRecords
    <3>1. (o.warned \/ (o.warm /\ ~stored)) \in BOOLEAN
      OBVIOUS
    <3>2. o \in OperationRecords => \A w \in BOOLEAN : [o EXCEPT !.warned = w] \in OperationRecords
      BY DEF OperationRecords
    <3>3. kept = [o EXCEPT !.warned = o.warned \/ (o.warm /\ ~stored)]
      OBVIOUS
    <3> QED BY <3>1, <3>2, <3>3
  <2>5. op[p].state \in Terminal =>
          kept.nested = 0 /\ kept.reads = op[p].reads /\ kept.state = "blocked"
    BY <2>3 DEF OperationRecords
  <2>6. op' = [op EXCEPT ![p] = ReadNext(kept, "system")]
    BY <2>1
  <2> HIDE DEF kept
  <2>7. op[p].state \in Terminal =>
          ReadNext(kept, "system").state = "blocked" /\ ReadNext(kept, "system").reads = op[p].reads
    BY <1>2, <2>3, <2>4, <2>5, EndedFacts
  <2> QED BY <1>1, <2>2, <2>6, <2>7, OthersKept
<1>7. CASE SystemStateRead(p)
  <2> DEFINE a0 == Answered(p, "system")
             o == [a0 EXCEPT !.stated = published]
  <2>1. Waits(p) /\ op' = [op EXCEPT ![p] = IF StateAgrees(o) THEN ReadNext(o, "inventory")
                                                              ELSE Blocked(o)]
    BY <1>7 DEF SystemStateRead, Answering
  <2>2. op[p].state \in Terminal =>
          /\ a0 \in OperationRecords /\ a0.nested = 0 /\ a0.reads = op[p].reads /\ a0.state = "blocked"
    BY <1>1, <1>2, <2>1
  <2> HIDE DEF a0
  <2>3. op[p].state \in Terminal =>
          o \in OperationRecords /\ o.nested = 0 /\ o.reads = op[p].reads /\ o.state = "blocked"
    BY <2>2, BoundsFacts DEF OperationRecords
  <2> HIDE DEF o
  <2> DEFINE x == IF StateAgrees(o) THEN ReadNext(o, "inventory") ELSE Blocked(o)
  <2>4. op[p].state \in Terminal => x.state = "blocked" /\ x.reads = op[p].reads
    BY <1>2, <2>3, EndedFacts
  <2> HIDE DEF x
  <2> QED BY <1>1, <2>1, <2>4, OthersKept DEF x
<1>8. CASE InventoryRead(p)
  <2> DEFINE o == Answered(p, "inventory")
  <2>1. Waits(p) /\ op' = [op EXCEPT ![p] = ReadNext(o, "liveness")]
    BY <1>8 DEF InventoryRead, Answering
  <2>2. op[p].state \in Terminal =>
          ReadNext(o, "liveness").state = "blocked" /\ ReadNext(o, "liveness").reads = op[p].reads
    BY <1>1, <1>2, <2>1, EndedFacts
  <2> QED BY <1>1, <2>1, <2>2, OthersKept
<1>9. CASE LivenessRead(p)
  <2> DEFINE o == Answered(p, "liveness")
  <2>1. Waits(p)
    BY <1>9 DEF LivenessRead, Answering
  <2>2. PICK x : op' = [op EXCEPT ![p] = x] /\ (o.state \in Terminal => x = Blocked(o))
    BY <1>9 DEF LivenessRead
  <2> QED BY <1>1, <1>2, <1>3, <2>1, <2>2, BlockedFacts, OthersKept
<1>10. CASE Contradicted(p)
  <2> DEFINE o == Answered(p, op[p].reading)
  <2>1. Waits(p) /\ op' = [op EXCEPT ![p] = Blocked(o)]
    BY <1>10 DEF Contradicted
  <2>2. op[p].reading \in Reads
    BY <2>1, WaitingFacts
  <2> QED BY <1>1, <2>1, <2>2, BlockedFacts, OthersKept
<1>11. ASSUME NEW transient \in BOOLEAN, Failed(p, transient) PROVE Kept(q)
  <2>1. Waits(p)
    BY <1>11 DEF Failed
  <2>2. PICK x : op' = [op EXCEPT ![p] = x]
                 /\ (~MayRetry(op[p], op[p].attempt) => x = Blocked(op[p]))
    BY <1>11 DEF Failed
  <2>3. op[p].state \in Terminal => ~MayRetry(op[p], op[p].attempt)
    BY DEF MayRetry
  <2> QED BY <1>1, <2>1, <2>2, <2>3, WaitingFacts, BlockedFacts, OthersKept
<1>12. ASSUME NEW transient \in BOOLEAN, NestedFailed(p, transient) PROVE Kept(q)
  <2>1. PICK x : op' = [op EXCEPT ![p] = x]
                 /\ (~MayRetry(op[p], op[p].nested) => x = [op[p] EXCEPT !.nested = 0])
    BY <1>12 DEF NestedFailed
  <2>2. op[p].state \in Terminal => ~MayRetry(op[p], op[p].nested)
    BY DEF MayRetry
  <2>3. [op[p] EXCEPT !.nested = 0].state = op[p].state /\ [op[p] EXCEPT !.nested = 0].reads = op[p].reads
    BY BoundsFacts DEF OperationRecords
  <2> QED BY <2>1, <2>2, <2>3, OthersKept
<1>13. CASE NestedAnswered(p)
  <2>1. op'[p].state = op[p].state /\ op'[p].reads = op[p].reads /\ (q # p => op'[q] = op[q])
    BY <1>13, BoundsFacts DEF NestedAnswered, OperationRecords
  <2> QED BY <2>1 DEF Kept
<1> QED
  BY <1>4, <1>5, <1>6, <1>7, <1>8, <1>9, <1>10, <1>11, <1>12, <1>13 DEF Reading

LEMMA StepKept == ASSUME Inv, [Next]_vars, NEW q \in Procs PROVE Kept(q)
<1>1. ASSUME NEW p \in Procs, NEW warm \in BOOLEAN, Begin(p, warm) PROVE Kept(q)
  <2>1. op[p].state \notin Terminal
    BY <1>1, StateFacts DEF Begin
  <2>2. PICK x : op' = [op EXCEPT ![p] = x]
    BY <1>1 DEF Begin
  <2> QED BY <2>1, <2>2, OthersKept
<1>2. ASSUME NEW p \in Procs, NEW exact \in BOOLEAN, Probe(p, exact) PROVE Kept(q)
  <2>1. op[p].state \in Terminal => op[p].state # op[p].reading
    BY BoundsFacts, StateFacts DEF OperationRecords
  <2>2. PICK x : op' = [op EXCEPT ![p] = x] /\ (op[p].state # op[p].reading => x = Refused(op[p]))
    BY <1>2 DEF Probe
  <2>3. op[p].state \in Terminal => Refused(op[p]) = op[p]
    BY DEF Refused
  <2> QED BY <2>1, <2>2, <2>3, OthersKept
<1>3. CASE Witnessed
  BY <1>3, BoundsFacts DEF Witnessed, Kept, OperationRecords
<1>4. CASE UNCHANGED op
  BY <1>4 DEF Kept
<1> QED BY <1>1, <1>2, <1>3, <1>4, ReadingKept DEF Next, Promote, Publish, SnapshotAges, vars

\* No provider is called for an operation that is terminal.
THEOREM NoLateRead == Spec => NoReadAfterEnd
<1>1. ASSUME Inv, [Next]_vars
      PROVE  [\A p \in Procs : op[p].state \in Terminal => op'[p].reads = op[p].reads]_vars
  BY <1>1, StepKept DEF Kept
<1>2. Spec => []Inv
  BY QuickInvariant
<1> QED BY <1>1, <1>2, PTL DEF Spec, NoReadAfterEnd

\* A terminal state is final.
THEOREM EndFinal == Spec => EndIsFinal
<1>1. ASSUME Inv, [Next]_vars
      PROVE  [\A p \in Procs : op[p].state \in Terminal => op'[p].state = op[p].state]_vars
  BY <1>1, StepKept DEF Kept
<1>2. Spec => []Inv
  BY QuickInvariant
<1> QED BY <1>1, <1>2, PTL DEF Spec, EndIsFinal
=============================================================================
