---------------------- MODULE FieldReconciliationProofs ----------------------
(***************************************************************************)
(* Theorems about FieldReconciliation, for any fields, rules, values, edits  *)
(* and failures.                                                            *)
(***************************************************************************)
EXTENDS FieldReconciliation, TLAPS

\* The keys that are known are those of the writes that returned, and of those none was
\* made again.
KeysAreReturns == returned = written /\ repeated = {} /\ checkpoint.applied \subseteq written

\* A plan expects a checkpoint older than itself: of keys of earlier plans.
PlansAreNew == \A p \in 1..Len(plans) : \A k \in plans[p].expected.applied : k[1] < p

\* A plan reported consistent left a key in the checkpoint for good, if it wrote at all.
DoneIsApplied ==
    \A p \in done : Mutations(Plan(p)) # {} =>
        \E f \in Fields : <<p, f>> \in checkpoint.applied

\* What the run has passed is known by its key and was in effect since it began.
RunIsSound ==
    /\ run.plan = 0 => run = Idle
    /\ run.plan # 0 =>
        /\ run.todo \subseteq Mutations(Plan(run.plan))
        /\ \A f \in Mutations(Plan(run.plan)) \ run.todo : Key(f) \in written
        /\ Mutations(Plan(run.plan)) \ run.todo \subseteq run.held
        /\ Holding(Plan(run.plan), store) \subseteq run.held
        /\ run.stage = "readback" => \A f \in Fields : Turn(f) => Key(f) \in written

Inv == TypeOK /\ KeysAreReturns /\ PlansAreNew /\ DoneIsApplied /\ RunIsSound

-----------------------------------------------------------------------------

LEMMA Domains ==
    /\ Fields \subseteq Nat
    /\ \A f \in Fields : Target(f) \in Sides
    /\ \A c \in Contents : Mutations(c) \subseteq Fields
    /\ \A c \in Contents : \A f \in Mutations(c) : Rule[f] \in Sides
    /\ \A s \in Sides : Snapshot(s) = [values |-> store[s],
                                       version |-> IF Versioned THEN version[s] ELSE 0]
BY FieldAssumption DEF Fields, Target, Sides, Mutations, Snapshot

LEMMA WantedIsValue ==
    ASSUME NEW c \in Contents, NEW f \in Mutations(c)
    PROVE  Wanted(c, f) \in Values
<1>1. f \in Fields /\ Rule[f] \in Sides
  BY DEF Mutations
<1>2. c[Rule[f]] \in Snapshots
  BY <1>1 DEF Contents, Sides
<1>3. c[Rule[f]].values[f] \in Values
  BY <1>1, <1>2 DEF Snapshots
<1> QED BY <1>3, FieldAssumption DEF Wanted

LEMMA SnapshotType ==
    ASSUME TypeOK, NEW s \in Sides
    PROVE  Snapshot(s) \in Snapshots
<1>1. store[s] \in [Fields -> Values] /\ version[s] \in Nat
  BY DEF TypeOK
<1> QED BY <1>1, Domains DEF Snapshots

\* Only one field has its turn.
LEMMA OneTurn ==
    ASSUME NEW f \in Fields, NEW g \in Fields, Turn(f), Turn(g)
    PROVE  f = g
<1>1. f \in Nat /\ g \in Nat
  BY Domains
<1>2. f <= g /\ g <= f
  BY DEF Turn
<1> QED BY <1>1, <1>2

LEMMA RunPlan ==
    ASSUME Inv, run.plan # 0
    PROVE  /\ run.plan \in 1..Len(plans)
           /\ Plan(run.plan) \in Contents
           /\ Mutations(Plan(run.plan)) \subseteq Fields
<1>1. run.plan \in 0..Len(plans) /\ Len(plans) \in Nat
  BY DEF Inv, TypeOK
<1>2. run.plan \in 1..Len(plans)
  BY <1>1
<1>3. plans[run.plan] \in Contents
  BY <1>2 DEF Inv, TypeOK
<1> QED BY <1>2, <1>3 DEF Plan, Mutations

LEMMA InitInv == FieldInit => Inv
<1> SUFFICES ASSUME FieldInit PROVE Inv
  OBVIOUS
<1>1. TypeOK
  BY FieldAssumption DEF FieldInit, TypeOK, Idle, Runs, Checkpoints
<1>2. KeysAreReturns /\ PlansAreNew /\ DoneIsApplied /\ RunIsSound
  BY DEF FieldInit, KeysAreReturns, PlansAreNew, DoneIsApplied, RunIsSound, Idle
<1> QED BY <1>1, <1>2 DEF Inv

-----------------------------------------------------------------------------
(* The caller and the people. *)

\* Steps that leave plans, keys and the run alone.
LEMMA FrameInv ==
    ASSUME Inv, TypeOK', UNCHANGED <<store, checkpoint, written, plans, run, history>>
    PROVE  Inv'
<1>1. KeysAreReturns' /\ PlansAreNew' /\ DoneIsApplied' /\ RunIsSound'
  BY DEF Inv, KeysAreReturns, PlansAreNew, DoneIsApplied, RunIsSound, history, Plan,
         Mutations, Key, Turn, Holding, Wanted
<1> QED BY <1>1 DEF Inv

LEMMA ReadInv == Inv /\ ReadTodoist => Inv'
<1> SUFFICES ASSUME Inv, ReadTodoist PROVE Inv'
  OBVIOUS
<1>1. draft' \in Snapshots
  BY SnapshotType DEF Inv, ReadTodoist, Sides
<1>2. TypeOK'
  BY <1>1 DEF Inv, TypeOK, ReadTodoist, sides, history
<1> QED BY <1>2, FrameInv DEF ReadTodoist, sides

LEMMA PlanInv == Inv /\ MakePlan => Inv'
<1> SUFFICES ASSUME Inv, MakePlan PROVE Inv'
  OBVIOUS
<1> DEFINE c == [todoist |-> draft, notion |-> Snapshot("notion"), expected |-> checkpoint]
<1>1. TypeOK /\ run = Idle /\ draft # NoDraft
  BY DEF Inv, MakePlan
<1>2. c \in Contents
  BY <1>1, SnapshotType DEF Contents, TypeOK, Sides
<1>3. CASE \E p \in 1..Len(plans) : plans[p] = c /\ current' = p /\ plans' = plans
  <2>1. TypeOK'
    BY <1>3 DEF Inv, TypeOK, MakePlan, sides, history
  <2> QED BY <1>3, <2>1, FrameInv DEF MakePlan, sides
<1>4. CASE current' = Len(plans) + 1 /\ plans' = Append(plans, c)
  <2>1. /\ plans' \in Seq(Contents) /\ Len(plans) \in Nat
        /\ Len(plans') = Len(plans) + 1 /\ plans'[Len(plans) + 1] = c
        /\ \A p \in 1..Len(plans) : plans'[p] = plans[p]
    BY <1>1, <1>2, <1>4 DEF TypeOK
  <2>2. \A p \in 1..Len(plans) : p \in 1..Len(plans')
    BY <2>1
  <2>3. TypeOK'
    <3>1. written' \subseteq (1..Len(plans')) \X Fields /\ returned' \subseteq (1..Len(plans')) \X Fields
      BY <2>2 DEF Inv, TypeOK, MakePlan, history
    <3>2. current' \in 0..Len(plans') /\ run'.plan \in 0..Len(plans')
      BY <1>1, <1>4, <2>1 DEF TypeOK, MakePlan, Idle
    <3>3. done' \subseteq 1..Len(plans')
      BY <2>2 DEF Inv, TypeOK, MakePlan, history
    <3> QED BY <2>1, <3>1, <3>2, <3>3 DEF Inv, TypeOK, MakePlan, sides, history
  <2>4. KeysAreReturns'
    BY DEF Inv, KeysAreReturns, MakePlan, history
  <2>5. PlansAreNew'
    <3> SUFFICES ASSUME NEW p \in 1..Len(plans'), NEW k \in plans'[p].expected.applied
                 PROVE  k[1] < p
      BY DEF PlansAreNew
    <3>1. CASE p \in 1..Len(plans)
      BY <2>1, <3>1 DEF Inv, PlansAreNew
    <3>2. CASE p = Len(plans) + 1
      <4>1. k \in written
        BY <2>1, <3>2 DEF Inv, KeysAreReturns
      <4>2. k[1] \in 1..Len(plans)
        BY <4>1 DEF Inv, TypeOK
      <4> QED BY <2>1, <3>2, <4>2
    <3> QED BY <2>1, <3>1, <3>2
  <2>6. DoneIsApplied'
    <3> SUFFICES ASSUME NEW p \in done, Mutations(plans'[p]) # {}
                 PROVE  \E f \in Fields : <<p, f>> \in checkpoint.applied
      BY DEF DoneIsApplied, MakePlan, history, Plan
    <3>1. p \in 1..Len(plans)
      BY DEF Inv, TypeOK
    <3>2. plans'[p] = plans[p]
      BY <2>1, <3>1
    <3> QED BY <3>2 DEF Inv, DoneIsApplied, Plan
  <2>7. RunIsSound'
    BY <1>1 DEF RunIsSound, MakePlan, Idle
  <2> QED BY <2>3, <2>4, <2>5, <2>6, <2>7 DEF Inv
<1> QED BY <1>3, <1>4 DEF MakePlan

\* A run that stays with its plan: what is to be shown of it.
LEMMA RunStep ==
    ASSUME Inv, run.plan # 0, run'.plan = run.plan, plans' = plans,
           run'.todo \subseteq run.todo, written \subseteq written', run.held \subseteq run'.held,
           Holding(Plan(run.plan), store') \subseteq run'.held,
           \A f \in run.todo \ run'.todo : Key(f) \in written /\ f \in run.held,
           run'.stage = "readback" =>
               \A f \in Fields : f \in run'.todo /\ (\A g \in run'.todo : f <= g) =>
                   <<run.plan, f>> \in written'
    PROVE  RunIsSound'
<1> DEFINE M == Mutations(Plan(run.plan))
<1>1. M' = M /\ Holding(Plan(run.plan), store)' = Holding(Plan(run.plan), store')
  BY DEF Plan, Mutations, Holding, Wanted
<1>2. run'.todo \subseteq M
  BY DEF Inv, RunIsSound
<1>3. \A f \in M \ run'.todo : <<run.plan, f>> \in written /\ f \in run.held
  <2> SUFFICES ASSUME NEW f \in M, f \notin run'.todo
               PROVE  <<run.plan, f>> \in written /\ f \in run.held
    OBVIOUS
  <2>1. CASE f \in run.todo
    BY <2>1 DEF Key
  <2>2. CASE f \notin run.todo
    BY <2>2 DEF Inv, RunIsSound, Key
  <2> QED BY <2>1, <2>2
<1> HIDE DEF M
<1>4. \A f \in M' \ run'.todo : Key(f)' \in written'
  BY <1>1, <1>3 DEF Key
<1>5. M' \ run'.todo \subseteq run'.held
  BY <1>1, <1>3
<1>6. run'.stage = "readback" => \A f \in Fields : Turn(f)' => Key(f)' \in written'
  BY DEF Turn, Key
<1> QED BY <1>1, <1>2, <1>4, <1>5, <1>6 DEF RunIsSound, M

\* What Watch() returns holds what the provider holds.
LEMMA WatchType ==
    ASSUME Inv, NEW st \in [Sides -> [Fields -> Values]]
    PROVE  /\ Watch(st) \in Runs
           /\ Watch(st).plan = run.plan /\ Watch(st).todo = run.todo
           /\ Watch(st).stage = run.stage
           /\ run.held \subseteq Watch(st).held
           /\ run.plan # 0 => Holding(Plan(run.plan), st) \subseteq Watch(st).held
           /\ run.plan = 0 => Watch(st) = Idle
<1>1. run \in Runs
  BY DEF Inv, TypeOK
<1>2. CASE run = Idle
  BY <1>1, <1>2 DEF Watch, Idle
<1>3. CASE run # Idle
  <2>1. run.plan # 0
    BY <1>3 DEF Inv, RunIsSound
  <2>2. Holding(Plan(run.plan), st) \subseteq Fields
    BY <2>1, RunPlan DEF Holding
  <2>3. Watch(st) = [run EXCEPT !.held = @ \cup Holding(Plan(run.plan), st)]
    BY <1>3 DEF Watch
  <2> QED BY <1>1, <2>1, <2>2, <2>3 DEF Runs
<1> QED BY <1>2, <1>3

LEMMA EditInv ==
    ASSUME Inv, NEW e \in Edits, Edit(e[1], e[2], e[3])
    PROVE  Inv'
<1>1. e[1] \in Sides /\ e[2] \in Fields /\ e[3] \in Values
  BY FieldAssumption
<1>2. store' \in [Sides -> [Fields -> Values]]
  BY <1>1 DEF Inv, TypeOK, Edit
<1>3. version' \in [Sides -> Nat]
  BY <1>1 DEF Inv, TypeOK, Edit
<1>4. run' = Watch(store')
  BY DEF Edit
<1>5. /\ run' \in Runs /\ run'.plan = run.plan /\ run'.todo = run.todo
      /\ run'.stage = run.stage /\ run.held \subseteq run'.held
      /\ run.plan # 0 => Holding(Plan(run.plan), store') \subseteq run'.held
      /\ run.plan = 0 => run' = Idle
  BY <1>2, <1>4, WatchType
<1>6. edits' \in 0..MaxEdits
  BY FieldAssumption DEF Inv, TypeOK, Edit
<1>7. TypeOK'
  BY <1>2, <1>3, <1>5, <1>6 DEF Inv, TypeOK, Edit, history
<1>8. KeysAreReturns' /\ PlansAreNew' /\ DoneIsApplied'
  BY DEF Inv, KeysAreReturns, PlansAreNew, DoneIsApplied, Edit, history, Plan
<1>9. RunIsSound'
  <2>1. CASE run.plan = 0
    BY <1>5, <2>1 DEF RunIsSound, Idle
  <2>2. CASE run.plan # 0
    <3>1. plans' = plans /\ written' = written
      BY DEF Edit
    <3>2. run.stage = "readback" => \A f \in Fields : Turn(f) => Key(f) \in written
      BY <2>2 DEF Inv, RunIsSound
    <3> QED BY <1>5, <2>2, <3>1, <3>2, RunStep DEF Turn, Key
  <2> QED BY <2>1, <2>2
<1> QED BY <1>7, <1>8, <1>9 DEF Inv

-----------------------------------------------------------------------------
(* apply(). *)

LEMMA ApplyInv ==
    ASSUME Inv, NEW p \in 1..Len(plans), Apply(p)
    PROVE  Inv'
<1>1. PICK at \in Times :
          run' = [plan |-> p, todo |-> Mutations(Plan(p)), stage |-> "write", at |-> at,
                  held |-> Holding(Plan(p), store)]
  BY DEF Apply
<1>2. at \in Nat /\ p \in Nat /\ p # 0 /\ p \in 0..Len(plans)
  BY FieldAssumption DEF Inv, TypeOK
<1>3. Mutations(Plan(p)) \subseteq Fields /\ Holding(Plan(p), store) \subseteq Fields
  BY DEF Mutations, Holding
<1>4. run' \in Runs
  BY <1>1, <1>2, <1>3 DEF Runs
<1>5. TypeOK'
  BY <1>1, <1>2, <1>4 DEF Inv, TypeOK, Apply, sides, history
<1>6. KeysAreReturns' /\ PlansAreNew' /\ DoneIsApplied'
  BY DEF Inv, KeysAreReturns, PlansAreNew, DoneIsApplied, Apply, history, Plan
<1>7. RunIsSound'
  <2>1. plans' = plans /\ store' = store /\ run'.plan = p
    BY <1>1 DEF Apply, sides
  <2> QED BY <1>1, <1>2, <2>1 DEF RunIsSound, Plan, Mutations, Holding, Wanted
<1> QED BY <1>5, <1>6, <1>7 DEF Inv

\* A step of apply() that fails keeps checkpoint and keys.
LEMMA FailInv ==
    ASSUME Inv, TypeOK', Fail, UNCHANGED <<plans, done, returned, repeated>>
    PROVE  Inv'
<1>1. KeysAreReturns' /\ PlansAreNew' /\ DoneIsApplied'
  BY DEF Inv, KeysAreReturns, PlansAreNew, DoneIsApplied, Fail, Plan
<1>2. RunIsSound'
  BY DEF RunIsSound, Fail, Idle
<1> QED BY <1>1, <1>2 DEF Inv

\* The field whose turn it is, and its mutation.
LEMMA Current ==
    ASSUME Inv, NEW f \in Fields, Turn(f)
    PROVE  /\ run.plan # 0 /\ run.plan \in 1..Len(plans)
           /\ f \in Mutations(Plan(run.plan))
           /\ Wanted(Plan(run.plan), f) \in Values
           /\ Target(f) \in Sides
           /\ Key(f) \in (1..Len(plans)) \X Fields
<1>1. run.plan # 0
  BY DEF Turn, Inv, RunIsSound, Idle
<1>2. f \in Mutations(Plan(run.plan))
  BY <1>1 DEF Turn, Inv, RunIsSound
<1> QED BY <1>1, <1>2, RunPlan, WantedIsValue, Domains DEF Key

LEMMA EffectType ==
    ASSUME Inv, NEW f \in Fields, Turn(f), InEffect(f)
    PROVE  store' \in [Sides -> [Fields -> Values]] /\ version' \in [Sides -> Nat]
<1>1. Wanted(Plan(run.plan), f) \in Values /\ Target(f) \in Sides
  BY Current
<1> QED BY <1>1 DEF Inv, TypeOK, InEffect

LEMMA SkipInv ==
    ASSUME Inv, NEW f \in Fields, Mutate(f), Skip(f)
    PROVE  Inv'
<1>1. Turn(f) /\ Key(f) \in written
  BY DEF Mutate, Skip
<1>2. run \in Runs /\ run' = [run EXCEPT !.stage = "readback"]
  BY DEF Inv, TypeOK, Skip
<1>3. /\ run' \in Runs /\ run'.plan = run.plan /\ run'.todo = run.todo
      /\ run'.held = run.held
  BY <1>2 DEF Runs
<1>4. TypeOK'
  BY <1>3 DEF Inv, TypeOK, Mutate, Skip, sides
<1>5. KeysAreReturns' /\ PlansAreNew' /\ DoneIsApplied'
  BY DEF Inv, KeysAreReturns, PlansAreNew, DoneIsApplied, Mutate, Skip, Plan
<1>6. run.plan # 0
  BY <1>1, Current
<1>7. \A g \in Fields : Turn(g) => Key(g) \in written
  BY <1>1, OneTurn
<1>8. RunIsSound'
  <2>1. plans' = plans /\ written' = written /\ store' = store
    BY DEF Mutate, Skip, sides
  <2>2. Holding(Plan(run.plan), store) \subseteq run.held
    BY <1>6 DEF Inv, RunIsSound
  <2> QED BY <1>3, <1>6, <1>7, <2>1, <2>2, RunStep DEF Turn, Key
<1> QED BY <1>4, <1>5, <1>8 DEF Inv

LEMMA WriteInv ==
    ASSUME Inv, NEW f \in Fields, Mutate(f), Write(f)
    PROVE  Inv'
<1>1. Turn(f) /\ InEffect(f) /\ Key(f) \notin written
  BY DEF Mutate, Write
<1>2. /\ run.plan # 0 /\ run.plan \in 1..Len(plans)
      /\ Key(f) \in (1..Len(plans)) \X Fields
  BY <1>1, Current
<1>3. store' \in [Sides -> [Fields -> Values]] /\ version' \in [Sides -> Nat]
  BY <1>1, EffectType
<1> DEFINE W == Watch(store')
<1>4. /\ W \in Runs /\ W.plan = run.plan /\ W.todo = run.todo
      /\ run.held \subseteq W.held
      /\ Holding(Plan(run.plan), store') \subseteq W.held
  BY <1>2, <1>3, WatchType
<1>5. run' = [W EXCEPT !.stage = "readback"]
  BY DEF Write
<1>6. /\ run' \in Runs /\ run'.plan = run.plan /\ run'.todo = run.todo
      /\ run.held \subseteq run'.held
      /\ Holding(Plan(run.plan), store') \subseteq run'.held
  <2> HIDE DEF W
  <2> QED BY <1>4, <1>5 DEF Runs
<1>7. /\ written' = written \cup {Key(f)} /\ returned' = returned \cup {Key(f)}
      /\ repeated' = {}
  BY <1>1 DEF Write, Inv, KeysAreReturns
<1>8. TypeOK'
  BY <1>2, <1>3, <1>6, <1>7 DEF Inv, TypeOK, Mutate, Write
<1>9. KeysAreReturns' /\ PlansAreNew' /\ DoneIsApplied'
  BY <1>7 DEF Inv, KeysAreReturns, PlansAreNew, DoneIsApplied, Mutate, Write, Plan
<1>10. RunIsSound'
  <2>1. plans' = plans
    BY DEF Mutate
  <2>2. \A g \in Fields : Turn(g) => Key(g) \in written'
    BY <1>1, <1>7, OneTurn
  <2> QED BY <1>2, <1>6, <1>7, <2>1, <2>2, RunStep DEF Turn, Key
<1> QED BY <1>8, <1>9, <1>10 DEF Inv

LEMMA RaiseInv ==
    ASSUME Inv, NEW f \in Fields, Mutate(f), WriteRaises(f)
    PROVE  Inv'
<1>1. Turn(f) /\ Key(f) \notin written /\ Fail /\ Raise
  BY DEF Mutate, WriteRaises
<1>2. returned' = returned /\ repeated' = repeated
  BY <1>1 DEF WriteRaises, Inv, KeysAreReturns
<1>3. store' \in [Sides -> [Fields -> Values]] /\ version' \in [Sides -> Nat]
  <2>1. CASE UNCHANGED sides
    BY <2>1 DEF sides, Inv, TypeOK
  <2>2. CASE InEffect(f)
    BY <1>1, <2>2, EffectType
  <2> QED BY <2>1, <2>2 DEF WriteRaises
<1>4. failures' \in 0..MaxFailures
  BY <1>1, FieldAssumption DEF Raise, Inv, TypeOK
<1>5. run' = Idle /\ checkpoint' = checkpoint /\ written' = written
  BY <1>1 DEF Fail
<1>6. Idle \in Runs /\ Idle.plan = 0
  BY DEF Idle, Runs
<1>7. TypeOK'
  BY <1>2, <1>3, <1>4, <1>5, <1>6 DEF Inv, TypeOK, Mutate
<1> QED BY <1>1, <1>2, <1>7, FailInv DEF Mutate

LEMMA ReadbackInv ==
    ASSUME Inv, NEW f \in Fields, Readback(f)
    PROVE  Inv'
<1>1. Turn(f) /\ run.stage = "readback"
  BY DEF Readback
<1>2. run.plan # 0 /\ f \in Mutations(Plan(run.plan))
  BY <1>1, Current
<1>3. CASE /\ Verified(f)
           /\ run' = [run EXCEPT !.stage = "write", !.todo = @ \ {f}]
           /\ UNCHANGED <<checkpoint, written, failures>>
  <2>1. run \in Runs
    BY DEF Inv, TypeOK
  <2>2. /\ run' \in Runs /\ run'.plan = run.plan /\ run'.todo = run.todo \ {f}
        /\ run'.held = run.held /\ run'.stage = "write"
    BY <1>3, <2>1 DEF Runs
  <2>3. TypeOK'
    BY <1>3, <2>2 DEF Inv, TypeOK, Readback, sides, history
  <2>4. KeysAreReturns' /\ PlansAreNew' /\ DoneIsApplied'
    BY <1>3 DEF Inv, KeysAreReturns, PlansAreNew, DoneIsApplied, Readback, history, Plan
  <2>5. Key(f) \in written
    BY <1>1, <1>2 DEF Inv, RunIsSound
  <2>6. f \in run.held
    BY <1>2, <1>3 DEF Verified, Holding, Inv, RunIsSound
  <2>7. RunIsSound'
    <3>1. plans' = plans /\ written' = written /\ store' = store
      BY <1>3 DEF Readback, sides
    <3>2. Holding(Plan(run.plan), store) \subseteq run.held
      BY <1>2 DEF Inv, RunIsSound
    <3>3. run'.stage # "readback"
      BY <2>2
    <3> QED BY <1>2, <2>2, <2>5, <2>6, <3>1, <3>2, <3>3, RunStep
  <2> QED BY <2>3, <2>4, <2>7 DEF Inv
<1>4. CASE Fail /\ failures' \in 0..MaxFailures
  <2>1. Idle \in Runs /\ Idle.plan = 0
    BY DEF Idle, Runs
  <2>2. TypeOK'
    BY <1>4, <2>1 DEF Inv, TypeOK, Readback, Fail, sides, history
  <2> QED BY <1>4, <2>2, FailInv DEF Readback, history
<1>5. Raise => failures' \in 0..MaxFailures
  BY FieldAssumption DEF Raise, Inv, TypeOK
<1>6. failures' = failures => failures' \in 0..MaxFailures
  BY DEF Inv, TypeOK
<1> QED BY <1>3, <1>4, <1>5, <1>6 DEF Readback

LEMMA FinishInv == Inv /\ Finish => Inv'
<1> SUFFICES ASSUME Inv, Finish PROVE Inv'
  OBVIOUS
<1>1. run.stage = "write" /\ run.todo = {} /\ run.plan # 0
  BY DEF Finish, Inv, RunIsSound, Idle
<1>2. run.plan \in 1..Len(plans) /\ Mutations(Plan(run.plan)) \subseteq Fields
  BY <1>1, RunPlan
<1>3. /\ checkpoint' = [cursor |-> run.at, applied |-> written]
      /\ done' = done \cup {run.plan} /\ run' = Idle
      /\ UNCHANGED <<sides, written, plans, current, draft, returned, repeated, edits, failures>>
  BY DEF Finish, Token
<1>4. run.at \in Nat /\ written \subseteq Keys
  BY DEF Inv, TypeOK, Runs, Keys
<1>5. Idle \in Runs /\ Idle.plan = 0
  BY DEF Idle, Runs
<1>6. TypeOK'
  <2>1. checkpoint' \in Checkpoints
    BY <1>3, <1>4 DEF Checkpoints
  <2>2. done' \subseteq 1..Len(plans)
    BY <1>2, <1>3 DEF Inv, TypeOK
  <2>3. run' \in Runs /\ run'.plan \in 0..Len(plans)
    BY <1>3, <1>5 DEF Inv, TypeOK
  <2> QED BY <1>3, <2>1, <2>2, <2>3 DEF Inv, TypeOK, sides
<1>7. KeysAreReturns' /\ PlansAreNew'
  BY <1>3 DEF Inv, KeysAreReturns, PlansAreNew
<1>8. DoneIsApplied'
  <2> SUFFICES ASSUME NEW p \in done', Mutations(Plan(p)) # {}
               PROVE  \E f \in Fields : <<p, f>> \in written
    BY <1>3 DEF DoneIsApplied, Plan, Mutations, Wanted
  <2>1. CASE p = run.plan
    BY <1>1, <1>2, <2>1 DEF Inv, RunIsSound, Key
  <2>2. CASE p \in done
    BY <2>2 DEF Inv, DoneIsApplied, KeysAreReturns
  <2> QED BY <1>3, <2>1, <2>2
<1>9. RunIsSound'
  BY <1>3, <1>5 DEF RunIsSound
<1> QED BY <1>6, <1>7, <1>8, <1>9 DEF Inv

LEMMA NextInv == Inv /\ [FieldNext]_vars => Inv'
<1> SUFFICES ASSUME Inv, [FieldNext]_vars PROVE Inv'
  OBVIOUS
<1>1. CASE ReadTodoist
  BY <1>1, ReadInv
<1>2. CASE MakePlan
  BY <1>2, PlanInv
<1>3. ASSUME NEW e \in Edits, Edit(e[1], e[2], e[3]) PROVE Inv'
  BY <1>3, EditInv
<1>4. ASSUME NEW p \in 1..Len(plans), Apply(p) PROVE Inv'
  BY <1>4, ApplyInv
<1>5. CASE Finish
  BY <1>5, FinishInv
<1>6. ASSUME NEW f \in Fields, Mutate(f) PROVE Inv'
  BY <1>6, SkipInv, WriteInv, RaiseInv DEF Mutate
<1>7. ASSUME NEW f \in Fields, Readback(f) PROVE Inv'
  BY <1>7, ReadbackInv
<1>8. CASE UNCHANGED vars
  <2>1. TypeOK'
    BY <1>8 DEF vars, sides, history, Inv, TypeOK
  <2> QED BY <1>8, <2>1, FrameInv DEF vars, sides
<1> QED BY <1>1, <1>2, <1>3, <1>4, <1>5, <1>6, <1>7, <1>8 DEF FieldNext, Execute

-----------------------------------------------------------------------------

\* The inductive invariant holds in every state of every behaviour.
THEOREM FieldInvariant == Spec => []Inv
BY InitInv, NextInv, PTL DEF Spec

\* Every variable has its type.
THEOREM FieldTypeCorrect == Spec => []TypeOK
<1>1. Inv => TypeOK
  BY DEF Inv
<1> QED BY <1>1, FieldInvariant, PTL

\* A plan that wrote something and was reported consistent never applies again.
THEOREM PlanAppliedOnce == Spec => []AppliedOnce
<1>1. Inv => AppliedOnce
  <2> SUFFICES ASSUME Inv, NEW p \in done, Mutations(Plan(p)) # {}, Fresh(Plan(p))
               PROVE  FALSE
    BY DEF AppliedOnce
  <2>1. p \in 1..Len(plans)
    BY DEF Inv, TypeOK
  <2>2. PICK f \in Fields : <<p, f>> \in checkpoint.applied
    BY DEF Inv, DoneIsApplied
  <2>3. <<p, f>> \in plans[p].expected.applied
    BY <2>2 DEF Fresh, Plan
  <2>4. p < p
    BY <2>1, <2>3 DEF Inv, PlansAreNew
  <2> QED BY <2>1, <2>4
<1> QED BY <1>1, FieldInvariant, PTL

\* No write is made again once it has returned.
THEOREM NothingWrittenTwice == Spec => []NoWriteTwice
<1>1. Inv => NoWriteTwice
  BY DEF Inv, KeysAreReturns, NoWriteTwice
<1> QED BY <1>1, FieldInvariant, PTL

\* What a run has passed was in effect since it began.
THEOREM CheckpointEarned == Spec => []CheckpointIsEarned
<1>1. Inv => CheckpointIsEarned
  BY DEF Inv, RunIsSound, CheckpointIsEarned
<1> QED BY <1>1, FieldInvariant, PTL

=============================================================================
