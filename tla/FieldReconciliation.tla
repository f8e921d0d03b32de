------------------------- MODULE FieldReconciliation -------------------------
(***************************************************************************)
(* Field reconciliation (src/atlas_ros/reconciliation/engine.py): one       *)
(* object kept in Todoist and in Notion.  Each field has one authority; a   *)
(* plan made from a snapshot of each side copies what differs from the      *)
(* authority to the other side, and apply() executes an authorized plan and *)
(* moves the checkpoint.  The keys of writes that returned outlive a failed *)
(* apply(), so that a retry reads back instead of writing again.            *)
(*                                                                         *)
(* A step is one call of a provider.  People edit both sides meanwhile, a   *)
(* call may fail before or after its effect, and any plan ever made may be  *)
(* authorized and applied while its checkpoint stands.  The caller does one *)
(* thing at a time: the state is an object of one process.                  *)
(***************************************************************************)
EXTENDS Integers, Sequences

CONSTANTS
    NumFields,    \* fields are numbered in the order of their names
    Rule,         \* Rule[f]: the authority of field f, or "derived", or "unknown"
    Values,       \* what a field may hold, Absent included
    Norm,         \* Norm[v]: v as _normalize() writes it
    Absent,
    Starts,       \* what the two sides may hold at first
    Edits,        \* what people type: Edits is a set of <<side, field, value>>
    Versioned,    \* TRUE: a snapshot carries the object's version
    Times,        \* when snapshots may have been captured
    MaxEdits,     \* bound on the edits of people
    MaxFailures   \* bound on calls that raise

Fields == 1..NumFields
Sides == {"todoist", "notion"}
Target(f) == IF Rule[f] = "todoist" THEN "notion" ELSE "todoist"

ASSUME FieldAssumption ==
    /\ NumFields \in Nat
    /\ Rule \in [Fields -> Sides \cup {"derived", "unknown"}]
    /\ Norm \in [Values -> Values] /\ \A v \in Values : Norm[Norm[v]] = Norm[v]
    /\ Absent \in Values
    /\ Starts \subseteq [Sides -> [Fields -> Values]]
    /\ Edits \subseteq Sides \X Fields \X Values /\ Versioned \in BOOLEAN
    /\ Times \subseteq Nat
    /\ MaxEdits \in Nat /\ MaxFailures \in Nat

VARIABLES
    store,       \* store[s][f]: field f on side s
    version,     \* version[s]: the revision of the object on side s
    checkpoint,  \* the CheckpointToken of the state
    written,     \* successful_write_keys
    plans,       \* what plan() has ever returned; a plan is known by its position
    current,     \* the plan made last, or 0
    draft,       \* the Todoist snapshot taken for the next plan, or NoDraft
    run,         \* the apply() in progress, or Idle
    done,        \* history: the plans reported consistent
    returned,    \* history: the keys of writes that returned
    repeated,    \* history: keys written once more after their write had returned
    edits, failures

sides == <<store, version>>
history == <<done, returned, repeated>>
vars == <<sides, checkpoint, written, plans, current, draft, run, history, edits, failures>>

-----------------------------------------------------------------------------
(* Snapshots, plans and keys. *)

Snapshots == [values : [Fields -> Values], version : Nat]
NoDraft == [values |-> <<>>, version |-> -1]

\* A mutation's key digests its plan's identity, its field and its value; the plan
\* determines the value.
Keys == Nat \X Fields
Checkpoints == [cursor : Nat, applied : SUBSET Keys]

\* What plan_id digests.  The capture times are no part of it.
Contents == [todoist : Snapshots, notion : Snapshots, expected : Checkpoints]

\* Mutation: a snapshot is known by its values alone, and a later
\* plan has the keys of an earlier one whose writes did not last.
SnapshotByValues(s) == [values |-> store[s], version |-> 0]
Snapshot(s) == [values |-> store[s], version |-> IF Versioned THEN version[s] ELSE 0]

Wanted(c, f) == Norm[c[Rule[f]].values[f]]

\* The fields a plan writes: known ones that differ once normalized.
Mutations(c) ==
    {f \in Fields : /\ Rule[f] \in Sides
                    /\ Wanted(c, f) # Norm[c[Target(f)].values[f]]}

\* A field without a rule, on either side, is a blocking conflict.
Blocking(c) ==
    \E f \in Fields : /\ Rule[f] = "unknown"
                      /\ c.todoist.values[f] # Absent \/ c.notion.values[f] # Absent

Idle == [plan |-> 0, todo |-> {}, stage |-> "idle", at |-> 0, held |-> {}]
Runs == [plan : Nat, todo : SUBSET Fields, stage : {"idle", "write", "readback"},
         at : Nat, held : SUBSET Fields]

Plan(p) == plans[p]

Key(f) == <<run.plan, f>>

\* ordered_mutations are ordered by the names of their fields.
Turn(f) == f \in run.todo /\ \A g \in run.todo : f <= g

\* History of a run: the mutations whose value the provider holds.
Holding(c, st) == {f \in Mutations(c) : st[Target(f)][f] = Wanted(c, f)}
Watch(st) == IF run = Idle THEN run
             ELSE [run EXCEPT !.held = @ \cup Holding(Plan(run.plan), st)]

FieldInit ==
    /\ store \in Starts
    /\ version = [s \in Sides |-> 0]
    /\ checkpoint = [cursor |-> 0, applied |-> {}]
    /\ written = {} /\ plans = <<>> /\ current = 0
    /\ draft = NoDraft /\ run = Idle
    /\ done = {} /\ returned = {} /\ repeated = {}
    /\ edits = 0 /\ failures = 0

-----------------------------------------------------------------------------
(* The caller: it reads one side, then the other, and has a plan made.       *)

ReadTodoist ==
    /\ run = Idle /\ draft = NoDraft
    /\ draft' = Snapshot("todoist")
    /\ UNCHANGED <<sides, checkpoint, written, plans, current, run, history, edits, failures>>

\* plan(): equal contents have equal identities.
MakePlan ==
    /\ run = Idle /\ draft # NoDraft
    /\ LET c == [todoist |-> draft, notion |-> Snapshot("notion"), expected |-> checkpoint]
       IN  \/ \E p \in 1..Len(plans) :
                 plans[p] = c /\ current' = p /\ plans' = plans
           \/ /\ \A p \in 1..Len(plans) : plans[p] # c
              /\ current' = Len(plans) + 1 /\ plans' = Append(plans, c)
    /\ draft' = NoDraft
    /\ UNCHANGED <<sides, checkpoint, written, run, history, edits, failures>>

\* Somebody changes a field, whoever its authority is.
Edit(s, f, v) ==
    /\ edits < MaxEdits /\ edits' = edits + 1
    /\ store[s][f] # v /\ store' = [store EXCEPT ![s][f] = v]
    /\ version' = [version EXCEPT ![s] = @ + 1]
    /\ run' = Watch(store')
    /\ UNCHANGED <<checkpoint, written, plans, current, draft, history, failures>>

-----------------------------------------------------------------------------
(* apply(). *)

\* Mutation: checkpoints are compared by their time alone.
FreshByCursor(c) == c.expected.cursor = checkpoint.cursor

\* It refuses a plan that is not authorized, is blocked, or has a stale checkpoint.
Fresh(c) == c.expected = checkpoint

Apply(p) ==
    /\ run = Idle /\ p \in 1..Len(plans)
    /\ Fresh(Plan(p)) /\ ~Blocking(Plan(p))
    /\ \E at \in Times :
          run' = [plan |-> p, todo |-> Mutations(Plan(p)), stage |-> "write", at |-> at,
                  held |-> Holding(Plan(p), store)]
    /\ UNCHANGED <<sides, checkpoint, written, plans, current, draft, history, edits, failures>>

\* Mutation: the keys of the failed plan are taken back.
FailForgets ==
    /\ run' = Idle
    /\ written' = {k \in written : k[1] # run.plan}
    /\ UNCHANGED checkpoint

\* The except clause: the checkpoint stays, the keys stay.
Fail ==
    /\ run' = Idle
    /\ UNCHANGED <<checkpoint, written>>

Raise == failures < MaxFailures /\ failures' = failures + 1

InEffect(f) ==
    /\ store' = [store EXCEPT ![Target(f)][f] = Wanted(Plan(run.plan), f)]
    /\ version' = [version EXCEPT ![Target(f)] = @ + 1]

\* The key says that the write returned: it is not made again.
Skip(f) ==
    /\ Key(f) \in written
    /\ run' = [run EXCEPT !.stage = "readback"]
    /\ UNCHANGED <<sides, checkpoint, written, returned, repeated, failures>>

Write(f) ==
    /\ Key(f) \notin written
    /\ InEffect(f)
    /\ run' = [Watch(store') EXCEPT !.stage = "readback"]
    /\ written' = written \cup {Key(f)}
    /\ returned' = returned \cup {Key(f)}
    /\ repeated' = repeated \cup (returned \cap {Key(f)})
    /\ UNCHANGED <<checkpoint, failures>>

\* There is no provider for the side, or provider.apply() raises, before its effect or
\* after it.
WriteRaises(f) ==
    /\ Key(f) \notin written
    /\ Raise /\ Fail
    /\ \/ UNCHANGED <<sides, returned, repeated>>
       \/ /\ InEffect(f)
          /\ repeated' = repeated \cup (returned \cap {Key(f)})
          /\ UNCHANGED returned

Mutate(f) ==
    /\ run.stage = "write" /\ Turn(f)
    /\ Skip(f) \/ Write(f) \/ WriteRaises(f)
    /\ UNCHANGED <<plans, current, draft, done, edits>>

\* Mutation: a recorded key stands for the readback.
VerifiedByKey(f) == Key(f) \in written

Verified(f) == store[Target(f)][f] = Wanted(Plan(run.plan), f)

Readback(f) ==
    /\ run.stage = "readback" /\ Turn(f)
    /\ \/ /\ Verified(f)
          /\ run' = [run EXCEPT !.stage = "write", !.todo = @ \ {f}]
          /\ UNCHANGED <<checkpoint, written, failures>>
       \/ ~Verified(f) /\ Fail /\ UNCHANGED failures
       \/ Raise /\ Fail
    /\ UNCHANGED <<sides, plans, current, draft, history, edits>>

\* Every write is verified: the checkpoint takes the time of the newest snapshot and
\* every key written so far.
Token == [cursor |-> run.at, applied |-> written]

Finish ==
    /\ run.stage = "write" /\ run.todo = {}
    /\ checkpoint' = Token
    /\ done' = done \cup {run.plan}
    /\ run' = Idle
    /\ UNCHANGED <<sides, written, plans, current, draft, returned, repeated, edits, failures>>

Execute == Finish \/ \E f \in Fields : Mutate(f) \/ Readback(f)

FieldNext ==
    \/ ReadTodoist \/ MakePlan
    \/ \E e \in Edits : Edit(e[1], e[2], e[3])
    \/ \E p \in 1..Len(plans) : Apply(p)
    \/ Execute

Spec == FieldInit /\ [][FieldNext]_vars

\* apply() runs to its end; the user reads, plans, and sooner or later applies the
\* plan made last rather than an older one.
FairSpec ==
    /\ Spec
    /\ WF_vars(Execute) /\ SF_vars(ReadTodoist \/ MakePlan)
    /\ SF_vars(current # 0 /\ Apply(current))

-----------------------------------------------------------------------------
(* Properties. *)

\* Every variable has its type: keys, the checkpoint's and the state's, are those of
\* plans that were made.
TypeOK ==
    /\ store \in [Sides -> [Fields -> Values]]
    /\ version \in [Sides -> Nat]
    /\ checkpoint \in Checkpoints /\ written \subseteq (1..Len(plans)) \X Fields
    /\ plans \in Seq(Contents) /\ current \in 0..Len(plans)
    /\ draft \in Snapshots \cup {NoDraft}
    /\ run \in Runs /\ run.plan \in 0..Len(plans)
    /\ done \subseteq 1..Len(plans)
    /\ returned \subseteq (1..Len(plans)) \X Fields /\ repeated \subseteq returned
    /\ edits \in 0..MaxEdits /\ failures \in 0..MaxFailures

\* A plan that wrote something and was reported consistent is stale for ever: no
\* retry, replay or older plan brings back the checkpoint it expects (engine.py:211).
AppliedOnce ==
    \A p \in done : Mutations(Plan(p)) # {} => ~Fresh(Plan(p))

\* A write that returned is never made again under its key, whatever failed after it
\* and however often its plan is retried or made again (engine.py:223).
NoWriteTwice == repeated = {}

\* A mutation apply() has passed was in effect at the provider since this apply()
\* began, also when the write was an earlier attempt's (engine.py:249): the checkpoint
\* moves only after complete readback.
CheckpointIsEarned ==
    run.plan # 0 => Mutations(Plan(run.plan)) \ run.todo \subseteq run.held

Aligned ==
    \A f \in Fields : Rule[f] \in Sides =>
        Norm[store["todoist"][f]] = Norm[store["notion"][f]]
Unmapped ==
    \E s \in Sides, f \in Fields : Rule[f] = "unknown" /\ store[s][f] # Absent

\* When people stop editing and calls stop failing, the two sides agree for good, or a
\* field without a rule blocks every plan.
Converges == <>[](Aligned \/ Unmapped)

=============================================================================
