------------------------------ MODULE Conditions ------------------------------
(***************************************************************************)
(* The condition ledger (package condition: src/unnamed/part_001 and      *)
(* src/pkg/condition/getter.go): the ordered list of conditions in an     *)
(* object's status, the setters the controllers call on it and the        *)
(* getters that read it.  The state machine is the conditions of one     *)
(* object under any sequence of setter calls, and the clock metav1.Now() *)
(* reads (one tick is one second, the precision the time is stored at).  *)
(***************************************************************************)
EXTENDS Naturals, Sequences, SequencesExt

CONSTANTS
  Types,     \* ConditionType values the controllers set
  Reasons,   \* ConditionReason values (and "" for none)
  Messages,  \* messages (and "" for none)
  MaxTime    \* bound on the clock

ASSUME "" \in Reasons /\ "" \in Messages /\ MaxTime \in Nat

Statuses == {"True", "False", "Unknown"}

Condition == [type: Types, status: Statuses, reason: Reasons,
              message: Messages, time: 0..MaxTime]

\* Get's nil.
NoCondition == [type |-> "none", status |-> "none"]

VARIABLES
  conds,    \* the object's status.conditions
  now,      \* metav1.Now()
  lastSet   \* history: the condition of the latest setter call

vars == <<conds, now, lastSet>>

(***************************************************************************)
(* The constructors: a new condition stamped with the current time.        *)
(***************************************************************************)
\* Mutant: the status written as a lowercase literal.
TrueConditionLowercase(t) ==
  [type |-> t, status |-> "true", reason |-> "", message |-> "", time |-> now]

TrueCondition(t) ==
  [type |-> t, status |-> "True", reason |-> "", message |-> "", time |-> now]

FalseCondition(t, r, m) ==
  [type |-> t, status |-> "False", reason |-> r, message |-> m, time |-> now]

UnknownCondition(t, r, m) ==
  [type |-> t, status |-> "Unknown", reason |-> r, message |-> m, time |-> now]

\* The index of the first condition of type t, 0 if there is none.
IndexOf(cs, t) == SelectInSeq(cs, LAMBDA x : x.type = t)

\* Mutant: a changed reason or message alone is not written.
ChangedStatusOnly(old, c) == old.status # c.status

\* setCondition's test for replacing the condition it found.
Changed(old, c) ==
  old.status # c.status \/ old.reason # c.reason \/ old.message # c.message

\* Mutant: a changed condition appended instead of replacing the old one.
SetConditionAppends(cs, c) ==
  LET i == IndexOf(cs, c.type)
  IN IF i # 0 /\ ~Changed(cs[i], c) THEN cs ELSE Append(cs, c)

\* Mutant: the found condition replaced whether or not it changed.
SetConditionAlwaysReplaces(cs, c) ==
  LET i == IndexOf(cs, c.type)
  IN IF i = 0 THEN Append(cs, c) ELSE ReplaceAt(cs, i, c)

\* setCondition: replace the first condition of the type if its status,
\* reason or message differ (the new one brings its own time), keep it
\* otherwise; append if there is none.
SetCondition(cs, c) ==
  LET i == IndexOf(cs, c.type)
  IN IF i = 0 THEN Append(cs, c)
     ELSE IF Changed(cs[i], c) THEN ReplaceAt(cs, i, c)
     ELSE cs

\* Get: the first condition of the type, or nil.
Get(cs, t) == IF IndexOf(cs, t) = 0 THEN NoCondition ELSE cs[IndexOf(cs, t)]

Has(cs, t) == IndexOf(cs, t) # 0

IsTrue(cs, t) == Has(cs, t) /\ Get(cs, t).status = "True"

IsFalse(cs, t) == Has(cs, t) /\ Get(cs, t).status = "False"

\* IsUnknown: an absent condition counts as Unknown.
IsUnknown(cs, t) == ~Has(cs, t) \/ Get(cs, t).status = "Unknown"

(***************************************************************************)
(* Set, SetTrue, SetFalse and SetUnknown, and the clock.                   *)
(***************************************************************************)
\* Every SetFalse and SetUnknown call of the controllers passes a reason
\* constant; only SetTrue leaves the reason empty.
Requests ==
  LET given == Reasons \ {""}
  IN {TrueCondition(t) : t \in Types}
     \cup {FalseCondition(t, r, m) : t \in Types, r \in given, m \in Messages}
     \cup {UnknownCondition(t, r, m) : t \in Types, r \in given, m \in Messages}

Set(c) == conds' = SetCondition(conds, c) /\ lastSet' = c /\ UNCHANGED now

Tick == now < MaxTime /\ now' = now + 1 /\ UNCHANGED <<conds, lastSet>>

Init == conds = <<>> /\ now = 0 /\ lastSet = NoCondition

Next == (\E c \in Requests : Set(c)) \/ Tick

Spec == Init /\ [][Next]_vars

TypeOK == conds \in Seq(Condition) /\ now \in 0..MaxTime
          /\ lastSet \in Condition \cup {NoCondition}

(***************************************************************************)
(* Properties.                                                             *)
(***************************************************************************)

\* However the controllers call the setters, an object never holds two
\* conditions of one type: setCondition replaces in place the entry its
\* loop finds, so Get (which returns the first match) never reads a stale
\* duplicate.
NoDuplicateTypes ==
  \A i, j \in 1..Len(conds) : i # j => conds[i].type # conds[j].type

\* After any setter call, and until the next one, Get returns the status,
\* reason and message that call set (the callers, e.g. updateStatus and
\* syncPodStatus, persist what they set and read it back through Get).
SetThenGet ==
  lastSet # NoCondition =>
    /\ Get(conds, lastSet.type).status = lastSet.status
    /\ Get(conds, lastSet.type).reason = lastSet.reason
    /\ Get(conds, lastSet.type).message = lastSet.message

\* A setter call that repeats a condition's status, reason and message
\* leaves its lastTransitionTime alone, however late it comes: the time of
\* a present condition changes only with one of those three fields.  The
\* Chain and Miner passes re-set their conditions on every pass, and
\* their unfiltered watches re-queue on any status change.
TimeMovesOnlyWithChange ==
  [][\A t \in Types :
       Has(conds, t) /\ Get(conds', t).time # Get(conds, t).time =>
         Changed(Get(conds, t), Get(conds', t))]_vars
=============================================================================
