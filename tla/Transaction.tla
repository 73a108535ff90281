----------------------------- MODULE Transaction -----------------------------
(***************************************************************************)
(* What a system.I transaction promises its caller, per instance:         *)
(*   - Commit makes the ops' effects visible one at a time, in the order   *)
(*     they were registered;                                               *)
(*   - when an op fails, the effects of the ops before it are undone in   *)
(*     reverse order and the transaction ends "failed" with no effect     *)
(*     left;                                                               *)
(*   - Revert(criteria) undoes, last first, exactly the effects of the    *)
(*     ops the criteria select, and leaves the others in place;           *)
(*   - one instance's steps never touch another instance's effects.       *)
(*   - a transaction whose process dies keeps the effects it had, and     *)
(*     nothing undoes them.                                                *)
(* Every transaction eventually ends, failed, reverted or dead.            *)
(***************************************************************************)
EXTENDS Naturals, Sequences, SequencesExt

CONSTANTS
  Inst,   \* the transactions (one per hakurei instance)
  Ops     \* the registered ops, in registration order

VARIABLES
  state,     \* "uncommitted", "committing", "committed", "rollback",
             \* "failed", "reverting", "reverted", "crashed"
  effect,    \* the ops whose effect is visible on the host
  selected   \* the ops the running revert or rollback undoes

vars == <<state, effect, selected>>

OpSet == Range(Ops)

\* Op o comes before op p in registration order.
Before(o, p) == IndexFirstSubSeq(<<o>>, Ops) < IndexFirstSubSeq(<<p>>, Ops)

Begin(i) ==
  /\ state[i] = "uncommitted"
  /\ state' = [state EXCEPT ![i] = "committing"]
  /\ UNCHANGED <<effect, selected>>

\* The next op in order takes effect; Commit returns with the last one.
Apply(i) ==
  /\ state[i] = "committing"
  /\ \E o \in OpSet \ effect[i] :
       /\ \A p \in OpSet : Before(p, o) => p \in effect[i]
       /\ effect' = [effect EXCEPT ![i] = @ \cup {o}]
  /\ state' = [state EXCEPT ![i] = IF effect'[i] = OpSet THEN "committed" ELSE @]
  /\ UNCHANGED selected

\* An op fails: everything applied so far is to be undone; with nothing
\* applied Commit returns the error at once.
Fail(i) ==
  /\ state[i] = "committing"
  /\ state' = [state EXCEPT ![i] = IF effect[i] = {} THEN "failed" ELSE "rollback"]
  /\ selected' = [selected EXCEPT ![i] = OpSet]
  /\ UNCHANGED effect

StartRevert(i) ==
  /\ state[i] = "committed"
  /\ \E s \in SUBSET OpSet :
       selected' = [selected EXCEPT ![i] = s]
  /\ state' = [state EXCEPT ![i] = "reverting"]
  /\ UNCHANGED effect

\* The last selected op still in effect is undone.
Undo(i) ==
  /\ state[i] \in {"rollback", "reverting"}
  /\ \E o \in effect[i] \cap selected[i] :
       /\ \A p \in effect[i] \cap selected[i] : ~Before(o, p)
       /\ effect' = [effect EXCEPT ![i] = @ \ {o}]
  /\ UNCHANGED <<state, selected>>

Finish(i) ==
  /\ state[i] \in {"rollback", "reverting"}
  /\ effect[i] \cap selected[i] = {}
  /\ state' = [state EXCEPT ![i] = IF @ = "rollback" THEN "failed" ELSE "reverted"]
  /\ UNCHANGED <<effect, selected>>

\* The process running the transaction dies: its effects stay as they are.
Crash(i) ==
  /\ state[i] \notin {"uncommitted", "failed", "reverted", "crashed"}
  /\ state' = [state EXCEPT ![i] = "crashed"]
  /\ selected' = [selected EXCEPT ![i] = {}]
  /\ UNCHANGED effect

Init ==
  /\ state = [i \in Inst |-> "uncommitted"]
  /\ effect = [i \in Inst |-> {}]
  /\ selected = [i \in Inst |-> {}]

Step(i) ==
  \/ Begin(i) \/ Apply(i) \/ Fail(i)
  \/ StartRevert(i) \/ Undo(i) \/ Finish(i)

Next == \E i \in Inst : Step(i) \/ Crash(i)

\* A crash is never owed: fairness covers only the transaction's own steps.
Spec == Init /\ [][Next]_vars /\ \A i \in Inst : WF_vars(Step(i))
=============================================================================
