----------------------------- MODULE TaskGroup ------------------------------
(***************************************************************************)
(* src/task_group.c: a handler that calls another one when it has been     *)
(* called num_tasks times, and frees itself after that.                    *)
(***************************************************************************)
EXTENDS CallStack

CONSTANTS Groups,   \* the groups
          SizeMax   \* SIZE_MAX

VARIABLE group      \* group[g]: task_group_ctx

GroupHandler(g) ==
    IF group[g].mem = "none" THEN NullHandler ELSE Frame("task_group_callback", g)

\* make_task_group; without memory the handler's callback is NULL.
make_task_group(g, num_tasks, hnd) ==
    \/ group' = [group EXCEPT ![g] = [mem |-> "live", remaining |-> num_tasks, hnd |-> hnd]]
    \/ UNCHANGED group

\* Mutants of Decremented: the count wraps round early; each call counts twice.
WrappedEarly(x) == IF x <= 1 THEN SizeMax ELSE x - 1

DecrementedTwice(x) == IF x <= 2 THEN 0 ELSE x - 2

Decremented(x) == IF x = 0 THEN SizeMax ELSE x - 1

task_group_callback ==
    /\ Running("task_group_callback")
    /\ LET left == Decremented(group[This].remaining)
       IN  /\ group' = [group EXCEPT ![This].remaining = left]
           /\ IF left = 0 THEN CallsThen(group[This].hnd, Frame("free_group", This))
                          ELSE Returns

free_group ==
    /\ Running("free_group")
    /\ group' = [group EXCEPT ![This].mem = "freed"]
    /\ Returns

GroupSteps == task_group_callback \/ free_group

GroupsInit == group = [g \in Groups |-> [mem |-> "none", remaining |-> 0,
                                         hnd |-> NullHandler]]
=============================================================================
