------------------------- MODULE AsyncGroups_proof --------------------------
(***************************************************************************)
(* Proofs about AsyncProgram, continued: what a task group counts, which   *)
(* handlers it calls, and when the coroutine goes on and is cleaned up.    *)
(* AsyncProgram_proof has the types, the order in which operations are     *)
(* begun, and the life of one operation.                                   *)
(***************************************************************************)
EXTENDS AsyncProgram_proof

-----------------------------------------------------------------------------
(* The invariant.                                                          *)

\* The function that runs is the group's, called by one of its tasks.
Calling(g) == Running("task_group_callback") /\ This = g

\* The groups whose handler is running.
Ending == InProgress({"free_group"})

\* Every task has called the group and every call has returned; nothing was done
\* for it yet.
Finished(g)  == ReportedTo(g) = DOMAIN Tasks[g] /\ Tasks[g] # << >> /\ ~Calling(g)
Untouched(g) == group[g].mem = "none" /\ Unreached(g)

\* A call is counted in ReportedTo when it begins, and in remaining by its function.
Counted(g) ==
    /\ Calling(g)  => group[g].remaining + Cardinality(ReportedTo(g)) = Len(Tasks[g]) + 1
    /\ ~Calling(g) => group[g].remaining + Cardinality(ReportedTo(g)) = Len(Tasks[g])

\* The tasks call the group that there is; it counts them; it is freed when all
\* have called it.
TasksCall(g) == \A j \in DOMAIN Tasks[g] :
                   op[Tasks[g][j]].waits > 0 => op[Tasks[g][j]].hnd = GroupHandler(g)
GroupOK(g) ==
    /\ TasksCall(g)
    /\ Calling(g) => group[g].mem # "none" /\ ReportedTo(g) # {}
    /\ group[g].mem # "none" => group[g].hnd = CoHandler /\ Counted(g)
    /\ group[g].mem = "freed" \/ g \in Ending => Finished(g)
    /\ g \in Ending => group[g].mem = "live"

\* The coroutine is in the await of a group that has not finished, unless it is
\* about to go on; the groups before it have, and those after it were not made.
PlaceOK(g) ==
    /\ co.state = DONE => Untouched(g) \/ Finished(g)
    /\ co.state # DONE => /\ g < co.state => Finished(g)
                          /\ g > co.state => Untouched(g)

\* Unless the coroutine was entered inside its await, an await is that of its state; its
\* first step makes the group.
AwaitPlace(f) == f.fn = "await" => /\ ~co.nested => f.on = co.state
                                   /\ f.step = 0 => group[f.on].mem = "none"

\* What holds when a function of the coroutine, or NULL, is called; a context is freed when
\* the coroutine is done.
TopOK ==
    /\ Running("coro") => /\ co.state # DONE /\ co.mem = "live"
                          /\ co.state # 0 => Finished(co.state)
    /\ Running("after") => co.mem = "live"
    /\ Running("NULL") => \E g \in Groups : group[g].mem = "none" /\ ReportedTo(g) # {}
    /\ co.mem = "freed" => co.state = DONE

\* The first call of the coroutine comes before all else.
StartOK == Start \in waiting => stack = << >> /\ co.state = 0 /\ co.mem = "live"

\* Only tasks are begun.
TasksOnly == \A o \in Ops : Begun(o) =>
                \E g \in Groups : \E j \in DOMAIN Tasks[g] : o = Tasks[g][j]

\* The invariant of groups and coroutine.
GroupInv ==
    /\ StartOK /\ TasksOnly /\ TopOK
    /\ ApartIn({"free_group"})
    /\ \A g \in Groups : GroupOK(g) /\ PlaceOK(g)
    /\ \A f \in FrameSet : OnStack(f) => AwaitPlace(f)
-----------------------------------------------------------------------------
(* The running frame, and what a task has reported.                        *)

\* The functions that are only ever the running one.
Tops  == {"coro", "after", "NULL", "task_group_callback"}
Quiet == stack = << >> \/ Head(stack).fn \notin Tops

\* With no such function running, nothing is claimed of the running one.
LEMMA QuietIs ==
  /\ Quiet => /\ ~Running("coro") /\ ~Running("after") /\ ~Running("NULL")
              /\ \A g : ~Calling(g)
  /\ Quiet' => /\ ~Running("coro")' /\ ~Running("after")' /\ ~Running("NULL")'
               /\ \A g : ~Calling(g)'
BY DEF Quiet, Tops, Running, Calling

\* The frame that runs after a step.
LEMMA TopAfter ==
  ASSUME StackOK, NEW h \in FrameSet, NEW f \in FrameSet
  PROVE  /\ stack # << >> /\ Returns => Quiet'
         /\ stack # << >> /\ Becomes(<<f>>) => stack' # << >> /\ Head(stack') = f
         /\ stack # << >> /\ CallsThen(h, f) => stack' # << >> /\ Head(stack') = h
         /\ stack' = <<f>> \o stack => stack' # << >> /\ Head(stack') = f
<1>1. ASSUME stack # << >>, Returns PROVE Quiet'
  <2>1. /\ stack' \in Seq(FrameSet) /\ Len(stack) \in Nat \ {0} /\ Len(stack') = Len(stack) - 1
        /\ \A k \in 1..Len(stack') : stack'[k] = stack[k + 1]
    BY <1>1, ReturnsTo
  <2>2. CASE Len(stack') = 0
    BY <2>1, <2>2 DEF Quiet
  <2>3. CASE Len(stack') # 0
    <3>1. 1 \in 1..Len(stack') /\ 2 \in 2..Len(stack) /\ Head(stack') = stack'[1]
      BY <2>1, <2>3
    <3>2. Head(stack').fn \in Below
      BY <2>1, <3>1 DEF StackOK
    <3> QED BY <3>2 DEF Quiet, Below, Tops
  <2> QED BY <2>2, <2>3
<1>2. ASSUME stack # << >>, Becomes(<<f>>) PROVE stack' # << >> /\ Head(stack') = f
  <2>1. stack' \in Seq(FrameSet) /\ Len(stack') \in Nat \ {0} /\ stack'[1] = f
    BY <1>2, BecomesOne
  <2> QED BY <2>1
<1>3. ASSUME stack # << >>, CallsThen(h, f) PROVE stack' # << >> /\ Head(stack') = h
  <2>1. stack' \in Seq(FrameSet) /\ Len(stack') \in Nat \ {0} /\ stack'[1] = h
    BY <1>3, CallsOne
  <2> QED BY <2>1
<1>4. ASSUME stack' = <<f>> \o stack PROVE stack' # << >> /\ Head(stack') = f
  <2>1. stack' \in Seq(FrameSet) /\ Len(stack') \in Nat \ {0} /\ stack'[1] = f
    BY <1>4, IsCalled
  <2> QED BY <2>1
<1> QED BY <1>1, <1>2, <1>3, <1>4

\* Reported, by the operations that are handled.
LEMMA ReportedIs ==
  /\ \A o : Reported(o) <=> op[o].waits > 0 /\ Wait(o) \in called /\ o \notin Handled
  /\ \A o : Reported(o)' <=> op'[o].waits > 0 /\ Wait(o)' \in called' /\ o \notin Handled'
BY DEF Reported, Handled

\* An operation as the groups see it.
OpSame(o) == /\ Reported(o)' <=> Reported(o)
             /\ Begun(o)' => Begun(o)
             /\ op'[o].waits > 0 => op[o].waits > 0 /\ op'[o].hnd = op[o].hnd

\* A step that is nothing to the operations is nothing to the groups.
LEMMA UnseenOps ==
  ASSUME TypeInv, AsyncProgramAssumption, SeesNothing \/ SeesStart
  PROVE  \A o \in Ops : OpSame(o)
<1>1. ASSUME NEW o \in Ops PROVE Wait(o) # Start
  BY DEF Wait, Start, AsyncProgramAssumption
<1>2. ASSUME NEW o \in Ops PROVE OpSame(o)
  <2>1. Wait(o)' = Wait(o) /\ op' = op /\ Handled' = Handled
        /\ (Wait(o) \in called' <=> Wait(o) \in called)
    BY <1>1 DEF SeesNothing, SeesStart, Wait
  <2> QED BY <2>1, ReportedIs DEF OpSame, Begun
<1> QED BY <1>2

\* The call of an operation's function reports nothing yet; that of a posted handler
\* is its report.
LEMMA CalledOps ==
  ASSUME TypeInv, OpLife, NEW o, NEW code, NEW x, SeesCall(o, code, x)
  PROVE  /\ \A p \in Ops \ {o} : OpSame(p)
         /\ o \in Ops /\ op[o].waits > 0
         /\ Begun(o)' => Begun(o)
         /\ op'[o].waits > 0 => op[o].waits > 0 /\ op'[o].hnd = op[o].hnd
         /\ ~Reported(o)
         /\ Reported(o)' <=> op[o].kind = "post"
<1>1. /\ o \in Ops /\ Wait(o) \in waiting /\ called' = called \cup {Wait(o)}
      /\ Handled' = IF op[o].kind = "post" THEN Handled ELSE Handled \cup {o}
      /\ CalledWith(o, code, x) /\ OpsOK
  BY DEF SeesCall, TypeInv
<1>2. /\ op'[o] = x /\ (\A p \in Ops \ {o} : op'[p] = op[p])
      /\ x.waits = op[o].waits /\ x.hnd = op[o].hnd /\ x.mem = op[o].mem
  BY <1>1, OpChanges DEF CalledWith
<1>3. Numbered(o) /\ Life(o) /\ op[o].waits \in Nat /\ Wait(o) \notin called
  BY <1>1 DEF OpLife, OpsOK, OpRec
<1>4. op[o].waits > 0
  BY <1>1, <1>3 DEF Numbered, Wait
<1>5. ASSUME NEW p \in Ops \ {o} PROVE OpSame(p)
  <2>1. Wait(p)' = Wait(p) /\ Wait(p) # Wait(o) /\ op'[p] = op[p]
    BY <1>2 DEF Wait
  <2>2. (Wait(p) \in called' <=> Wait(p) \in called) /\ (p \in Handled' <=> p \in Handled)
    BY <1>1, <2>1
  <2> QED BY <2>1, <2>2, ReportedIs DEF OpSame, Begun
<1>6. ~Reported(o)
  BY <1>3, ReportedIs
<1>7. Reported(o)' <=> op[o].kind = "post"
  <2>1. Wait(o)' = Wait(o)
    BY <1>2 DEF Wait
  <2>2. op[o].kind = "post" => o \notin Handled
    BY <1>3 DEF Life
  <2> QED BY <1>1, <1>2, <1>4, <2>1, <2>2, ReportedIs
<1> QED BY <1>1, <1>2, <1>4, <1>5, <1>6, <1>7 DEF Begun

\* The end of an operation's function is its report.
LEMMA EndedOps ==
  ASSUME TypeInv, OpLife, NEW o, NEW x, SeesEnd(o, x)
  PROVE  /\ \A p \in Ops \ {o} : OpSame(p)
         /\ o \in Ops /\ op[o].waits > 0
         /\ Begun(o)' => Begun(o)
         /\ op'[o].waits > 0 => op[o].waits > 0 /\ op'[o].hnd = op[o].hnd
         /\ ~Reported(o) /\ Reported(o)'
<1>1. /\ o \in Ops /\ o \in Handled /\ called' = called /\ Handled' = Handled \ {o}
      /\ Outcome(o, x) /\ op' = [op EXCEPT ![o] = x] /\ OpsOK
  BY DEF SeesEnd, TypeInv
<1>2. /\ op'[o] = x /\ (\A p \in Ops \ {o} : op'[p] = op[p])
      /\ x.waits = op[o].waits /\ x.hnd = op[o].hnd /\ x.mem = op[o].mem
  BY <1>1, OpChanges DEF Outcome
<1>3. Wait(o) \in called /\ op[o].waits > 0
  BY <1>1 DEF OpLife, Life
<1>4. ASSUME NEW p \in Ops \ {o} PROVE OpSame(p)
  <2>1. Wait(p)' = Wait(p) /\ op'[p] = op[p] /\ (p \in Handled' <=> p \in Handled)
    BY <1>1, <1>2 DEF Wait
  <2> QED BY <1>1, <2>1, ReportedIs DEF OpSame, Begun
<1>5. ~Reported(o) /\ Reported(o)'
  <2>1. Wait(o)' = Wait(o)
    BY <1>2 DEF Wait
  <2> QED BY <1>1, <1>2, <1>3, <2>1, ReportedIs
<1> QED BY <1>1, <1>2, <1>3, <1>4, <1>5 DEF Begun

\* Another wait, and the end of the client's handler, report nothing.
LEMMA OtherOps ==
  ASSUME TypeInv, OpLife, OpLife', NEW o,
         (\E r : SeesAgain(o, r)) \/ (\E x : SeesFree(o, x))
  PROVE  \A p \in Ops : OpSame(p)
<1>1. o \in Ops /\ OpsOK
  BY DEF SeesAgain, SeesFree, TypeInv
<1>2. op[o].waits \in Nat /\ (o \in Handled \/ o \in Freeing => op[o].waits > 0)
  BY <1>1 DEF OpLife, Life, OpsOK, OpRec
<1>3. ASSUME NEW r, SeesAgain(o, r) PROVE \A p \in Ops : OpSame(p)
  <2> DEFINE x == Again(o, r)
             w == <<o, op[o].waits + 1>>
  <2>1. /\ o \in Handled /\ op[o].kind = "rw" /\ called' = called /\ w \in waiting'
        /\ r \in 1..op[o].left /\ op[o].left - r # 0 /\ op' = [op EXCEPT ![o] = x]
        /\ Handled' = Handled \ {o}
    BY <1>3 DEF SeesAgain, Accepted, Svc!Accept
  <2>2. RecOK(o, x) /\ x.waits = op[o].waits + 1 /\ x.hnd = op[o].hnd
    BY <1>1, <2>1, AgainRecord, AsyncOpsAssumption
  <2> HIDE DEF x
  <2>3. op'[o] = x /\ (\A p \in Ops \ {o} : op'[p] = op[p])
    BY <1>1, <2>1, <2>2, OpChanges
  <2>4. ~Reported(o) /\ ~Reported(o)'
    <3>1. Wait(o)' = w
      BY <2>2, <2>3 DEF Wait
    <3>2. Wait(o)' \notin called'
      BY <2>1, <3>1 DEF OpLife
    <3> QED BY <2>1, <3>2, ReportedIs
  <2>5. OpSame(o)
    BY <1>2, <2>1, <2>2, <2>3, <2>4 DEF OpSame, Begun
  <2>6. ASSUME NEW p \in Ops \ {o} PROVE OpSame(p)
    <3>1. Wait(p)' = Wait(p) /\ op'[p] = op[p] /\ (p \in Handled' <=> p \in Handled)
      BY <2>1, <2>3 DEF Wait
    <3> QED BY <2>1, <3>1, ReportedIs DEF OpSame, Begun
  <2> QED BY <2>5, <2>6
<1>4. ASSUME NEW x, SeesFree(o, x) PROVE \A p \in Ops : OpSame(p)
  <2>1. /\ o \in Freeing /\ called' = called /\ RecOK(o, x) /\ op' = [op EXCEPT ![o] = x]
        /\ x.waits = op[o].waits /\ x.hnd = op[o].hnd /\ Handled' = Handled
    BY <1>4 DEF SeesFree
  <2>2. op'[o] = x /\ (\A p \in Ops \ {o} : op'[p] = op[p])
    BY <1>1, <2>1, OpChanges
  <2>3. ASSUME NEW p \in Ops PROVE OpSame(p)
    <3>1. op'[p].waits = op[p].waits /\ op'[p].hnd = op[p].hnd /\ (Begun(p)' => Begun(p))
      BY <1>2, <2>1, <2>2 DEF Begun
    <3>2. Wait(p)' = Wait(p)
      BY <3>1 DEF Wait
    <3> QED BY <2>1, <3>1, <3>2, ReportedIs DEF OpSame
  <2> QED BY <2>3
<1> QED BY <1>3, <1>4

\* The call that begins an operation reports nothing.
LEMMA BegunOps ==
  ASSUME TypeInv, OpLife, OpLife', NEW o, NEW h, NEW x, SeesBegin(o, h, x)
  PROVE  /\ \A p \in Ops \ {o} : OpSame(p)
         /\ ~Reported(o) /\ ~Reported(o)'
         /\ o \in Ops /\ op'[o].hnd = h
<1>1. /\ o \in Ops /\ OpsOK /\ op[o].waits = 0 /\ BeginsWith(o, h, x) /\ Handled' = Handled
      /\ x.hnd = h
  BY DEF SeesBegin, TypeInv, OpsOK, OpRec, Begun, BeginsWith
<1>2. op'[o] = x /\ (\A p \in Ops \ {o} : op'[p] = op[p])
  BY <1>1, OpChanges DEF BeginsWith
<1>3. called' = called /\ (x.waits = 0 \/ (x.waits = 1 /\ <<o, 1>> \in waiting'))
  BY <1>1 DEF BeginsWith, Svc!Accept, svcVars
<1>4. ~Reported(o) /\ ~Reported(o)'
  <2>1. x.waits = 1 => Wait(o)' = <<o, 1>>
    BY <1>2 DEF Wait
  <2>2. x.waits = 1 => Wait(o)' \notin called'
    BY <1>3, <2>1 DEF OpLife
  <2> QED BY <1>1, <1>2, <1>3, <2>2, ReportedIs
<1>5. ASSUME NEW p \in Ops \ {o} PROVE OpSame(p)
  <2>1. Wait(p)' = Wait(p) /\ op'[p] = op[p]
    BY <1>2 DEF Wait
  <2> QED BY <1>1, <1>3, <2>1, ReportedIs DEF OpSame, Begun
<1> QED BY <1>1, <1>2, <1>4, <1>5
-----------------------------------------------------------------------------
(* What a step that leaves group g alone keeps of it.                      *)

\* The tasks of g are as they were.
TasksSame(g) == \A j \in DOMAIN Tasks[g] : OpSame(Tasks[g][j])

\* A group whose tasks and counter are as they were is as it was.
LEMMA GroupSame ==
  ASSUME NEW g \in Groups, GroupOK(g), TasksSame(g), group'[g] = group[g],
         Calling(g)' <=> Calling(g), g \in Ending' => g \in Ending
  PROVE  /\ ReportedTo(g)' = ReportedTo(g)
         /\ Finished(g)' <=> Finished(g)
         /\ GroupOK(g)'
<1>1. ReportedTo(g)' = ReportedTo(g)
  BY DEF ReportedTo, TasksSame, OpSame
<1>2. Finished(g)' <=> Finished(g)
  BY <1>1 DEF Finished
<1>3. Counted(g) => Counted(g)'
  BY <1>1 DEF Counted
<1>4. GroupHandler(g)' = GroupHandler(g)
  BY DEF GroupHandler
<1>5. TasksCall(g)'
  BY <1>4 DEF GroupOK, TasksCall, TasksSame, OpSame
<1> QED BY <1>1, <1>2, <1>3, <1>5 DEF GroupOK

\* A group that nothing was done for stays so.
LEMMA UntouchedSame ==
  ASSUME NEW g \in Groups, Untouched(g), TasksSame(g), group'[g] = group[g],
         g \in InProgress({"await"})' => g \in InProgress({"await"})
  PROVE  Untouched(g)'
BY DEF Untouched, Unreached, TasksSame, OpSame

\* A group that is neither untouched nor finished is the one the coroutine awaits.
LEMMA AwaitedGroup ==
  ASSUME TypeInv, AsyncProgramAssumption, GroupInv, NEW g \in Groups,
         ~Untouched(g), ~Finished(g)
  PROVE  co.state = g /\ co.state # DONE /\ co.mem = "live"
<1>1. co.state # DONE /\ ~(g < co.state) /\ ~(g > co.state)
  BY DEF GroupInv, PlaceOK
<1>2. co.state \in Nat /\ g \in Nat /\ co.mem \in {"live", "freed"}
  BY <1>1 DEF TypeInv, CoOK, AsyncProgramAssumption
<1> QED BY <1>1, <1>2 DEF GroupInv, TopOK

\* While the first call of the coroutine waits, nothing was begun.
LEMMA NothingBegun ==
  ASSUME TypeInv, AsyncProgramAssumption, GroupInv, Start \in waiting
  PROVE  \A o \in Ops : ~Begun(o)
<1>1. co.state = 0 /\ 0 # DONE
  BY DEF GroupInv, StartOK, DONE
<1>2. \A g \in Groups : g > 0
  BY DEF AsyncProgramAssumption
<1>3. \A g \in Groups : Unreached(g)
  BY <1>1, <1>2 DEF GroupInv, PlaceOK, Untouched
<1> QED BY <1>3 DEF GroupInv, TasksOnly, Unreached

\* The frames of awaits and of groups that end stay or go.
FramesKept ==
    /\ \A f \in FrameSet : OnStack(f)' /\ f.fn = "await" => OnStack(f)
    /\ \A x : x \in InProgress({"await"})' => x \in InProgress({"await"})
    /\ \A x : x \in Ending' => x \in Ending
    /\ ApartIn({"free_group"})'

\* A step that adds no await and no end of a group.
LEMMA KeepsFrames ==
  ASSUME StackOK, StackOK', ApartIn({"free_group"}), NEW h \in FrameSet, NEW f \in FrameSet,
         StackStep(h, f), h.fn \notin {"await", "free_group"}, f.fn \notin {"await", "free_group"}
  PROVE  FramesKept
<1>1. /\ h.fn \notin {"await"} /\ f.fn \notin {"await"}
      /\ h.fn \notin {"free_group"} /\ f.fn \notin {"free_group"}
  OBVIOUS
<1>2. /\ \A e \in FrameSet : OnStack(e)' /\ e.fn \in {"await"} => OnStack(e)
      /\ \A x : x \in InProgress({"await"})' => x \in InProgress({"await"})
  BY <1>1, NoneNew
<1>3. /\ \A x : x \in InProgress({"free_group"})' => x \in InProgress({"free_group"})
      /\ ApartIn({"free_group"})'
  BY <1>1, NoneNew
<1> QED BY <1>2, <1>3 DEF FramesKept, Ending

\* A step that leaves the groups, the tasks and the coroutine as they are.
LEMMA QuietStep ==
  ASSUME TypeInv, AsyncProgramAssumption, GroupInv, \A o \in Ops : OpSame(o), FramesKept,
         group' = group, co' = co, Start \notin waiting', Quiet, Quiet'
  PROVE  GroupInv'
<1>1. /\ \A g : ~Calling(g) /\ ~Calling(g)'
      /\ ~Running("coro")' /\ ~Running("after")' /\ ~Running("NULL")'
  BY QuietIs
<1>2. ASSUME NEW g \in Groups PROVE GroupOK(g)' /\ PlaceOK(g)'
  <2>1. TasksSame(g)
    BY TaskIsOp DEF TasksSame
  <2>2. GroupOK(g)' /\ (Finished(g)' <=> Finished(g))
    BY <1>1, <2>1, GroupSame DEF GroupInv, FramesKept
  <2>3. Untouched(g) => Untouched(g)'
    BY <2>1, UntouchedSame DEF FramesKept
  <2> QED BY <2>2, <2>3 DEF GroupInv, PlaceOK
<1>3. StartOK'
  BY DEF StartOK
<1>4. TasksOnly'
  BY DEF GroupInv, TasksOnly, OpSame
<1>5. TopOK'
  BY <1>1 DEF GroupInv, TopOK
<1>6. \A f \in FrameSet : OnStack(f)' => AwaitPlace(f)'
  BY DEF GroupInv, FramesKept, AwaitPlace
<1> QED BY <1>2, <1>3, <1>4, <1>5, <1>6 DEF GroupInv, FramesKept

\* The size of an interval.
LEMMA IntervalSize ==
  ASSUME NEW n \in Nat
  PROVE  IsFiniteSet(1..n) /\ Cardinality(1..n) = n
BY FS_Interval

\* One more report is one more counted.
LEMMA AddedSize ==
  ASSUME NEW r \in Nat, NEW R, NEW j, IsFiniteSet(R), j \notin R
  PROVE  r + Cardinality(R \cup {j}) = r + Cardinality(R) + 1
<1> DEFINE c == Cardinality(R)
           d == Cardinality(R \cup {j})
<1>1. c \in Nat /\ d = c + 1
  BY FS_CardinalityType, FS_AddElement
<1> HIDE DEF c, d
<1>2. r + d = r + c + 1
  BY <1>1
<1> QED BY <1>2 DEF c, d

\* At most all tasks of a group have reported, and when as many have, all have.
LEMMA ReportedSize ==
  ASSUME AsyncProgramAssumption, NEW g \in Groups
  PROVE  /\ Len(Tasks[g]) \in Nat /\ DOMAIN Tasks[g] = 1..Len(Tasks[g])
         /\ IsFiniteSet(ReportedTo(g)) /\ Cardinality(ReportedTo(g)) \in Nat
         /\ Cardinality(ReportedTo(g)) <= Len(Tasks[g])
         /\ Cardinality(ReportedTo(g)) = Len(Tasks[g]) => ReportedTo(g) = DOMAIN Tasks[g]
<1>1. Len(Tasks[g]) \in Nat /\ DOMAIN Tasks[g] = 1..Len(Tasks[g])
  BY DEF AsyncProgramAssumption
<1> DEFINE D == 1..Len(Tasks[g])
<1>2. IsFiniteSet(D) /\ Cardinality(D) = Len(Tasks[g])
  BY <1>1, IntervalSize
<1>3. ReportedTo(g) \in SUBSET D
  BY <1>1 DEF ReportedTo
<1> HIDE DEF D
<1>4. /\ IsFiniteSet(ReportedTo(g)) /\ Cardinality(ReportedTo(g)) <= Cardinality(D)
      /\ Cardinality(D) = Cardinality(ReportedTo(g)) => D = ReportedTo(g)
  BY <1>2, <1>3, FS_Subset
<1>5. Cardinality(ReportedTo(g)) \in Nat
  BY <1>4, FS_CardinalityType
<1> QED BY <1>1, <1>2, <1>4, <1>5 DEF D

\* A task reports: it calls the group's handler, or the NULL one it was given in
\* place of that of a group that could not be made.
LEMMA ReportStep ==
  ASSUME TypeInv, AsyncProgramAssumption, GroupInv, NEW o \in Ops, op[o].waits > 0,
         \A p \in Ops \ {o} : OpSame(p), Begun(o)' => Begun(o),
         op'[o].waits > 0 => op'[o].hnd = op[o].hnd,
         ~Reported(o), Reported(o)', FramesKept,
         group' = group, co' = co, Start \notin waiting', Quiet,
         stack' # << >>, Head(stack') = op[o].hnd
  PROVE  GroupInv'
<1>1. PICK g \in Groups : \E j \in DOMAIN Tasks[g] : o = Tasks[g][j]
  BY DEF GroupInv, TasksOnly, Begun
<1>2. PICK j \in DOMAIN Tasks[g] : o = Tasks[g][j]
  BY <1>1
<1>3. GroupOK(g) /\ PlaceOK(g) /\ op[o].hnd = GroupHandler(g)
  BY <1>2 DEF GroupInv, GroupOK, TasksCall
<1>4. \A h : ~Calling(h)
  BY QuietIs
<1>5. /\ group[g].mem = "none" => Head(stack').fn = "NULL"
      /\ group[g].mem # "none" => Head(stack').fn = "task_group_callback" /\ Head(stack').on = g
  BY <1>3 DEF GroupHandler, NullHandler, Frame, FrameAt
<1>6. /\ \A h : Calling(h)' <=> group[g].mem # "none" /\ h = g
      /\ ~Running("coro")' /\ ~Running("after")'
      /\ Running("NULL")' => group[g].mem = "none"
  BY <1>5 DEF Calling, Running, This
<1>7. ReportedTo(g)' = ReportedTo(g) \cup {j} /\ j \notin ReportedTo(g)
  <2>1. ASSUME NEW i \in DOMAIN Tasks[g], i # j
        PROVE  Reported(Tasks[g][i])' <=> Reported(Tasks[g][i])
    <3>1. Tasks[g][i] # o /\ Tasks[g][i] \in Ops
      BY <1>2, <2>1, TasksApart, TaskIsOp
    <3> QED BY <3>1 DEF OpSame
  <2>2. ~Reported(Tasks[g][j]) /\ Reported(Tasks[g][j])'
    BY <1>2
  <2> QED BY <2>1, <2>2 DEF ReportedTo
<1>8. ~Finished(g) /\ ~Untouched(g)
  BY <1>2, <1>7 DEF Finished, Untouched, Unreached, Begun
<1>9. co.state = g /\ co.state # DONE
  BY <1>8, AwaitedGroup
<1>10. GroupOK(g)'
  <2>1. group[g].mem # "freed" /\ g \notin Ending /\ g \notin Ending'
    BY <1>3, <1>8 DEF GroupOK, FramesKept
  <2>2. ASSUME group[g].mem # "none" PROVE Counted(g)'
    <3> DEFINE R == ReportedTo(g)
    <3>1. IsFiniteSet(R) /\ Cardinality(R) \in Nat /\ Len(Tasks[g]) \in Nat
      BY ReportedSize
    <3>2. group[g].remaining \in Nat
      BY DEF TypeInv, GroupsOK, GroupRec
    <3>3. group[g].remaining + Cardinality(R) = Len(Tasks[g])
      BY <1>3, <1>4, <2>2 DEF GroupOK, Counted
    <3>4. group[g].remaining + Cardinality(R \cup {j}) = group[g].remaining + Cardinality(R) + 1
      BY <1>7, <3>1, <3>2, AddedSize
    <3> HIDE DEF R
    <3>5. group[g].remaining + Cardinality(R \cup {j}) = Len(Tasks[g]) + 1
      BY <3>3, <3>4, Zenon
    <3> QED BY <1>6, <1>7, <2>2, <3>5 DEF Counted, R
  <2>3. TasksCall(g)'
    <3>1. GroupHandler(g)' = GroupHandler(g)
      BY DEF GroupHandler
    <3>2. ASSUME NEW i \in DOMAIN Tasks[g], op'[Tasks[g][i]].waits > 0
          PROVE  op'[Tasks[g][i]].hnd = GroupHandler(g)
      <4>1. CASE Tasks[g][i] = o
        BY <1>3, <3>2, <4>1
      <4>2. CASE Tasks[g][i] # o
        BY <1>3, <3>2, <4>2, TaskIsOp DEF OpSame, GroupOK, TasksCall
      <4> QED BY <4>1, <4>2
    <3> QED BY <3>1, <3>2 DEF TasksCall
  <2> QED BY <1>3, <1>6, <1>7, <2>1, <2>2, <2>3 DEF GroupOK
<1>11. PlaceOK(g)'
  <2>1. g \in Nat
    BY DEF AsyncProgramAssumption
  <2> QED BY <1>9, <2>1 DEF PlaceOK
<1>12. ASSUME NEW h \in Groups, h # g PROVE GroupOK(h)' /\ PlaceOK(h)'
  <2>1. TasksSame(h)
    <3>1. ASSUME NEW i \in DOMAIN Tasks[h] PROVE Tasks[h][i] # o /\ Tasks[h][i] \in Ops
      BY <1>2, <1>12, TasksApart, TaskIsOp
    <3> QED BY <3>1 DEF TasksSame
  <2>2. GroupOK(h)' /\ (Finished(h)' <=> Finished(h))
    BY <1>4, <1>6, <1>12, <2>1, GroupSame DEF GroupInv, FramesKept
  <2>3. Untouched(h) => Untouched(h)'
    BY <2>1, UntouchedSame DEF FramesKept
  <2> QED BY <2>2, <2>3 DEF GroupInv, PlaceOK
<1>13. StartOK' /\ TasksOnly'
  BY DEF StartOK, GroupInv, TasksOnly, OpSame
<1>14. TopOK'
  <2>1. Running("NULL")' => group'[g].mem = "none" /\ ReportedTo(g)' # {}
    BY <1>6, <1>7
  <2> QED BY <1>6, <2>1 DEF GroupInv, TopOK
<1>15. \A f \in FrameSet : OnStack(f)' => AwaitPlace(f)'
  BY DEF GroupInv, FramesKept, AwaitPlace
<1> QED BY <1>10, <1>11, <1>12, <1>13, <1>14, <1>15 DEF GroupInv, FramesKept
-----------------------------------------------------------------------------
(* The steps of a group.                                                   *)

\* What is known when a group's function runs: it is the group that the coroutine
\* awaits, it is there, and the call it is about is not counted yet.
LEMMA CallingGroup ==
  ASSUME TypeInv, AsyncProgramAssumption, GroupInv, NEW g \in Groups, Calling(g)
  PROVE  /\ group[g].mem = "live" /\ group[g].hnd = CoHandler /\ g \notin Ending
         /\ group[g].remaining \in Nat \ {0}
         /\ Decremented(group[g].remaining) + Cardinality(ReportedTo(g)) = Len(Tasks[g])
         /\ Decremented(group[g].remaining) = 0 =>
               ReportedTo(g) = DOMAIN Tasks[g] /\ Tasks[g] # << >>
         /\ co.state = g /\ co.state # DONE /\ co.mem = "live"
<1>1. GroupOK(g) /\ ~Finished(g)
  BY DEF GroupInv, Finished
<1>2. group[g].mem \in {"none", "live", "freed"} /\ group[g].remaining \in Nat
  BY DEF TypeInv, GroupsOK, GroupRec
<1>3. group[g].mem = "live" /\ group[g].hnd = CoHandler /\ g \notin Ending
      /\ Counted(g) /\ ReportedTo(g) # {}
  BY <1>1, <1>2 DEF GroupOK
<1> DEFINE r == group[g].remaining
           c == Cardinality(ReportedTo(g))
           n == Len(Tasks[g])
<1>4. n \in Nat /\ c \in Nat /\ c <= n /\ (c = n => ReportedTo(g) = DOMAIN Tasks[g])
  BY ReportedSize
<1>5. r + c = n + 1 /\ r \in Nat
  BY <1>2, <1>3 DEF Counted
<1>6. n # 0
  BY <1>3, <1>4, ReportedSize DEF ReportedTo
<1>7. n # 0 => Tasks[g] # << >>
  OBVIOUS
<1> HIDE DEF r, c, n
<1>8. r # 0 /\ r - 1 + c = n /\ (r - 1 = 0 => c = n) /\ Decremented(r) = r - 1
  BY <1>4, <1>5 DEF Decremented
<1>9. ~Untouched(g)
  BY <1>3 DEF Untouched
<1>10. co.state = g /\ co.state # DONE /\ co.mem = "live"
  BY <1>1, <1>9, AwaitedGroup
<1> QED BY <1>3, <1>4, <1>5, <1>6, <1>7, <1>8, <1>10 DEF r, c, n

\* The groups that a step of group g leaves alone.
LEMMA OtherGroups ==
  ASSUME TypeInv, AsyncProgramAssumption, GroupInv, \A o \in Ops : OpSame(o), NEW g \in Groups,
         \A h \in Groups \ {g} : group'[h] = group[h],
         \A h \in Groups \ {g} : ~Calling(h) /\ ~Calling(h)',
         \A h \in Groups \ {g} : h \in Ending' => h \in Ending,
         \A x : x \in InProgress({"await"})' => x \in InProgress({"await"}), co' = co
  PROVE  \A h \in Groups \ {g} : GroupOK(h)' /\ PlaceOK(h)'
<1> TAKE h \in Groups \ {g}
<1>1. TasksSame(h)
  BY TaskIsOp DEF TasksSame
<1>2. GroupOK(h)' /\ (Finished(h)' <=> Finished(h))
  BY <1>1, GroupSame DEF GroupInv
<1>3. Untouched(h) => Untouched(h)'
  BY <1>1, UntouchedSame
<1> QED BY <1>2, <1>3 DEF GroupInv, PlaceOK

\* The group's function counts the call it is about, and calls the coroutine when it
\* was the last (task_group.c:10-17).
LEMMA CallbackStep ==
  ASSUME TypeInv, TypeInv', AsyncProgramAssumption, GroupInv, \A o \in Ops : OpSame(o),
         task_group_callback, co' = co, waiting' = waiting, NEW g \in Groups, g = This
  PROVE  GroupInv'
<1> DEFINE d == Decremented(group[g].remaining)
           f == Frame("free_group", g)
<1>1. /\ Running("task_group_callback") /\ stack # << >> /\ StackOK /\ StackOK'
      /\ Head(stack).fn = "task_group_callback"
      /\ group' = [group EXCEPT ![g].remaining = d]
      /\ IF d = 0 THEN CallsThen(group[g].hnd, f) ELSE Returns
  BY DEF task_group_callback, Running, TypeInv
<1>2. g \in Groups
  OBVIOUS
<1>3. Calling(g) /\ \A h : Calling(h) => h = g
  BY <1>1 DEF Calling
<1>4. /\ group[g].mem = "live" /\ group[g].hnd = CoHandler /\ g \notin Ending
      /\ d + Cardinality(ReportedTo(g)) = Len(Tasks[g])
      /\ d = 0 => ReportedTo(g) = DOMAIN Tasks[g] /\ Tasks[g] # << >>
      /\ co.state = g /\ co.state # DONE /\ co.mem = "live"
  BY <1>2, <1>3, CallingGroup
<1>5. /\ \A h \in Groups \ {g} : group'[h] = group[h]
      /\ group'[g].hnd = CoHandler /\ group'[g].mem = "live" /\ group'[g].remaining = d
  BY <1>1, <1>2, <1>4, GroupChanges DEF TypeInv
<1>6. /\ f \in FrameSet /\ f.fn = "free_group" /\ f.on = g
      /\ CoHandler \in FrameSet /\ CoHandler.fn = "coro"
  BY <1>2, CoFrames DEF FrameOK
<1>7. StartOK' /\ TasksOnly'
  <2>1. Start \notin waiting'
    BY <1>1 DEF GroupInv, StartOK
  <2> QED BY <2>1 DEF StartOK, GroupInv, TasksOnly, OpSame
<1> HIDE DEF f
<1>8. PICK h \in FrameSet : StackStep(h, f) /\ h.fn \notin {"await", "free_group"}
                            /\ (d # 0 => Returns) /\ (d = 0 => h = CoHandler /\ CallsThen(h, f))
  BY <1>1, <1>4, <1>6 DEF StackStep, f
<1>9. /\ \A e \in FrameSet : OnStack(e)' /\ e.fn \in {"await"} => OnStack(e)
      /\ \A x : x \in InProgress({"await"})' => x \in InProgress({"await"})
  <2>1. h.fn \notin {"await"} /\ f.fn \notin {"await"}
    BY <1>6, <1>8
  <2> QED BY <1>1, <1>6, <1>8, <2>1, NoneNew
<1>10. \A e \in FrameSet : OnStack(e)' => AwaitPlace(e)'
  <2>1. ASSUME NEW e \in FrameSet, OnStack(e)' PROVE AwaitPlace(e)'
    <3>1. e.fn = "await" => OnStack(e) /\ e.on \in Groups
      BY <1>1, <1>9, <2>1, OnStackIs DEF FrameOK, GroupFns
    <3>2. e.fn = "await" => AwaitPlace(e)
      BY <3>1 DEF GroupInv
    <3> QED BY <1>4, <1>5, <3>1, <3>2 DEF AwaitPlace
  <2> QED BY <2>1
<1>11. ReportedTo(g)' = ReportedTo(g) /\ TasksCall(g)'
  <2>1. GroupHandler(g)' = GroupHandler(g)
    BY <1>4, <1>5 DEF GroupHandler
  <2>2. TasksCall(g)
    BY <1>2 DEF GroupInv, GroupOK
  <2>3. \A j \in DOMAIN Tasks[g] : OpSame(Tasks[g][j])
    BY <1>2, TaskIsOp
  <2> QED BY <2>1, <2>2, <2>3 DEF ReportedTo, TasksCall, OpSame
<1>12. (\A x : ~Calling(x)') => Counted(g)'
  BY <1>4, <1>5, <1>11 DEF Counted
<1>13. PlaceOK(g)'
  <2>1. g \in Nat
    BY <1>2 DEF AsyncProgramAssumption
  <2> QED BY <1>4, <2>1 DEF PlaceOK
<1>14. CASE d # 0
  <2>1. Quiet' /\ \A x : x \in Ending' => x \in Ending
    <3>1. Quiet'
      BY <1>1, <1>6, <1>8, <1>14, TopAfter
    <3>2. \A x : x \in Ending' => x \in Ending
      BY <1>1, <1>8, <1>14, ReturnsView, HeadOrRest DEF Ending
    <3> QED BY <3>1, <3>2
  <2>2. ApartIn({"free_group"})'
    BY <1>1, <1>8, <1>14, ReturnsView DEF GroupInv
  <2>3. \A x : ~Calling(x)'
    BY <2>1, QuietIs
  <2>4. GroupOK(g)'
    BY <1>2, <1>4, <1>5, <1>11, <1>12, <2>1, <2>3 DEF GroupOK
  <2>5. \A x \in Groups \ {g} : GroupOK(x)' /\ PlaceOK(x)'
    BY <1>2, <1>3, <1>5, <1>9, <2>1, <2>3, OtherGroups
  <2>6. TopOK'
    BY <1>4, <2>1, QuietIs DEF TopOK
  <2> QED BY <1>7, <1>10, <1>13, <2>2, <2>4, <2>5, <2>6 DEF GroupInv
<1>15. CASE d = 0
  <2>1. stack' # << >> /\ Head(stack') = CoHandler
    BY <1>1, <1>6, <1>8, <1>15, TopAfter
  <2>2. (\A x : ~Calling(x)') /\ ~Running("after")' /\ ~Running("NULL")'
    BY <1>6, <2>1 DEF Calling, Running
  <2>3. Finished(g)'
    BY <1>4, <1>11, <1>15, <2>2 DEF Finished
  <2>4. /\ \A x : x \in Ending' <=> x = g \/ x \in Ending
        /\ ApartIn({"free_group"})'
    <3>1. /\ \A x : Is(f, x, {"free_group"}) <=> x = g
          /\ \A x : ~Is(h, x, {"free_group"}) /\ ~Is(Head(stack), x, {"free_group"})
      BY <1>1, <1>6, <1>8 DEF Is
    <3>2. \A x : x \in Ending <=> Rest(x, {"free_group"})
      BY <1>1, <3>1, HeadOrRest DEF Ending
    <3>3. \A x : x \in Ending' <=> x = g \/ Rest(x, {"free_group"})
      BY <1>1, <1>6, <1>8, <1>15, <3>1, CallsView DEF Ending
    <3>4. ~Rest(f.on, {"free_group"}) /\ h.fn \notin {"free_group"} /\ ApartIn({"free_group"})
      BY <1>4, <1>6, <1>8, <3>2 DEF GroupInv
    <3>5. ApartIn({"free_group"})'
      BY <1>1, <1>6, <1>8, <1>15, <3>4, CallsView
    <3> QED BY <3>2, <3>3, <3>5
  <2>5. GroupOK(g)'
    BY <1>5, <1>11, <1>12, <2>2, <2>3 DEF GroupOK
  <2>6. \A x \in Groups \ {g} : GroupOK(x)' /\ PlaceOK(x)'
    BY <1>2, <1>3, <1>5, <1>9, <2>2, <2>4, OtherGroups
  <2>7. TopOK'
    BY <1>4, <2>2, <2>3 DEF TopOK
  <2> QED BY <1>7, <1>10, <1>13, <2>4, <2>5, <2>6, <2>7 DEF GroupInv
<1> QED BY <1>14, <1>15

\* A group is freed when its handler has returned.
LEMMA FreeGroupStep ==
  ASSUME TypeInv, TypeInv', AsyncProgramAssumption, GroupInv, \A o \in Ops : OpSame(o),
         free_group, co' = co, waiting' = waiting, NEW g \in Groups, g = This
  PROVE  GroupInv'
<1>1. /\ stack # << >> /\ StackOK /\ StackOK' /\ Head(stack).fn = "free_group" /\ Returns
      /\ group' = [group EXCEPT ![g].mem = "freed"]
  BY DEF free_group, Running, TypeInv
<1>2. NullHandler \in FrameSet
  BY DEF NullHandler, Frame, FrameAt, FrameSet, Fns
<1>3. Quiet /\ Quiet'
  BY <1>1, <1>2, TopAfter DEF Quiet, Tops
<1>4. (\A x : ~Calling(x) /\ ~Calling(x)')
  BY <1>3, QuietIs
<1>5. /\ \A x : x \in Ending <=> x = g \/ Rest(x, {"free_group"})
      /\ \A x : x \in Ending' <=> Rest(x, {"free_group"})
      /\ ~Rest(g, {"free_group"}) /\ ApartIn({"free_group"})'
  BY <1>1, HeadOrRest, ReturnsView DEF GroupInv, Ending, Is, This
<1>6. GroupOK(g) /\ PlaceOK(g) /\ Finished(g) /\ group[g].mem = "live"
      /\ group[g].hnd = CoHandler /\ Counted(g)
  BY <1>5 DEF GroupInv, GroupOK
<1>7. /\ \A h \in Groups \ {g} : group'[h] = group[h]
      /\ group'[g].hnd = CoHandler /\ group'[g].mem = "freed"
      /\ group'[g].remaining = group[g].remaining
  BY <1>1, <1>6, GroupChanges DEF TypeInv
<1>8. /\ \A e \in FrameSet : OnStack(e)' /\ e.fn \in {"await"} => OnStack(e)
      /\ \A x : x \in InProgress({"await"})' => x \in InProgress({"await"})
  <2>1. StackStep(NullHandler, NullHandler) /\ NullHandler.fn \notin {"await"}
    BY <1>1 DEF StackStep, NullHandler, Frame, FrameAt
  <2> QED BY <1>1, <1>2, <2>1, NoneNew
<1>9. ReportedTo(g)' = ReportedTo(g) /\ TasksCall(g)'
  <2>1. GroupHandler(g)' = GroupHandler(g)
    BY <1>6, <1>7 DEF GroupHandler
  <2>2. \A j \in DOMAIN Tasks[g] : OpSame(Tasks[g][j])
    BY TaskIsOp
  <2> QED BY <1>6, <2>1, <2>2 DEF GroupOK, ReportedTo, TasksCall, OpSame
<1>10. Finished(g)' /\ Counted(g)'
  BY <1>4, <1>6, <1>7, <1>9 DEF Finished, Counted
<1>11. GroupOK(g)' /\ PlaceOK(g)'
  <2>1. GroupOK(g)'
    BY <1>4, <1>5, <1>7, <1>9, <1>10 DEF GroupOK
  <2>2. ~Untouched(g)
    BY <1>6 DEF Untouched
  <2> QED BY <1>6, <1>10, <2>1, <2>2 DEF PlaceOK
<1>12. \A h \in Groups \ {g} : GroupOK(h)' /\ PlaceOK(h)'
  <2>1. \A h \in Groups \ {g} : h \in Ending' => h \in Ending
    BY <1>5
  <2> QED BY <1>4, <1>7, <1>8, <2>1, OtherGroups
<1>13. \A e \in FrameSet : OnStack(e)' => AwaitPlace(e)'
  <2>1. ASSUME NEW e \in FrameSet, OnStack(e)', e.fn = "await" PROVE AwaitPlace(e)'
    <3>1. AwaitPlace(e) /\ e.on \in Groups
      BY <1>1, <1>8, <2>1, OnStackIs DEF GroupInv, FrameOK, GroupFns
    <3> QED BY <1>6, <1>7, <2>1, <3>1 DEF AwaitPlace
  <2> QED BY <2>1 DEF AwaitPlace
<1>14. StartOK' /\ TasksOnly' /\ TopOK'
  <2>1. Start \notin waiting'
    BY <1>1 DEF GroupInv, StartOK
  <2>2. TopOK'
    BY <1>3, QuietIs DEF GroupInv, TopOK
  <2> QED BY <2>1, <2>2 DEF StartOK, GroupInv, TasksOnly, OpSame
<1> QED BY <1>5, <1>11, <1>12, <1>13, <1>14 DEF GroupInv
-----------------------------------------------------------------------------
(* The steps of the coroutine.                                             *)

\* What they leave of the groups, which they do not touch.
LEMMA CoroutineGroups ==
  ASSUME TypeInv, AsyncProgramAssumption, GroupInv, \A o \in Ops : OpSame(o), group' = group,
         \A g : ~Calling(g), \A g : ~Calling(g)', \A x : x \in Ending' => x \in Ending,
         NEW g \in Groups
  PROVE  /\ GroupOK(g)'
         /\ ReportedTo(g)' = ReportedTo(g)
         /\ Finished(g)' <=> Finished(g)
         /\ Untouched(g) /\ (g \in InProgress({"await"})' => g \in InProgress({"await"}))
               => Untouched(g)'
<1>1. TasksSame(g)
  BY TaskIsOp DEF TasksSame
<1>2. GroupOK(g)' /\ ReportedTo(g)' = ReportedTo(g) /\ (Finished(g)' <=> Finished(g))
  BY <1>1, GroupSame DEF GroupInv
<1> QED BY <1>1, <1>2, UntouchedSame

\* The coroutine is called for the first time.
LEMMA StartStep ==
  ASSUME TypeInv, TypeInv', AsyncProgramAssumption, GroupInv, \A o \in Ops : OpSame(o),
         call_start
  PROVE  GroupInv'
<1>1. /\ stack = << >> /\ stack' = <<CoHandler>> \o stack /\ StackOK /\ StackOK'
      /\ Start \in waiting /\ Start \notin waiting' /\ group' = group /\ co' = co
  BY DEF call_start, InLoop, Svc!Call, TypeInv
<1>2. CoHandler \in FrameSet /\ CoHandler.fn = "coro"
  BY CoFrames DEF FrameOK
<1>3. stack' # << >> /\ Head(stack') = CoHandler
  BY <1>1, <1>2, TopAfter
<1>4. /\ \A g : ~Calling(g)
      /\ \A g : ~Calling(g)'
      /\ ~Running("after")' /\ ~Running("NULL")'
  BY <1>1, <1>2, <1>3 DEF Calling, Running
<1>5. FramesKept
  <2>1. StackStep(CoHandler, CoHandler) /\ CoHandler.fn \notin {"await", "free_group"}
    BY <1>1, <1>2 DEF StackStep
  <2> QED BY <1>1, <1>2, <2>1, KeepsFrames DEF GroupInv
<1>6. co.state = 0 /\ co.mem = "live" /\ 0 # DONE
  BY <1>1 DEF GroupInv, StartOK, DONE
<1>7. ASSUME NEW g \in Groups PROVE GroupOK(g)' /\ PlaceOK(g)'
  <2>1. /\ GroupOK(g)' /\ (Finished(g)' <=> Finished(g)) /\ (Untouched(g) => Untouched(g)')
    BY <1>1, <1>4, <1>5, CoroutineGroups DEF FramesKept
  <2> QED BY <1>1, <2>1 DEF GroupInv, PlaceOK
<1>8. StartOK' /\ TasksOnly' /\ TopOK'
  BY <1>1, <1>4, <1>6 DEF StartOK, GroupInv, TasksOnly, OpSame, TopOK
<1>9. \A f \in FrameSet : OnStack(f)' => AwaitPlace(f)'
  BY <1>1, <1>5 DEF GroupInv, FramesKept, AwaitPlace
<1> QED BY <1>5, <1>7, <1>8, <1>9 DEF GroupInv, FramesKept

\* An await is left, and what follows the block returns; the context is freed if
\* the coroutine is done.
LEMMA LeaveStep ==
  ASSUME TypeInv, TypeInv', AsyncProgramAssumption, GroupInv, \A o \in Ops : OpSame(o),
         await_ends \/ co_returns
  PROVE  GroupInv'
<1> DEFINE f == Frame("after", 0)
<1>1. /\ stack # << >> /\ StackOK /\ StackOK' /\ group' = group /\ waiting' = waiting
      /\ Head(stack).fn \in {"await", "after"} /\ co.mem = "live"
  BY DEF await_ends, co_returns, CoSuspends, CoAfter, Running, Usable, svcVars, TypeInv
<1>2. f \in FrameSet /\ f.fn = "after"
  BY CoFrames DEF FrameOK
<1>3. /\ Becomes(<<f>>) \/ Returns
      /\ co'.state = co.state /\ co'.nested = co.nested
      /\ co'.mem = "freed" => co.state = DONE
      /\ co'.mem = "live" \/ Returns
  <2>1. CASE await_ends
    <3>1. Becomes(<<f>>) /\ co' = [co EXCEPT !.state = co.state]
      BY <2>1 DEF await_ends, CoSuspends, StateAfterAwait
    <3>2. co' = co
      BY <3>1 DEF TypeInv, CoOK
    <3> QED BY <1>1, <3>1, <3>2
  <2>2. CASE co_returns
    <3>1. Returns /\ co' = IF co.state = DONE THEN [co EXCEPT !.mem = "freed"] ELSE co
      BY <2>2 DEF co_returns, CoAfter
    <3>2. co \in [state : {DONE} \cup 0..NumAwaits, mem : {"live", "freed"}, nested : BOOLEAN]
      BY DEF TypeInv, CoOK
    <3>3. co'.state = co.state /\ co'.nested = co.nested
      BY <3>1, <3>2
    <3>4. co'.mem = "freed" => co.state = DONE
      BY <1>1, <3>1, <3>2
    <3> QED BY <3>1, <3>3, <3>4
  <2> QED BY <2>1, <2>2
<1> HIDE DEF f
<1>4. FramesKept
  <2>1. StackStep(f, f) /\ f.fn \notin {"await", "free_group"}
    BY <1>1, <1>2, <1>3 DEF StackStep
  <2> QED BY <1>1, <1>2, <2>1, KeepsFrames DEF GroupInv
<1>5. /\ \A g : ~Calling(g)
      /\ \A g : ~Calling(g)'
      /\ ~Running("coro")' /\ ~Running("NULL")'
      /\ Running("after")' => co'.mem = "live"
  <2>1. \A g : ~Calling(g)
    BY <1>1 DEF Calling, Running
  <2>2. CASE Returns
    <3>1. Quiet'
      BY <1>1, <1>2, <2>2, TopAfter
    <3> QED BY <2>1, <3>1, QuietIs
  <2>3. CASE ~Returns
    <3>1. stack' # << >> /\ Head(stack') = f
      BY <1>1, <1>2, <1>3, <2>3, TopAfter
    <3> QED BY <1>2, <1>3, <2>1, <2>3, <3>1 DEF Calling, Running
  <2> QED BY <2>2, <2>3
<1>6. ASSUME NEW g \in Groups PROVE GroupOK(g)' /\ PlaceOK(g)'
  <2>1. /\ GroupOK(g)' /\ (Finished(g)' <=> Finished(g)) /\ (Untouched(g) => Untouched(g)')
    BY <1>1, <1>4, <1>5, CoroutineGroups DEF FramesKept
  <2> QED BY <1>3, <2>1 DEF GroupInv, PlaceOK
<1>7. StartOK' /\ TasksOnly' /\ TopOK'
  <2>1. Start \notin waiting'
    BY <1>1 DEF GroupInv, StartOK
  <2> QED BY <1>3, <1>5, <2>1 DEF StartOK, GroupInv, TasksOnly, OpSame, TopOK
<1>8. ASSUME NEW e \in FrameSet, OnStack(e)' PROVE AwaitPlace(e)'
  BY <1>1, <1>3, <1>4, <1>8 DEF GroupInv, FramesKept, AwaitPlace
<1> QED BY <1>4, <1>6, <1>7, <1>8 DEF GroupInv, FramesKept

\* The coroutine runs to its next await, or to its end: the group it awaited has
\* finished, and an await that it was called from is noted.
LEMMA ResumeStep ==
  ASSUME TypeInv, TypeInv', AsyncProgramAssumption, GroupInv, \A o \in Ops : OpSame(o),
         co_resumes
  PROVE  GroupInv'
<1>1. /\ stack # << >> /\ StackOK /\ StackOK' /\ group' = group /\ waiting' = waiting
      /\ Head(stack).fn = "coro" /\ Running("coro")
  BY DEF co_resumes, CoAwaits, CoEnds, Running, svcVars, TypeInv
<1>2. /\ co.state # DONE /\ co.mem = "live" /\ (co.state # 0 => Finished(co.state))
      /\ co.state \in Nat
  BY <1>1 DEF GroupInv, TopOK, TypeInv, CoOK
<1>3. \A g \in Groups : /\ g \in Nat \ {0}
                        /\ g <= co.state => Finished(g)
                        /\ g > co.state => Untouched(g)
  BY <1>2 DEF GroupInv, PlaceOK, AsyncProgramAssumption
<1>4. PICK f \in FrameSet :
        /\ Becomes(<<f>>) /\ co'.mem = co.mem
        /\ co'.nested = (co.nested \/ FramesOf({"await"}) # {})
        /\ \/ f.fn = "after" /\ co'.state = DONE
           \/ /\ f.fn = "await" /\ f.on = co.state + 1 /\ f.on \in Groups
              /\ co'.state = co.state + 1
  <2>1. co \in [state : {DONE} \cup 0..NumAwaits, mem : {"live", "freed"}, nested : BOOLEAN]
    BY DEF TypeInv, CoOK
  <2>2. CASE CoAwaits
    <3> DEFINE f == Frame("await", co.state + 1)
    <3>1. /\ Becomes(<<f>>) /\ co.state < NumAwaits
          /\ co' = [co EXCEPT !.state = @ + 1,
                              !.nested = @ \/ FramesOf({"await"}) # {}]
      BY <2>2 DEF CoAwaits
    <3>2. co.state + 1 \in Groups
      BY <1>2, <3>1 DEF AsyncProgramAssumption
    <3>3. f \in FrameSet /\ f.fn = "await" /\ f.on = co.state + 1
      BY <3>2 DEF Frame, FrameAt, FrameSet, Fns, GroupFns
    <3>4. /\ co'.mem = co.mem /\ co'.state = co.state + 1
          /\ co'.nested = (co.nested \/ FramesOf({"await"}) # {})
      BY <2>1, <3>1
    <3> QED BY <3>1, <3>2, <3>3, <3>4
  <2>3. CASE CoEnds
    <3> DEFINE f == Frame("after", 0)
    <3>1. /\ Becomes(<<f>>)
          /\ co' = [co EXCEPT !.state = DONE,
                              !.nested = @ \/ FramesOf({"await"}) # {}]
      BY <2>3 DEF CoEnds
    <3>2. f \in FrameSet /\ f.fn = "after"
      BY CoFrames DEF FrameOK
    <3>3. /\ co'.mem = co.mem /\ co'.state = DONE
          /\ co'.nested = (co.nested \/ FramesOf({"await"}) # {})
      BY <2>1, <3>1
    <3> QED BY <3>1, <3>2, <3>3
  <2> QED BY <2>2, <2>3 DEF co_resumes
<1>5. stack' # << >> /\ Head(stack') = f
  BY <1>1, <1>4, TopAfter
<1>6. /\ \A g : ~Calling(g)
      /\ \A g : ~Calling(g)'
      /\ ~Running("coro")' /\ ~Running("NULL")'
  BY <1>1, <1>4, <1>5 DEF Calling, Running
<1>7. (\A x : x \in Ending' => x \in Ending) /\ ApartIn({"free_group"})'
  <2>1. StackStep(f, f) /\ f.fn \notin {"free_group"}
    BY <1>1, <1>4 DEF StackStep
  <2> QED BY <1>1, <2>1, NoneNew DEF GroupInv, Ending
<1>8. \A x : x \in InProgress({"await"})' => x \in InProgress({"await"})
                                              \/ (f.fn = "await" /\ x = f.on)
  <2>1. \A x : Is(f, x, {"await"}) => f.fn = "await" /\ x = f.on
    BY DEF Is
  <2>2. \A x : Rest(x, {"await"}) => x \in InProgress({"await"})
    BY <1>1, HeadOrRest
  <2> QED BY <1>1, <1>4, <2>1, <2>2, BecomesView
<1>9. ASSUME NEW g \in Groups PROVE GroupOK(g)' /\ PlaceOK(g)'
  <2>1. /\ GroupOK(g)' /\ (Finished(g)' <=> Finished(g))
        /\ (Untouched(g) /\ ~(f.fn = "await" /\ g = f.on) => Untouched(g)')
    BY <1>1, <1>6, <1>7, <1>8, CoroutineGroups
  <2>2. CASE f.fn = "after" /\ co'.state = DONE
    BY <1>2, <1>3, <2>1, <2>2 DEF PlaceOK
  <2>3. CASE f.on = co.state + 1 /\ co'.state = co.state + 1
    <3>1. co'.state # DONE
      BY <1>2, <2>3 DEF DONE
    <3>2. g < co'.state => g <= co.state
      BY <1>2, <1>3, <2>3
    <3>3. g > co'.state => g > co.state /\ g # f.on
      BY <1>2, <1>3, <2>3
    <3> QED BY <1>3, <2>1, <3>1, <3>2, <3>3 DEF PlaceOK
  <2> QED BY <1>4, <2>2, <2>3
<1>10. StartOK' /\ TasksOnly' /\ TopOK'
  <2>1. Start \notin waiting'
    BY <1>1 DEF GroupInv, StartOK
  <2> QED BY <1>2, <1>4, <1>6, <2>1 DEF StartOK, GroupInv, TasksOnly, OpSame, TopOK
<1>11. ASSUME NEW e \in FrameSet, OnStack(e)' PROVE AwaitPlace(e)'
  <2>1. CASE e = f
    <3>1. f.fn = "await" => group[f.on].mem = "none" /\ f.on = co'.state
      <4>1. f.fn = "await" => f.on \in Groups /\ f.on > co.state /\ f.on = co'.state
        BY <1>2, <1>4
      <4> QED BY <1>3, <4>1 DEF Untouched
    <3> QED BY <1>1, <2>1, <3>1 DEF AwaitPlace
  <2>2. CASE e # f
    <3>1. OnStack(e)
      BY <1>1, <1>4, <1>11, <2>2, FramesAfter, OnStackIs
    <3>2. e.fn = "await" => FramesOf({"await"}) # {}
      BY <1>1, <3>1 DEF OnStack, FramesOf, StackOK
    <3>3. e.fn = "await" => co'.nested
      BY <1>4, <3>2
    <3>4. AwaitPlace(e)
      BY <3>1 DEF GroupInv
    <3> QED BY <1>1, <3>3, <3>4 DEF AwaitPlace
  <2> QED BY <2>1, <2>2
<1> QED BY <1>7, <1>9, <1>10, <1>11 DEF GroupInv
-----------------------------------------------------------------------------
(* The steps of the operations.                                            *)

\* The service calls an operation: its function, or the handler that was posted.
LEMMA CallStep ==
  ASSUME TypeInv, TypeInv', AsyncProgramAssumption, LifeInv, GroupInv,
         NEW o \in Ops, NEW code \in CallCodes, call_op(o, code), UNCHANGED <<group, co>>,
         stack = << >> \/ Running("await")
  PROVE  GroupInv'
<1> DEFINE f == Entry(o)
<1>1. /\ StackOK /\ StackOK' /\ OpsOK /\ OpLife /\ WaitersIdle /\ ApartIn(OpFns)
      /\ stack' = <<f>> \o stack /\ waiting' = waiting \ {Wait(o)}
  BY LifeIdle DEF TypeInv, call_op, Svc!Call, LifeInv
<1>2. /\ f \in FrameSet
      /\ op[o].kind = "post" => f = op[o].hnd /\ f.fn \in {"NULL", "task_group_callback"}
      /\ op[o].kind # "post" => f.fn \in Impls
  <2>1. /\ FrameOK(f) /\ (op[o].kind = "post" => f = op[o].hnd)
        /\ (op[o].kind # "post" => f.fn \in Impls /\ f.on = o)
    BY <1>1, EntryFrame
  <2>2. f \in FrameSet
    BY <2>1 DEF FrameOK
  <2>3. IsGroupHandler(op[o].hnd)
    BY <1>1 DEF OpsOK, RecOK
  <2>4. op[o].kind = "post" => f.fn \in {"NULL", "task_group_callback"}
    BY <2>1, <2>2, <2>3, HandlerFrame
  <2> QED BY <2>1, <2>2, <2>4
<1> HIDE DEF f
<1>3. PICK x : SeesCall(o, code, x)
  BY <1>1, CallSeen
<1>4. /\ \A p \in Ops \ {o} : OpSame(p)
      /\ op[o].waits > 0 /\ (Begun(o)' => Begun(o))
      /\ op'[o].waits > 0 => op[o].waits > 0 /\ op'[o].hnd = op[o].hnd
      /\ ~Reported(o) /\ (Reported(o)' <=> op[o].kind = "post")
  BY <1>1, <1>3, CalledOps
<1>5. FramesKept
  <2>1. StackStep(f, f) /\ f.fn \notin {"await", "free_group"}
    BY <1>1, <1>2 DEF StackStep, Impls
  <2> QED BY <1>1, <1>2, <2>1, KeepsFrames DEF GroupInv
<1>6. Start \notin waiting'
  BY <1>1, <1>4, NothingBegun DEF Begun
<1>7. Quiet /\ stack' # << >> /\ Head(stack') = f
  BY <1>1, <1>2, TopAfter DEF Quiet, Tops, Running
<1>8. CASE op[o].kind = "post"
  BY <1>2, <1>4, <1>5, <1>6, <1>7, <1>8, ReportStep
<1>9. CASE op[o].kind # "post"
  <2>1. Quiet'
    BY <1>2, <1>7, <1>9 DEF Quiet, Tops, Impls
  <2>2. OpSame(o)
    BY <1>4, <1>9 DEF OpSame
  <2> QED BY <1>4, <1>5, <1>6, <1>7, <2>1, <2>2, QuietStep
<1> QED BY <1>8, <1>9

\* An operation's function runs: it calls the client's handler, or waits again; or
\* the context is freed after that handler.
LEMMA OpStep ==
  ASSUME TypeInv, TypeInv', AsyncProgramAssumption, LifeInv, LifeInv', GroupInv, op_runs,
         NEW o \in Ops, o = This
  PROVE  GroupInv'
<1> DEFINE f == Frame("free_ctx", o)
           h == op[o].hnd
<1>1. /\ StackOK /\ StackOK' /\ OpsOK /\ OpLife /\ OpLife' /\ ApartIn(OpFns)
      /\ group' = group /\ co' = co
  BY DEF TypeInv, LifeInv, op_runs
<1>2. /\ stack # << >> /\ Head(stack).fn \in OpFns
      /\ \/ (\E x : SeesEnd(o, x)) /\ CallsThen(h, f)
         \/ (\E r : SeesAgain(o, r)) /\ Returns
         \/ (\E x : SeesFree(o, x)) /\ Returns
  BY <1>1, OpRunsSeen
<1>3. /\ f \in FrameSet /\ f.fn = "free_ctx"
      /\ h \in FrameSet /\ h.fn \in {"NULL", "task_group_callback"}
  <2>1. h \in FrameSet /\ IsGroupHandler(h)
    BY <1>1 DEF OpsOK, RecOK, OpRec
  <2>2. h.fn \in {"NULL", "task_group_callback"}
    BY <2>1, HandlerFrame
  <2> QED BY <2>1, <2>2 DEF Frame, FrameAt, FrameSet, Fns, OpFns
<1> HIDE DEF f, h
<1>4. FramesKept
  <2>1. StackStep(h, f) /\ h.fn \notin {"await", "free_group"} /\ f.fn \notin {"await", "free_group"}
    BY <1>2, <1>3 DEF StackStep
  <2> QED BY <1>1, <1>3, <2>1, KeepsFrames DEF GroupInv
<1>5. Quiet
  BY <1>2 DEF Quiet, Tops, OpFns, Impls
<1>6. Start \notin waiting
  BY <1>2 DEF GroupInv, StartOK
<1>7. Start # <<o, op[o].waits + 1>>
  BY DEF Start, AsyncProgramAssumption
<1>8. CASE (\E x : SeesEnd(o, x)) /\ CallsThen(h, f)
  <2>1. PICK x : SeesEnd(o, x)
    BY <1>8
  <2>2. /\ \A p \in Ops \ {o} : OpSame(p)
        /\ op[o].waits > 0 /\ (Begun(o)' => Begun(o))
        /\ op'[o].waits > 0 => op[o].waits > 0 /\ op'[o].hnd = op[o].hnd
        /\ ~Reported(o) /\ Reported(o)'
    BY <1>1, <2>1, EndedOps
  <2>3. stack' # << >> /\ Head(stack') = op[o].hnd
    BY <1>1, <1>2, <1>3, <1>8, TopAfter DEF h
  <2>4. Start \notin waiting'
    BY <1>6, <2>1 DEF SeesEnd
  <2> QED BY <1>1, <1>4, <1>5, <2>2, <2>3, <2>4, ReportStep
<1>9. CASE ((\E r : SeesAgain(o, r)) \/ (\E x : SeesFree(o, x))) /\ Returns
  <2>1. \A p \in Ops : OpSame(p)
    BY <1>1, <1>9, OtherOps
  <2>2. Quiet'
    BY <1>1, <1>2, <1>3, <1>9, TopAfter
  <2>3. Start \notin waiting'
    BY <1>6, <1>7, <1>9 DEF SeesAgain, SeesFree, Accepted, Svc!Accept
  <2> QED BY <1>1, <1>4, <1>5, <2>1, <2>2, <2>3, QuietStep
<1> QED BY <1>2, <1>8, <1>9
-----------------------------------------------------------------------------
(* The steps of an await.                                                  *)

\* The await that runs is the coroutine's present one as long as a task of its
\* group is not begun; the group is made in its first step.
LEMMA PresentAwait ==
  ASSUME TypeInv, AsyncProgramAssumption, OrderInv, GroupInv, Running("await"),
         NEW g \in Groups, g = This,
         Tasks[g] # << >> => \E j \in DOMAIN Tasks[g] : ~Begun(Tasks[g][j])
  PROVE  /\ co.state = g /\ co.state # DONE /\ co.mem = "live"
         /\ ~Finished(g) /\ Quiet /\ StackOK
         /\ Step = 0 => group[g].mem = "none"
         /\ \A e : Under(e) /\ e.fn = "await" => e.on \in Groups \ {g} /\ OnStack(e)
<1>1. stack # << >> /\ Head(stack).fn = "await" /\ Head(stack).on = g /\ StackOK
  BY DEF Running, TypeInv, This
<1>2. g \in InProgress({"await"}) /\ ~Rest(g, {"await"})
  BY <1>1, HeadOrRest DEF Is, OrderInv
<1>3. ~Untouched(g)
  BY <1>2 DEF Untouched, Unreached
<1>4. ~Finished(g)
  BY DEF Finished, ReportedTo, Reported, Begun
<1>5. co.state = g /\ co.state # DONE /\ co.mem = "live"
  BY <1>3, <1>4, AwaitedGroup
<1>6. Step = 0 => group[g].mem = "none"
  <2>1. Head(stack) \in FrameSet /\ OnStack(Head(stack))
    BY <1>1, OnStackIs
  <2>2. AwaitPlace(Head(stack))
    BY <2>1 DEF GroupInv
  <2> QED BY <1>1, <2>2 DEF AwaitPlace, Step
<1>7. ASSUME NEW e, Under(e), e.fn = "await" PROVE e.on \in Groups \ {g} /\ OnStack(e)
  <2>1. OnStack(e) /\ e.on \in Groups
    BY <1>1, <1>7, OnStackIs DEF FrameOK, GroupFns
  <2> QED BY <1>2, <1>7, <2>1 DEF Under, Rest
<1>8. Quiet
  BY <1>1 DEF Quiet, Tops
<1> QED BY <1>1, <1>4, <1>5, <1>6, <1>7, <1>8

\* The group is made, or not.
LEMMA AwaitBeginsStep ==
  ASSUME TypeInv, TypeInv', AsyncProgramAssumption, OrderInv, GroupInv,
         \A o \in Ops : OpSame(o), await_begins, NEW g \in Groups, g = This
  PROVE  GroupInv'
<1> DEFINE f == FrameAt("await", g, 1)
           n == Len(Tasks[g])
           new == [mem |-> "live", remaining |-> n, hnd |-> CoHandler]
<1>1. /\ Running("await") /\ Becomes(<<f>>) /\ Step = 0 /\ co' = co /\ waiting' = waiting
      /\ group' = [group EXCEPT ![g] = new] \/ group' = group
  BY DEF await_begins, make_task_group, TasksNow, svcVars
<1>2. \A j \in DOMAIN Tasks[g] : ~Begun(Tasks[g][j])
  BY <1>1, TaskIsOp, TasksBefore DEF TypeInv
<1>3. n \in Nat /\ (Tasks[g] # << >> => \E j \in DOMAIN Tasks[g] : TRUE)
  <2>1. Tasks[g] \in Seq(Ops)
    BY DEF AsyncProgramAssumption
  <2>2. Tasks[g] # << >> => 1 \in DOMAIN Tasks[g]
    BY <2>1
  <2> QED BY <2>1, <2>2
<1>4. /\ co.state = g /\ co.state # DONE /\ co.mem = "live" /\ group[g].mem = "none"
      /\ ~Finished(g) /\ Quiet /\ StackOK
      /\ \A e : Under(e) /\ e.fn = "await" => e.on \in Groups \ {g} /\ OnStack(e)
  BY <1>1, <1>2, <1>3, PresentAwait
<1>5. /\ stack # << >> /\ f \in FrameSet
      /\ \A e \in FrameSet : OnStack(e)' => e = f \/ Under(e)
  BY <1>1, AwaitFrames
<1>6. /\ \A x : x \in Ending' <=> x \in Ending
      /\ \A x : x \in InProgress({"await"})' => x \in InProgress({"await"})
      /\ ApartIn({"free_group"})'
  BY <1>1, AwaitFrames DEF Ending, GroupInv
<1>7. f.fn = "await" /\ f.on = g /\ f.step = 1
  BY DEF FrameAt
<1> HIDE DEF f
<1>8. Quiet' /\ \A x : ~Calling(x) /\ ~Calling(x)'
  <2>1. Head(stack') = f
    BY <1>1, <1>4, <1>5, TopAfter
  <2>2. Quiet'
    BY <1>7, <2>1 DEF Quiet, Tops
  <2> QED BY <1>4, <2>2, QuietIs
<1>9. /\ \A h \in Groups \ {g} : group'[h] = group[h]
      /\ group'[g].mem = "none" \/ group'[g] = new
  BY <1>1, <1>4 DEF TypeInv, GroupsOK
<1>10. \A j \in DOMAIN Tasks[g] : ~(op'[Tasks[g][j]].waits > 0)
  BY <1>2, TaskIsOp DEF OpSame, Begun
<1>11. ReportedTo(g)' = {}
  BY <1>10 DEF ReportedTo, Reported
<1>12. GroupOK(g)'
  <2>1. TasksCall(g)'
    BY <1>10 DEF TasksCall
  <2>2. group'[g].mem # "none" => group'[g].hnd = CoHandler /\ Counted(g)' /\ group'[g].mem = "live"
    <3>1. Cardinality({}) = 0
      BY FS_EmptySet
    <3>2. n + Cardinality({}) = n
      BY <1>3, <3>1
    <3> QED BY <1>8, <1>9, <1>11, <3>2 DEF Counted
  <2>3. g \notin Ending'
    BY <1>4, <1>6 DEF GroupInv, GroupOK
  <2> QED BY <1>8, <2>1, <2>2, <2>3 DEF GroupOK
<1>13. PlaceOK(g)'
  <2>1. g \in Nat
    BY DEF AsyncProgramAssumption
  <2> QED BY <1>1, <1>4, <2>1 DEF PlaceOK
<1>14. \A h \in Groups \ {g} : GroupOK(h)' /\ PlaceOK(h)'
  BY <1>1, <1>6, <1>8, <1>9, OtherGroups
<1>15. ASSUME NEW e \in FrameSet, OnStack(e)' PROVE AwaitPlace(e)'
  <2>1. CASE e = f
    BY <1>1, <1>4, <1>7, <2>1 DEF AwaitPlace
  <2>2. CASE e # f /\ e.fn = "await"
    <3>1. e.on \in Groups \ {g} /\ AwaitPlace(e)
      BY <1>4, <1>5, <1>15, <2>2 DEF GroupInv
    <3> QED BY <1>1, <1>9, <3>1 DEF AwaitPlace
  <2> QED BY <2>1, <2>2 DEF AwaitPlace
<1>16. StartOK' /\ TasksOnly' /\ TopOK'
  <2>1. Start \notin waiting'
    BY <1>1, <1>5 DEF GroupInv, StartOK
  <2>2. TopOK'
    BY <1>1, <1>4, <1>8, QuietIs DEF TopOK
  <2> QED BY <2>1, <2>2 DEF StartOK, GroupInv, TasksOnly, OpSame
<1> QED BY <1>6, <1>12, <1>13, <1>14, <1>15, <1>16 DEF GroupInv

\* The next operation is begun, with the group's handler, or is not accepted.
LEMMA AwaitTaskStep ==
  ASSUME TypeInv, TypeInv', AsyncProgramAssumption, OrderInv, LifeInv, LifeInv', GroupInv,
         await_task, NEW g \in Groups, g = This, NEW s \in DOMAIN Tasks[g], s = Step,
         NEW o \in Ops, o = Tasks[g][s]
  PROVE  GroupInv'
<1> DEFINE f == FrameAt("await", g, s + 1)
<1>1. /\ Running("await") /\ Becomes(<<f>>) /\ co' = co /\ group' = group
      /\ ApartIn(OpFns) /\ OpLife /\ OpLife'
  BY DEF await_task, LifeInv
<1>2. ~Begun(o) /\ s \in Nat \ {0} /\ s + 1 \in Nat
  BY TaskNow, TaskIsOp
<1>3. /\ co.state = g /\ co.state # DONE /\ co.mem = "live"
      /\ ~Finished(g) /\ Quiet /\ StackOK
      /\ \A e : Under(e) /\ e.fn = "await" => e.on \in Groups \ {g} /\ OnStack(e)
  BY <1>1, <1>2, PresentAwait
<1>4. /\ stack # << >> /\ f \in FrameSet
      /\ \A e \in FrameSet : OnStack(e)' => e = f \/ Under(e)
  BY <1>1, <1>2, AwaitFrames
<1>5. /\ \A x : x \in Ending' <=> x \in Ending
      /\ \A x : x \in InProgress({"await"})' => x \in InProgress({"await"})
      /\ ApartIn({"free_group"})'
  BY <1>1, <1>2, AwaitFrames DEF Ending, GroupInv
<1>6. f.fn = "await" /\ f.on = g /\ f.step # 0
  BY <1>2 DEF FrameAt
<1> HIDE DEF f
<1>7. Quiet' /\ \A x : ~Calling(x) /\ ~Calling(x)'
  <2>1. Head(stack') = f
    BY <1>1, <1>3, <1>4, TopAfter
  <2>2. Quiet'
    BY <1>6, <2>1 DEF Quiet, Tops
  <2> QED BY <1>3, <2>2, QuietIs
\* What becomes of the operation.
<1>8. /\ \A p \in Ops \ {o} : OpSame(p)
      /\ ~Reported(o) /\ ~Reported(o)'
      /\ op'[o].waits > 0 => op'[o].hnd = GroupHandler(g)
      /\ Start \notin waiting'
  <2>1. Start \notin waiting
    BY <1>4 DEF GroupInv, StartOK
  <2>2. CASE SeesNothing
    <3>1. \A p \in Ops : OpSame(p)
      BY <2>2, UnseenOps
    <3>2. ~(op[o].waits > 0) /\ ~(op'[o].waits > 0)
      BY <1>2, <3>1 DEF OpSame, Begun
    <3> QED BY <2>1, <2>2, <3>1, <3>2, ReportedIs DEF SeesNothing
  <2>3. ASSUME NEW x, SeesBegin(o, GroupHandler(g), x)
        PROVE  /\ \A p \in Ops \ {o} : OpSame(p)
               /\ ~Reported(o) /\ ~Reported(o)' /\ op'[o].hnd = GroupHandler(g)
               /\ Start \notin waiting'
    <3>1. waiting' = waiting \/ waiting' = waiting \cup {<<o, 1>>}
      BY <2>3 DEF SeesBegin, BeginsWith, Svc!Accept, svcVars
    <3>2. Start # <<o, 1>>
      BY DEF Start, AsyncProgramAssumption
    <3> QED BY <1>1, <2>1, <2>3, <3>1, <3>2, BegunOps
  <2> QED BY <1>1, <2>2, <2>3, AwaitView
<1>9. \A h \in Groups : \A j \in DOMAIN Tasks[h] :
         Tasks[h][j] \in Ops /\ (Tasks[h][j] = o => h = g /\ j = s)
  BY TaskIsOp, TasksApart
<1>10. GroupOK(g)'
  <2>1. ReportedTo(g)' = ReportedTo(g)
    <3>1. \A j \in DOMAIN Tasks[g] : Reported(Tasks[g][j])' <=> Reported(Tasks[g][j])
      BY <1>8, <1>9 DEF OpSame
    <3> QED BY <3>1 DEF ReportedTo
  <2>2. GroupHandler(g)' = GroupHandler(g)
    BY <1>1 DEF GroupHandler
  <2>3. TasksCall(g)'
    BY <1>8, <1>9, <2>2 DEF GroupInv, GroupOK, TasksCall, OpSame
  <2>4. Counted(g) => Counted(g)'
    BY <1>1, <1>7, <2>1 DEF Counted
  <2> QED BY <1>1, <1>3, <1>5, <1>7, <2>3, <2>4 DEF GroupInv, GroupOK
<1>11. PlaceOK(g)'
  <2>1. g \in Nat
    BY DEF AsyncProgramAssumption
  <2> QED BY <1>1, <1>3, <2>1 DEF PlaceOK
<1>12. ASSUME NEW h \in Groups \ {g} PROVE GroupOK(h)' /\ PlaceOK(h)'
  <2>1. TasksSame(h)
    BY <1>8, <1>9 DEF TasksSame
  <2>2. GroupOK(h)' /\ (Finished(h)' <=> Finished(h))
    BY <1>1, <1>5, <1>7, <2>1, GroupSame DEF GroupInv
  <2>3. Untouched(h) => Untouched(h)'
    BY <1>1, <1>5, <2>1, UntouchedSame
  <2> QED BY <1>1, <2>2, <2>3 DEF GroupInv, PlaceOK
<1>13. ASSUME NEW e \in FrameSet, OnStack(e)' PROVE AwaitPlace(e)'
  <2>1. CASE e = f
    BY <1>1, <1>3, <1>6, <2>1 DEF AwaitPlace
  <2>2. CASE e # f /\ e.fn = "await"
    <3>1. AwaitPlace(e)
      BY <1>3, <1>4, <1>13, <2>2 DEF GroupInv
    <3> QED BY <1>1, <3>1 DEF AwaitPlace
  <2> QED BY <2>1, <2>2 DEF AwaitPlace
<1>14. StartOK' /\ TasksOnly' /\ TopOK'
  <2>1. TopOK'
    BY <1>1, <1>3, <1>7, QuietIs DEF TopOK
  <2>2. ASSUME NEW p \in Ops, Begun(p)'
        PROVE  \E h \in Groups : \E j \in DOMAIN Tasks[h] : p = Tasks[h][j]
    <3>1. CASE p = o
      BY <3>1
    <3>2. CASE p # o
      BY <1>8, <2>2, <3>2 DEF GroupInv, TasksOnly, OpSame
    <3> QED BY <3>1, <3>2
  <2> QED BY <1>8, <2>1, <2>2 DEF StartOK, TasksOnly
<1> QED BY <1>5, <1>10, <1>11, <1>12, <1>13, <1>14 DEF GroupInv
-----------------------------------------------------------------------------
(* The theorems about groups and the coroutine.                            *)

\* Nothing was made, begun or called at first.
LEMMA InitGroups ==
  ASSUME Init, TypeInv, AsyncProgramAssumption
  PROVE  GroupInv
<1>1. /\ stack = << >> /\ waiting = {Start} /\ co.state = 0 /\ co.mem = "live" /\ 0 # DONE
      /\ \A g \in Groups : group[g].mem = "none"
      /\ \A o \in Ops : op[o].waits = 0 /\ op[o].mem = "none"
  BY DEF Init, OpsInit, GroupsInit, CoInit, DONE
<1>2. Len(stack) = 0 /\ Ending = {} /\ InProgress({"await"}) = {}
  BY <1>1 DEF Ending, InProgress, FramesOf
<1>3. /\ \A g : ~Calling(g)
      /\ ~Running("coro") /\ ~Running("after") /\ ~Running("NULL")
  BY <1>1 DEF Calling, Running
<1>4. \A o \in Ops : ~Begun(o)
  BY <1>1 DEF Begun
<1>5. ASSUME NEW g \in Groups PROVE GroupOK(g) /\ PlaceOK(g)
  <2>1. g \in Nat \ {0} /\ \A j \in DOMAIN Tasks[g] : Tasks[g][j] \in Ops
    BY TaskIsOp DEF AsyncProgramAssumption
  <2>2. Untouched(g) /\ TasksCall(g)
    BY <1>1, <1>2, <1>4, <2>1 DEF Untouched, Unreached, TasksCall
  <2> QED BY <1>1, <1>2, <1>3, <2>1, <2>2 DEF GroupOK, PlaceOK
<1>6. StartOK /\ TasksOnly /\ TopOK
  BY <1>1, <1>3, <1>4 DEF StartOK, TasksOnly, TopOK
<1>7. ApartIn({"free_group"}) /\ \A f \in FrameSet : ~OnStack(f)
  BY <1>2 DEF ApartIn, OnStack
<1> QED BY <1>5, <1>6, <1>7 DEF GroupInv

\* Every step keeps what the groups count and where the coroutine is.
LEMMA StepGroups ==
  ASSUME TypeInv, TypeInv', AsyncProgramAssumption, OrderInv, LifeInv, LifeInv', GroupInv,
         [Next]_vars
  PROVE  GroupInv'
<1>1. ApartIn(OpFns) /\ StackOK
  BY DEF LifeInv, TypeInv
<1>2. CASE group_runs \/ co_resumes \/ await_ends \/ co_returns
  <2>1. \A o \in Ops : OpSame(o)
    BY <1>1, <1>2, LeavesView, UnseenOps
  <2>2. CASE group_runs
    <3>1. /\ task_group_callback \/ free_group
          /\ co' = co /\ waiting' = waiting /\ This \in Groups
      <4>1. stack # << >> /\ Head(stack).fn \in GroupFns
        BY <2>2 DEF group_runs, GroupSteps, task_group_callback, free_group, Running, GroupFns
      <4>2. This \in Groups
        BY <4>1, RunningGroup
      <4> QED BY <2>2, <4>2 DEF group_runs, GroupSteps, svcVars
    <3> QED BY <2>1, <3>1, CallbackStep, FreeGroupStep
  <2> QED BY <1>2, <2>1, <2>2, ResumeStep, LeaveStep
<1>3. CASE await_begins
  <2>1. This \in Groups
    BY <1>3, RunningGroup DEF await_begins, Running, GroupFns
  <2>2. \A o \in Ops : OpSame(o)
    BY <1>1, <1>3, AwaitView, UnseenOps
  <2> QED BY <1>3, <2>1, <2>2, AwaitBeginsStep
<1>4. CASE await_task
  BY <1>4, TaskNow, AwaitTaskStep
<1>5. CASE op_runs
  <2>1. stack # << >> /\ Head(stack).fn \in OpFns
    BY <1>1, <1>5, OpRunsSeen
  <2>2. This \in Ops
    BY <2>1, RunningOp
  <2> QED BY <1>5, <2>2, OpStep
<1>6. CASE call_start
  <2>1. SeesStart
    <3>1. /\ stack' = <<CoHandler>> \o stack /\ op' = op /\ StackOK'
          /\ waiting' = waiting \ {Start} /\ called' = called \cup {Start}
      BY <1>6 DEF call_start, InLoop, Svc!Call, TypeInv
    <3>2. CoHandler \in FrameSet /\ CoHandler.fn \notin OpFns /\ StackStep(CoHandler, CoHandler)
      BY <3>1, CoFrames DEF FrameOK, OpFns, Impls, StackStep
    <3>3. UNCHANGED <<Handled, Freeing>>
      BY <1>1, <3>1, <3>2, OpsUnseen
    <3> QED BY <3>1, <3>3 DEF SeesStart
  <2> QED BY <1>6, <2>1, UnseenOps, StartStep
<1>7. ASSUME NEW o \in Ops, loop_calls(o) \/ await_cancels(o) PROVE GroupInv'
  <2>1. /\ \E code \in CallCodes : call_op(o, code)
        /\ UNCHANGED <<group, co>> /\ (stack = << >> \/ Running("await"))
    BY <1>7 DEF loop_calls, await_cancels, Statuses, CallCodes, InLoop
  <2> QED BY <2>1, CallStep
<1>8. CASE iosvc_run \/ iosvc_stop \/ run_returns \/ UNCHANGED vars
  <2>1. UNCHANGED <<op, waiting, called, stack, co, group>>
    BY <1>8 DEF iosvc_run, iosvc_stop, run_returns, vars, svcVars, Svc!Run, Svc!Stop, Svc!Finish
  <2>2. \A f : OnStack(f)' <=> OnStack(f)
    BY <2>1 DEF OnStack
  <2>3. \A g : /\ ReportedTo(g)' = ReportedTo(g) /\ (Calling(g)' <=> Calling(g))
               /\ (Begun(g)' <=> Begun(g)) /\ GroupHandler(g)' = GroupHandler(g)
    BY <2>1 DEF ReportedTo, Reported, Wait, InProgress, FramesOf, Calling, Running, This, Begun,
                GroupHandler
  <2>4. Ending' = Ending /\ InProgress({"await"})' = InProgress({"await"})
    BY <2>1 DEF Ending, InProgress, FramesOf
  <2>5. ASSUME NEW g \in Groups PROVE GroupOK(g)' /\ PlaceOK(g)'
    <3>1. /\ Finished(g)' <=> Finished(g)
          /\ Untouched(g)' <=> Untouched(g)
      BY <2>1, <2>3, <2>4 DEF Finished, Untouched, Unreached
    <3>2. (Counted(g)' <=> Counted(g)) /\ (TasksCall(g)' <=> TasksCall(g))
      BY <2>1, <2>3 DEF Counted, TasksCall
    <3> QED BY <2>1, <2>3, <2>4, <3>1, <3>2 DEF GroupInv, GroupOK, PlaceOK
  <2>6. \A g : Finished(g)' <=> Finished(g)
    BY <2>3 DEF Finished
  <2>7. StartOK' /\ TasksOnly' /\ TopOK' /\ ApartIn({"free_group"})'
    BY <2>1, <2>3, <2>6 DEF GroupInv, StartOK, TasksOnly, TopOK, ApartIn, Running
  <2>8. \A f \in FrameSet : OnStack(f)' => AwaitPlace(f)'
    BY <2>1, <2>2 DEF GroupInv, AwaitPlace
  <2> QED BY <2>5, <2>7, <2>8 DEF GroupInv
<1> QED BY <1>2, <1>3, <1>4, <1>5, <1>6, <1>7, <1>8 DEF Next, HandlerSteps

\* The two invariants together.
FullInv == IInv /\ GroupInv

\* Every reachable state satisfies both invariants.
LEMMA GroupInvariance == Spec => []FullInv
<1>1. Init => FullInv
  BY Inductive, InitGroups, AsyncProgramAssumption DEF FullInv, IInv
<1>2. FullInv /\ [Next]_vars => FullInv'
  BY Inductive, StepGroups, AsyncProgramAssumption DEF FullInv, IInv
<1> QED BY <1>1, <1>2, PTL DEF Spec

\* Nothing but the running function can be a group's: the calls of g.
LEMMA CallsAre ==
  ASSUME StackOK, NEW g
  PROVE  CallsOf(g) = IF Calling(g) THEN {1} ELSE {}
<1>1. DOMAIN stack = 1..Len(stack) /\ Len(stack) \in Nat
  BY DEF StackOK
<1>2. \A k \in 1..Len(stack) : stack[k].fn = "task_group_callback" => k = 1
  BY <1>1 DEF StackOK, Below
<1>3. stack # << >> <=> Len(stack) > 0
  BY DEF StackOK
<1>4. stack # << >> => Head(stack) = stack[1]
  BY <1>3 DEF StackOK
<1> QED BY <1>1, <1>2, <1>3, <1>4 DEF CallsOf, FramesOf, Calling, Running, This

\* A group's counter is exact at every moment, each call of it finds it in memory,
\* and its handler is called at 0 only (task_group.c:10-17).
THEOREM GroupsAlwaysCount == Spec => []GroupCountsTasks
<1>1. FullInv => GroupCountsTasks
  <2> SUFFICES ASSUME FullInv, NEW g \in Groups
               PROVE  /\ group[g].mem = "live" =>
                            group[g].remaining = Len(Tasks[g]) - Cardinality(ReportedTo(g))
                                                               + Cardinality(CallsOf(g))
                      /\ CallsOf(g) # {} => group[g].mem = "live"
                      /\ g \in InProgress({"free_group"}) =>
                            group[g].mem = "live" /\ group[g].remaining = 0
    BY DEF GroupCountsTasks
  <2>1. TypeInv /\ StackOK /\ GroupInv /\ GroupOK(g) /\ AsyncProgramAssumption
    BY AsyncProgramAssumption DEF FullInv, IInv, TypeInv, GroupInv
  <2>2. CallsOf(g) = IF Calling(g) THEN {1} ELSE {}
    BY <2>1, CallsAre
  <2>3. Cardinality(CallsOf(g)) = IF Calling(g) THEN 1 ELSE 0
    BY <2>2, FS_EmptySet, FS_Singleton
  <2> DEFINE r == group[g].remaining
             c == Cardinality(ReportedTo(g))
             n == Len(Tasks[g])
             k == Cardinality(CallsOf(g))
  <2>4. r \in Nat /\ c \in Nat /\ n \in Nat
    BY <2>1, ReportedSize DEF TypeInv, GroupsOK, GroupRec
  <2>5. ASSUME group[g].mem = "live" PROVE r = n - c + k
    <3>1. Counted(g)
      BY <2>1, <2>5 DEF GroupOK
    <3>2. (Calling(g) => r + c = n + 1) /\ (~Calling(g) => r + c = n)
      BY <3>1 DEF Counted
    <3> HIDE DEF r, c, n, k
    <3> QED BY <2>3, <2>4, <3>2 DEF k
  <2>6. CallsOf(g) # {} => group[g].mem = "live"
    BY <2>1, <2>2, CallingGroup
  <2>7. ASSUME g \in InProgress({"free_group"}) PROVE group[g].mem = "live" /\ r = 0
    <3>1. group[g].mem = "live" /\ Finished(g) /\ Counted(g) /\ ~Calling(g)
      BY <2>1, <2>7 DEF GroupOK, Ending, Finished
    <3>2. c = n
      <4>1. DOMAIN Tasks[g] = 1..n
        BY <2>1, ReportedSize
      <4>2. ReportedTo(g) = 1..n
        BY <3>1, <4>1 DEF Finished
      <4> QED BY <2>4, <4>2, IntervalSize
    <3>3. r + c = n
      BY <3>1 DEF Counted
    <3> HIDE DEF r, c, n
    <3>4. r = 0
      BY <2>4, <3>2, <3>3
    <3> QED BY <3>1, <3>4
  <2> QED BY <2>5, <2>6, <2>7
<1> QED BY <1>1, GroupInvariance, PTL

\* A NULL callback is called only by a task of a group that could not be allocated
\* (task_group.c:22-23, async_rdwr.c:84, 93-96).
THEOREM NullCallsAlwaysExplained == Spec => []NullCallsExplained
<1>1. FullInv => NullCallsExplained
  BY DEF FullInv, GroupInv, TopOK, NullCallsExplained
<1> QED BY <1>1, GroupInvariance, PTL

\* A coroutine that was not entered again inside its own await is cleaned up once,
\* and not used afterwards (coroutine.h:36-37, 93-96).
THEOREM AlwaysCleanedUpOnce == Spec => []CleanedUpOnce
<1>1. FullInv => CleanedUpOnce
  <2> SUFFICES ASSUME FullInv, ~co.nested, NEW k \in FramesOf({"coro", "await", "after"})
               PROVE  co.mem = "live"
    BY DEF CleanedUpOnce
  <2>1. TypeInv /\ StackOK /\ GroupInv
    BY DEF FullInv, IInv, TypeInv
  <2>2. /\ k \in 1..Len(stack) /\ stack[k].fn \in {"coro", "await", "after"}
        /\ Len(stack) \in Nat /\ stack # << >> /\ Head(stack) = stack[1]
    BY <2>1 DEF FramesOf, StackOK
  <2>3. CASE stack[k].fn = "await"
    <3>1. stack[k] \in FrameSet /\ OnStack(stack[k]) /\ stack[k].on \in Groups
      BY <2>1, <2>2, <2>3 DEF OnStack, StackOK, FrameOK, GroupFns
    <3>2. co.state = stack[k].on
      BY <2>1, <2>3, <3>1 DEF GroupInv, AwaitPlace
    <3>3. co.state # DONE
      BY <3>1, <3>2, AsyncProgramAssumption DEF AsyncProgramAssumption, DONE
    <3> QED BY <2>1, <3>3 DEF GroupInv, TopOK, TypeInv, CoOK
  <2>4. CASE stack[k].fn \in {"coro", "after"}
    <3>1. k = 1
      BY <2>1, <2>2, <2>4 DEF StackOK, Below
    <3> QED BY <2>1, <2>2, <2>4, <3>1 DEF GroupInv, TopOK, Running
  <2> QED BY <2>2, <2>3, <2>4
<1> QED BY <1>1, GroupInvariance, PTL

\* The coroutine gets past an await only when every operation of the group has
\* completed (coroutine.h:83-98, task_group.c:13-14).
THEOREM AlwaysResumesAfterAll == Spec => ResumesAfterAll
<1> DEFINE Resumes == co.state \in 1..NumAwaits /\ co'.state # co.state =>
                         ReportedTo(co.state) = DOMAIN Tasks[co.state]
<1>1. FullInv /\ [Next]_vars => [Resumes]_vars
  <2> SUFFICES ASSUME FullInv, Next, co.state \in 1..NumAwaits, co'.state # co.state
               PROVE  ReportedTo(co.state) = DOMAIN Tasks[co.state]
    OBVIOUS
  <2>1. TypeInv /\ GroupInv
    BY DEF FullInv, IInv
  <2>2. co'.state # co.state => co' # co
    OBVIOUS
  <2>3. co' # co => co_resumes \/ await_ends \/ co_returns
    BY DEF Next, HandlerSteps, await_begins, await_task, op_runs, group_runs, call_start,
           loop_calls, await_cancels, iosvc_run, iosvc_stop, run_returns
  <2>4. await_ends \/ co_returns => co'.state = co.state
    <3>1. co \in [state : {DONE} \cup 0..NumAwaits, mem : {"live", "freed"}, nested : BOOLEAN]
      BY <2>1 DEF TypeInv, CoOK
    <3>2. await_ends => co' = [co EXCEPT !.state = co.state]
      BY DEF await_ends, CoSuspends, StateAfterAwait
    <3>3. co_returns => co' = IF co.state = DONE THEN [co EXCEPT !.mem = "freed"] ELSE co
      BY DEF co_returns, CoAfter
    <3> QED BY <3>1, <3>2, <3>3
  <2>5. Running("coro")
    BY <2>2, <2>3, <2>4 DEF co_resumes, CoAwaits, CoEnds
  <2>6. co.state # 0
    BY AsyncProgramAssumption DEF AsyncProgramAssumption
  <2> QED BY <2>1, <2>5, <2>6 DEF GroupInv, TopOK, Finished
<1> QED BY <1>1, GroupInvariance, PTL DEF Spec, ResumesAfterAll
=============================================================================
