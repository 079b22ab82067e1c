-------------------------- MODULE ProcessesProofs --------------------------
(***************************************************************************)
(* What Processes guarantees for tables of every size, proved.             *)
(***************************************************************************)
EXTENDS ProcessSessions, TLAPS

LEMMA InitTypeOK == Init => TypeOK
BY ProcessesAssumption
   DEF Init, TypeOK, Pids, Terminals, NoPid, Contexts, Unsaved, Steps,
       ExceptionResult

\* execute() keeps every variable of the right type, whoever calls it.
LEMMA LoadTypeOK ==
  ASSUME TypeOK, NEW me \in Pids \cup {NoPid}, NEW t \in Terminals,
         NEW tp \in [Terminals -> Pids \cup {NoPid}],
         Load(me, t, tp), current_terminal_id' \in Terminals,
         switched' \subseteq SwitchKinds
  PROVE  TypeOK'
<1>1. ThisContext \in Contexts /\ Unsaved \in Contexts
  BY DEF TypeOK, ThisContext, Unsaved, Contexts, Steps
<1>2. PICK new \in Pids : Load(me, t, tp)!(new)
  BY DEF Load
<1>3. QED
  BY <1>1, <1>2 DEF TypeOK, Steps, ExceptionResult

LEMMA HaltTypeOK ==
  ASSUME TypeOK, Halt
  PROVE  TypeOK'
<1> USE DEF TypeOK, Steps, HaltSteps, At, cpuVars, pcbVars
<1>1. CASE HaltCall
  BY <1>1 DEF HaltCall, ExceptionResult
<1>2. CASE HaltFree
  BY <1>2 DEF HaltFree
<1>3. CASE HaltParent
  BY <1>3 DEF HaltParent
<1>4. CASE HaltTest
  BY <1>4 DEF HaltTest
<1>5. CASE HaltBase
  BY <1>5 DEF HaltBase
<1>6. CASE HaltShell
  BY <1>6, LoadTypeOK DEF HaltShell
<1>7. CASE HaltShellFails
  BY <1>7 DEF HaltShellFails
<1>8. CASE HaltTss
  BY <1>8 DEF HaltTss
<1>9. CASE HaltPaging
  BY <1>9 DEF HaltPaging
<1>10. CASE HaltFdArray
  BY <1>10 DEF HaltFdArray
<1>11. CASE HaltPid
  BY <1>11 DEF HaltPid
<1>12. CASE HaltPtr
  BY <1>12 DEF HaltPtr
<1>13. CASE HaltReturn
  <2>1. HaltResult(status) \in -1..ExceptionResult
    BY ProcessesAssumption DEF HaltResult, ExceptionResult, EXCEPTION_STATUS
  <2>2. Unsaved \in Contexts
    BY DEF Unsaved, Contexts
  <2>3. QED
    BY <1>13, <2>1, <2>2 DEF HaltReturn, Contexts
<1>14. QED
  BY <1>1, <1>2, <1>3, <1>4, <1>5, <1>6, <1>7, <1>8, <1>9, <1>10, <1>11,
     <1>12, <1>13 DEF Halt

LEMMA SwitchTypeOK ==
  ASSUME TypeOK, TerminalSwitch
  PROVE  TypeOK'
<1>1. PICK t \in Terminals :
        SwitchToLive(t) \/ SwitchToFresh(t) \/ SwitchToFreshFails(t)
  BY DEF TerminalSwitch
<1>2. SavedPids \in [Terminals -> Pids \cup {NoPid}]
  BY DEF TypeOK, SavedPids
<1>3. switched' \subseteq SwitchKinds
  BY <1>1 DEF TypeOK, SwitchToLive, SwitchToFresh, SwitchToFreshFails, Switched
<1>4. CASE SwitchToLive(t)
  BY <1>2, <1>3, <1>4 DEF SwitchToLive, TypeOK, cpuVars, pcbVars
<1>5. CASE SwitchToFresh(t)
  BY <1>2, <1>3, <1>5, LoadTypeOK DEF SwitchToFresh
<1>6. CASE SwitchToFreshFails(t)
  BY <1>2, <1>3, <1>6 DEF SwitchToFreshFails, TypeOK, cpuVars, pcbVars
<1>7. QED
  BY <1>1, <1>4, <1>5, <1>6

LEMMA StepTypeOK == TypeOK /\ [Next]_vars => TypeOK'
<1> SUFFICES ASSUME TypeOK, [Next]_vars
             PROVE  TypeOK'
  OBVIOUS
<1>1. CASE Boot
  BY <1>1, LoadTypeOK DEF Boot, TypeOK
<1>2. CASE Execute
  BY <1>2, LoadTypeOK DEF Execute, TypeOK
<1>3. CASE ExecuteFails
  BY <1>3 DEF ExecuteFails, TypeOK, cpuVars, pcbVars, ExceptionResult
<1>4. CASE RaiseException
  BY <1>4 DEF RaiseException, TypeOK, cpuVars, pcbVars, Steps
<1>5. CASE HungLoop \/ UNCHANGED vars
  BY <1>5 DEF HungLoop, TypeOK, vars, cpuVars, pcbVars
<1>6. QED
  BY <1>1, <1>2, <1>3, <1>4, <1>5, HaltTypeOK, SwitchTypeOK DEF Next

\* The tables, pointers and locals of process control keep their types.
THEOREM TypeCorrect == Spec => []TypeOK
BY InitTypeOK, StepTypeOK, PTL DEF Spec

------------------------------------------------------------------------------
(* A program's page, kernel stack and descriptors                          *)

\* From the statement that sets it to the return, each of the three is what
\* halt()'s local names: the only variable an interrupt cannot touch.
CpuInv ==
  /\ pc \in {"user", "halt_pid", "halt_ptr", "halt_return"} =>
       user_page = tss_esp0 /\ tss_esp0 = filed_array
  /\ pc \in {"halt_paging", "halt_fdarray"} => tss_esp0 = parentpid
  /\ pc = "halt_fdarray" => user_page = parentpid

LEMMA StepCpuInv == TypeOK /\ CpuInv /\ [Next]_vars => CpuInv'
<1> SUFFICES ASSUME TypeOK, CpuInv, [Next]_vars
             PROVE  CpuInv'
  OBVIOUS
<1> USE DEF CpuInv, cpuVars, pcbVars
<1>1. ASSUME NEW me, NEW t, NEW tp, Load(me, t, tp)
      PROVE  CpuInv'
  BY <1>1 DEF Load
<1>2. CASE Boot \/ Execute \/ HaltShell
  BY <1>1, <1>2 DEF Boot, Execute, HaltShell
<1>3. CASE ExecuteFails \/ RaiseException \/ HungLoop \/ UNCHANGED vars
  BY <1>3 DEF ExecuteFails, RaiseException, HungLoop, vars
<1>4. CASE Halt /\ ~HaltShell
  <2>1. CASE HaltCall \/ HaltFree \/ HaltParent \/ HaltTest \/ HaltBase
             \/ HaltShellFails
    BY <2>1 DEF HaltCall, HaltFree, HaltParent, HaltTest, HaltBase,
                HaltShellFails, At
  <2>2. CASE HaltTss \/ HaltPaging \/ HaltFdArray
    BY <2>2 DEF HaltTss, HaltPaging, HaltFdArray, At
  <2>3. CASE HaltPid \/ HaltPtr
    BY <2>3 DEF HaltPid, HaltPtr, At
  <2>4. CASE HaltReturn
    <3>1. /\ pc = "halt_return"
          /\ UNCHANGED <<user_page, tss_esp0, filed_array>>
          /\ pc' \in {"user", "halt_tss", "hung"}
      BY <2>4 DEF HaltReturn, TypeOK, Contexts, Unsaved
    <3>2. QED
      BY <3>1
  <2>5. QED
    BY <1>4, <2>1, <2>2, <2>3, <2>4 DEF Halt
<1>5. CASE TerminalSwitch
  <2>1. PICK t \in Terminals :
          SwitchToLive(t) \/ SwitchToFresh(t) \/ SwitchToFreshFails(t)
    BY <1>5 DEF TerminalSwitch
  <2>2. QED
    BY <1>1, <2>1 DEF SwitchToLive, SwitchToFresh, SwitchToFreshFails
<1>6. QED
  BY <1>2, <1>3, <1>4, <1>5 DEF Next

\* A program always runs on the page, the kernel stack and the descriptors of
\* one process, whatever keys are pressed during execute() and halt().
THEOREM CpuIsOneProcess == Spec => []PageStackAndFilesAgree
<1>1. Init => CpuInv
  BY DEF Init, CpuInv
<1>2. CpuInv => PageStackAndFilesAgree
  BY DEF CpuInv, PageStackAndFilesAgree, InUser
<1>3. QED
  BY <1>1, <1>2, StepCpuInv, TypeCorrect, PTL DEF Spec

------------------------------------------------------------------------------
(* The chains of processes                                                 *)

\* A terminal's new top is a free slot whose parent is the old top, if any.
LEMMA NestedGrows ==
  ASSUME NEW held \in SUBSET Pids, NEW par \in [Pids -> Pids \cup {NoPid}],
         NEW top \in [Terminals -> Pids \cup {NoPid}],
         Nested(top, held, par), NEW t \in Terminals, NEW new \in Pids \ held
  PROVE  Nested([top EXCEPT ![t] = new], held \cup {new},
                [par EXCEPT ![new] = top[t]])
<1> DEFINE ntop == [top EXCEPT ![t] = new]
           nheld == held \cup {new}
           npar == [par EXCEPT ![new] = top[t]]
           Kids(p) == {q \in held : par[q] = p}
           NewKids(p) == {q \in nheld : npar[q] = p}
<1> USE DEF Nested, NoPid
<1>1. \A u \in Terminals : ntop[u] \in nheld \cup {NoPid}
  OBVIOUS
<1>2. \A u, v \in Terminals : u # v /\ ntop[u] = ntop[v] => ntop[u] = NoPid
  BY DEF Pids
<1>3. ASSUME NEW p \in nheld
      PROVE  /\ npar[p] \in nheld \cup {NoPid}
             /\ IF \E u \in Terminals : ntop[u] = p
                THEN NewKids(p) = {}
                ELSE \E child \in nheld : NewKids(p) = {child}
  <2>1. npar[p] \in nheld \cup {NoPid}
    OBVIOUS
  <2>2. CASE p = new
    <3>1. \A q \in held : par[q] # new /\ q # new
      BY DEF Pids
    <3>2. top[t] # new
      BY DEF Pids
    <3>3. NewKids(new) = {} /\ ntop[t] = new
      BY <3>1, <3>2
    <3>4. QED
      BY <2>1, <2>2, <3>3
  <2>3. CASE p # new /\ p = top[t]
    <3>1. Kids(p) = {}
      BY <2>3
    <3>2. NewKids(p) = {new}
      BY <2>3, <3>1
    <3>3. \A u \in Terminals : ntop[u] # p
      BY <2>3 DEF Pids
    <3>4. QED
      BY <2>1, <3>2, <3>3
  <2>4. CASE p # new /\ p # top[t]
    <3>1. NewKids(p) = Kids(p)
      BY <2>4
    <3>2. (\E u \in Terminals : ntop[u] = p) <=> (\E u \in Terminals : top[u] = p)
      BY <2>4
    <3>3. p \in held
      BY <2>4
    <3>4. IF \E u \in Terminals : top[u] = p
          THEN Kids(p) = {}
          ELSE \E child \in held : Kids(p) = {child}
      BY <3>3
    <3>5. QED
      BY <2>1, <3>1, <3>2, <3>4
  <2>5. QED
    BY <2>2, <2>3, <2>4
<1>4. QED
  BY <1>1, <1>2, <1>3

\* The top of a terminal gives its place back to its parent.
LEMMA NestedShrinks ==
  ASSUME NEW held \in SUBSET Pids, NEW par \in [Pids -> Pids \cup {NoPid}],
         NEW top \in [Terminals -> Pids \cup {NoPid}],
         Nested(top, held, par), NEW t \in Terminals, top[t] # NoPid
  PROVE  /\ par[top[t]] # top[t]
         /\ Nested([top EXCEPT ![t] = par[top[t]]], held \ {top[t]}, par)
<1> DEFINE old == top[t]
           ntop == [top EXCEPT ![t] = par[old]]
           nheld == held \ {old}
           Kids(p) == {q \in held : par[q] = p}
           NewKids(p) == {q \in nheld : par[q] = p}
<1> USE DEF Nested, NoPid
<1>1. old \in held /\ Kids(old) = {}
  OBVIOUS
<1>2. par[old] # old
  BY <1>1
<1>3. \A u \in Terminals : u # t => top[u] # old
  OBVIOUS
<1>4. \A u \in Terminals : u # t /\ top[u] = par[old] => top[u] = NoPid
  <2>1. ASSUME NEW u \in Terminals, u # t, top[u] = par[old], top[u] # NoPid
        PROVE  FALSE
    <3>1. top[u] \in held /\ Kids(top[u]) = {}
      BY <2>1
    <3>2. old \in Kids(top[u])
      BY <1>1, <2>1
    <3>3. QED
      BY <3>1, <3>2
  <2>2. QED
    BY <2>1
<1>5. \A u \in Terminals : ntop[u] \in nheld \cup {NoPid}
  BY <1>1, <1>2, <1>3
<1>6. \A u, v \in Terminals : u # v /\ ntop[u] = ntop[v] => ntop[u] = NoPid
  BY <1>4
<1>7. ASSUME NEW p \in nheld
      PROVE  /\ par[p] \in nheld \cup {NoPid}
             /\ IF \E u \in Terminals : ntop[u] = p
                THEN NewKids(p) = {}
                ELSE \E child \in nheld : NewKids(p) = {child}
  <2>1. par[p] \in nheld \cup {NoPid}
    BY <1>1
  <2>2. CASE p = par[old]
    <3>1. \A u \in Terminals : top[u] # p
      BY <1>1, <1>2, <1>4, <2>2
    <3>2. PICK child \in held : Kids(p) = {child}
      BY <3>1
    <3>3. NewKids(p) = {} /\ ntop[t] = p
      BY <1>1, <2>2, <3>2
    <3>4. QED
      BY <2>1, <3>3
  <2>3. CASE p # par[old]
    <3>1. NewKids(p) = Kids(p)
      BY <2>3
    <3>2. (\E u \in Terminals : ntop[u] = p) <=> (\E u \in Terminals : top[u] = p)
      BY <2>3
    <3>3. IF \E u \in Terminals : top[u] = p
          THEN Kids(p) = {}
          ELSE \E child \in held : Kids(p) = {child}
      OBVIOUS
    <3>4. \A child \in held : Kids(p) = {child} => child \in nheld
      BY <2>3
    <3>5. QED
      BY <2>1, <3>1, <3>2, <3>3, <3>4
  <2>4. QED
    BY <2>2, <2>3
<1>8. QED
  BY <1>2, <1>5, <1>6, <1>7

Tops == [t \in Terminals |-> Top(t)]

LEMMA TopsType == TypeOK => Tops \in [Terminals -> Pids \cup {NoPid}]
BY DEF TypeOK, Tops, Top

\* A switch moves the running terminal's top into terminal_array and the shown
\* terminal's out of it.
LEMMA SwitchKeepsTops ==
  ASSUME TypeOK, NEW t \in Terminals, t # current_terminal_id,
         terminal_pid' = SavedPids, cur_pid' = terminal_pid[t],
         current_terminal_id' = t
  PROVE  Tops' = Tops
BY DEF TypeOK, Tops, Top, SavedPids

\* execute() puts a free slot on top of the terminal it is called for.
LEMMA LoadGrows ==
  ASSUME TypeOK, NEW t \in Terminals,
         NEW tp \in [Terminals -> Pids \cup {NoPid}],
         NEW me \in Pids \cup {NoPid}, Load(me, t, tp), me = Tops[t],
         me # NoPid => tp[t] # NoPid,
         \A u \in Terminals : u # t => tp[u] = Tops[u],
         current_terminal_id' = t,
         pc \notin HaltSteps \/ cur_pid = NoPid
  PROVE  \E new \in Pids \ Holders :
           /\ Holders' = Holders \cup {new}
           /\ Tops' = [Tops EXCEPT ![t] = new]
           /\ parent_pid' = [parent_pid EXCEPT ![new] = Tops[t]]
<1>1. PICK new \in Pids : Load(me, t, tp)!(new)
  BY DEF Load
<1>2. new \notin Holders
  BY <1>1 DEF LowestFree, Holders, HoldsSlot, NoPid, Pids
<1>3. Holders' = Holders \cup {new}
  <2>1. pc' \notin HaltSteps
    BY <1>1 DEF HaltSteps
  <2>2. \A p \in Pids : HoldsSlot(p) <=> pid_check[p]
    BY DEF HoldsSlot, NoPid, Pids
  <2>3. \A p \in Pids : HoldsSlot(p)' <=> pid_check'[p]
    BY <2>1 DEF HoldsSlot
  <2>4. \A p \in Pids : pid_check'[p] <=> pid_check[p] \/ p = new
    BY <1>1 DEF TypeOK
  <2>5. QED
    BY <2>2, <2>3, <2>4 DEF Holders
<1>4. Tops' = [Tops EXCEPT ![t] = new]
  BY <1>1, TopsType DEF Tops, Top
<1>5. parent_pid' = [parent_pid EXCEPT ![new] = Tops[t]]
  BY <1>1
<1>6. QED
  BY <1>2, <1>3, <1>4, <1>5

LEMMA LoadSlotInv ==
  ASSUME TypeOK, SlotInv, "in_halt" \notin switched,
         NEW t \in Terminals, NEW tp \in [Terminals -> Pids \cup {NoPid}],
         NEW me \in Pids \cup {NoPid}, Load(me, t, tp), me = Tops[t],
         me # NoPid => tp[t] # NoPid,
         \A u \in Terminals : u # t => tp[u] = Tops[u],
         current_terminal_id' = t,
         pc \notin HaltSteps \/ cur_pid = NoPid,
         me # NoPid => pc = "user"
  PROVE  SlotInv'
<1>1. Nested(Tops', Holders', parent_pid')
  <2>1. Nested(Tops, Holders, parent_pid)
    BY DEF SlotInv, NoSlotLostOrShared, Tops
  <2>2. Holders \in SUBSET Pids /\ parent_pid \in [Pids -> Pids \cup {NoPid}]
    BY DEF Holders, TypeOK
  <2>3. QED
    BY <2>1, <2>2, TopsType, NestedGrows, LoadGrows
<1>2. HaltInv'
  <2>1. PICK new \in Pids : Load(me, t, tp)!(new)
    BY DEF Load
  <2>2. \A p \in Pids : scheduled'[p].pc # "halt_tss"
    <3>1. \A p \in Pids : scheduled[p].pc # "halt_tss"
      BY DEF SlotInv, HaltInv
    <3>2. me # NoPid => ThisContext.pc = "user"
      BY DEF ThisContext
    <3>3. me \notin Pids => me = NoPid
      OBVIOUS
    <3>4. Unsaved.pc # "halt_tss" /\ NoPid \notin Pids
      BY DEF Unsaved, NoPid, Pids
    <3>5. QED
      BY <2>1, <3>1, <3>2, <3>3, <3>4
  <2>3. QED
    BY <2>1, <2>2 DEF TypeOK, HaltInv, NoPid, Pids
<1>3. QED
  BY <1>1, <1>2 DEF SlotInv, NoSlotLostOrShared, Tops

\* A step that leaves the table, the parents, the tops and the frames alone
\* and holds on to the halting process keeps the chains as they are.
LEMMA SameSlots ==
  ASSUME TypeOK, SlotInv, "in_halt" \notin switched,
         UNCHANGED <<parent_pid, scheduled>>, Tops' = Tops, Holders' = Holders
  PROVE  /\ NoSlotLostOrShared'
         /\ \A p \in Pids : scheduled'[p].pc # "halt_tss"
BY DEF SlotInv, NoSlotLostOrShared, HaltInv, Tops

\* The current process gives its slot back: cur_pid becomes its parent.
LEMMA ParentTakesOver ==
  ASSUME TypeOK, SlotInv, "in_halt" \notin switched,
         cur_pid # NoPid, ~pid_check[cur_pid], pc \in HaltSteps,
         cur_pid' = parent_pid[cur_pid], pc' \in HaltSteps,
         UNCHANGED <<pid_check, parent_pid, terminal_pid, current_terminal_id,
                     switched>>
  PROVE  /\ Holders' = Holders \ {cur_pid}
         /\ Tops' = [Tops EXCEPT ![current_terminal_id] = parent_pid[cur_pid]]
         /\ NoSlotLostOrShared'
         /\ cur_pid' # NoPid => pid_check[cur_pid']
<1> DEFINE t == current_terminal_id
<1>1. Nested(Tops, Holders, parent_pid)
  BY DEF SlotInv, NoSlotLostOrShared, Tops
<1>2. t \in Terminals /\ Tops[t] = cur_pid
  BY DEF TypeOK, Tops, Top
<1>3. Holders \in SUBSET Pids /\ parent_pid \in [Pids -> Pids \cup {NoPid}]
  BY DEF Holders, TypeOK
<1>4. /\ parent_pid[cur_pid] # cur_pid
      /\ Nested([Tops EXCEPT ![t] = parent_pid[cur_pid]],
                Holders \ {cur_pid}, parent_pid)
  BY <1>1, <1>2, <1>3, TopsType, NestedShrinks
<1>5. Tops' = [Tops EXCEPT ![t] = parent_pid[cur_pid]]
  BY DEF Tops, Top, TypeOK
<1>6. parent_pid[cur_pid] \in Pids => pid_check[parent_pid[cur_pid]]
  <2>1. parent_pid[cur_pid] \in Holders \cup {NoPid}
    BY <1>1, <1>2 DEF Nested
  <2>2. QED
    BY <1>4, <2>1 DEF Holders, HoldsSlot, NoPid, Pids
<1>7. Holders' = Holders \ {cur_pid}
  BY <1>4, <1>6 DEF Holders, HoldsSlot
<1>8. parent_pid[cur_pid] # NoPid => parent_pid[cur_pid] \in Pids
  BY DEF TypeOK
<1>9. QED
  BY <1>4, <1>5, <1>6, <1>7, <1>8 DEF NoSlotLostOrShared, Tops

\* No other statement of halt() moves a slot or a terminal's top.
LEMMA HaltKeeps ==
  ASSUME TypeOK, SlotInv, "in_halt" \notin switched,
         Halt, ~(HaltShell \/ HaltBase \/ HaltPid)
  PROVE  /\ Tops' = Tops /\ Holders' = Holders
         /\ UNCHANGED <<parent_pid, current_terminal_id, switched>>
<1> USE DEF At, cpuVars, pcbVars
<1>1. HaltInv /\ NoSlotLostOrShared
  BY DEF SlotInv
<1>2. cur_pid # NoPid => cur_pid \in Pids
  BY DEF TypeOK
<1>3. UNCHANGED <<cur_pid, terminal_pid, parent_pid, current_terminal_id, switched>>
  BY DEF Halt, HaltCall, HaltFree, HaltParent, HaltTest, HaltShellFails, HaltTss,
         HaltPaging, HaltFdArray, HaltPtr, HaltReturn
<1>4. CASE HaltCall
  <2>1. pc = "user" /\ pc' = "halt_free" /\ pid_check' = pid_check
    BY <1>4 DEF HaltCall
  <2>2. cur_pid # NoPid => pid_check[cur_pid]
    BY <1>1, <1>2, <2>1 DEF NoSlotLostOrShared, Nested, Top, Holders, HoldsSlot,
                            HaltSteps, TypeOK
  <2>3. \A p \in Pids : p = cur_pid => pid_check[p]
    BY <2>2 DEF NoPid, Pids
  <2>4. pc \notin HaltSteps /\ pc' \in HaltSteps
    BY <2>1 DEF HaltSteps
  <2>5. \A p \in Pids : HoldsSlot(p)' <=> HoldsSlot(p)
    BY <1>3, <2>1, <2>3, <2>4 DEF HoldsSlot
  <2>6. QED
    BY <1>3, <2>5 DEF Tops, Top, Holders
<1>5. CASE HaltFree
  <2>1. Holders' = Holders
    BY <1>3, <1>5 DEF HaltFree, Holders, HoldsSlot, HaltSteps, TypeOK
  <2>2. QED
    BY <1>3, <2>1 DEF Tops, Top
<1>6. CASE HaltParent \/ HaltTest \/ HaltTss \/ HaltPaging \/ HaltFdArray
             \/ HaltPtr \/ HaltShellFails
  <2>1. /\ pid_check' = pid_check
        /\ pc \in HaltSteps
        /\ pc' \in HaltSteps \/ cur_pid = NoPid
    BY <1>1, <1>6 DEF HaltParent, HaltTest, HaltTss, HaltPaging, HaltFdArray,
                      HaltPtr, HaltShellFails, HaltInv, HaltSteps
  <2>2. Holders' = Holders
    BY <1>3, <2>1 DEF Holders, HoldsSlot, NoPid, Pids
  <2>3. QED
    BY <1>3, <2>2 DEF Tops, Top
<1>7. CASE HaltReturn
  <2>1. pid_check' = pid_check /\ cur_pid # NoPid /\ pid_check[cur_pid]
    BY <1>1, <1>7 DEF HaltReturn, HaltInv
  <2>2. Holders' = Holders
    BY <1>2, <1>3, <2>1 DEF Holders, HoldsSlot, HaltSteps
  <2>3. QED
    BY <1>3, <2>2 DEF Tops, Top
<1>8. QED
  BY <1>3, <1>4, <1>5, <1>6, <1>7 DEF Halt

LEMMA HaltSlotInv ==
  ASSUME TypeOK, SlotInv, "in_halt" \notin switched, Halt
  PROVE  SlotInv'
<1> USE DEF At, cpuVars, pcbVars
<1>1. HaltInv /\ NoSlotLostOrShared
  BY DEF SlotInv
<1>2. cur_pid # NoPid => cur_pid \in Pids
  BY DEF TypeOK
<1>3. CASE ~(HaltShell \/ HaltBase \/ HaltPid)
  <2>1. NoSlotLostOrShared'
    BY <1>1, <1>3, HaltKeeps DEF NoSlotLostOrShared, Tops
  <2>2. \A p \in Pids : scheduled'[p].pc # "halt_tss"
    BY <1>1, <1>3 DEF Halt, HaltCall, HaltFree, HaltParent, HaltTest,
         HaltShellFails, HaltTss, HaltPaging, HaltFdArray, HaltPtr, HaltReturn,
         HaltInv, TypeOK, Contexts, Unsaved
  <2>3. HaltInv'
    <3>1. CASE HaltCall \/ HaltFree
      BY <1>1, <1>2, <2>2, <3>1 DEF HaltCall, HaltFree, HaltInv
    <3>2. CASE HaltParent \/ HaltTest \/ HaltTss \/ HaltPaging \/ HaltFdArray
               \/ HaltPtr
      BY <1>1, <1>2, <2>2, <3>2
         DEF HaltParent, HaltTest, HaltTss, HaltPaging, HaltFdArray, HaltPtr,
             HaltInv
    <3>3. CASE HaltShellFails
      BY <1>1, <3>3 DEF HaltShellFails, TableFull, HaltInv, TypeOK
    <3>4. CASE HaltReturn
      BY <1>1, <1>2, <2>2, <3>4 DEF HaltReturn, HaltInv, TypeOK, Contexts, Unsaved
    <3>5. QED
      BY <1>3, <3>1, <3>2, <3>3, <3>4 DEF Halt
  <2>4. QED
    BY <2>1, <2>3 DEF SlotInv
<1>4. CASE HaltBase
  <2>1. cur_pid # NoPid /\ ~pid_check[cur_pid] /\ cur_pid' = parent_pid[cur_pid]
    BY <1>1, <1>4 DEF HaltBase, HaltInv
  <2>2. pc \in HaltSteps /\ pc' \in HaltSteps
    BY <1>4 DEF HaltBase, HaltSteps
  <2>3. NoSlotLostOrShared'
    BY <1>4, <2>1, <2>2, ParentTakesOver DEF HaltBase
  <2>4. QED
    BY <1>1, <1>4, <2>1, <2>3 DEF HaltBase, SlotInv, HaltInv
<1>5. CASE HaltShell
  <2>1. cur_pid = NoPid /\ pc = "halt_shell"
    BY <1>1, <1>5 DEF HaltShell, HaltInv
  <2>2. cur_pid = Tops[current_terminal_id]
        /\ current_terminal_id \in Terminals
        /\ \A u \in Terminals : u # current_terminal_id =>
             terminal_pid[u] = Tops[u]
    BY DEF TypeOK, Tops, Top
  <2>3. QED
    BY <1>5, <2>1, <2>2, LoadSlotInv DEF HaltShell, TypeOK
<1>6. CASE HaltPid
  <2>1. cur_pid # NoPid /\ ~pid_check[cur_pid] /\ cur_pid' = parent_pid[cur_pid]
        /\ cur_pid' # NoPid
    BY <1>1, <1>6 DEF HaltPid, HaltInv
  <2>2. pc \in HaltSteps /\ pc' \in HaltSteps
    BY <1>6 DEF HaltPid, HaltSteps
  <2>3. NoSlotLostOrShared' /\ pid_check[cur_pid']
    BY <1>6, <2>1, <2>2, ParentTakesOver DEF HaltPid
  <2>4. QED
    BY <1>1, <1>6, <2>1, <2>3 DEF HaltPid, SlotInv, HaltInv
<1>7. QED
  BY <1>3, <1>4, <1>5, <1>6

LEMMA SwitchSlotInv ==
  ASSUME TypeOK, SlotInv, TerminalSwitch, "in_halt" \notin switched'
  PROVE  SlotInv'
<1>1. PICK t \in Terminals :
        SwitchToLive(t) \/ SwitchToFresh(t) \/ SwitchToFreshFails(t)
  BY DEF TerminalSwitch
<1>2. t # current_terminal_id /\ current_terminal_id' = t
  BY <1>1 DEF SwitchToLive, SwitchToFresh, SwitchToFreshFails
<1>3. "in_halt" \notin switched /\ pc \notin HaltSteps
  BY <1>1 DEF SwitchToLive, SwitchToFresh, SwitchToFreshFails, Switched, InHalt
<1>4. HaltInv /\ NoSlotLostOrShared
  BY <1>3 DEF SlotInv
<1>5. CASE SwitchToLive(t) \/ SwitchToFreshFails(t)
  <2>1. /\ UNCHANGED <<pid_check, parent_pid, scheduled, pc>>
        /\ terminal_pid' = SavedPids
        /\ cur_pid' = terminal_pid[t]
        /\ cur_process_ptr' = cur_pid'
    BY <1>5 DEF SwitchToLive, SwitchToFreshFails, pcbVars
  <2>2. Tops' = Tops
    BY <1>2, <2>1, SwitchKeepsTops
  <2>3. Holders' = Holders
    BY <1>3, <2>1 DEF Holders, HoldsSlot
  <2>4. NoSlotLostOrShared' /\ \A p \in Pids : scheduled'[p].pc # "halt_tss"
    BY <1>3, <2>1, <2>2, <2>3, SameSlots
  <2>5. terminal_pid'[t] = terminal_pid[t]
    BY <1>2, <2>1 DEF SavedPids, TypeOK
  <2>6. pc = "boot" => \A u \in Terminals : terminal_pid'[u] = NoPid
    BY <1>4, <2>1 DEF HaltInv, SavedPids, TypeOK
  <2>7. HaltInv'
    BY <1>2, <1>3, <2>1, <2>4, <2>5, <2>6 DEF HaltInv, HaltSteps
  <2>8. QED
    BY <2>4, <2>7 DEF SlotInv
<1>6. CASE SwitchToFresh(t)
  <2>1. Load(NoPid, t, SavedPids) /\ terminal_pid[t] = NoPid
    BY <1>6 DEF SwitchToFresh
  <2>2. SavedPids \in [Terminals -> Pids \cup {NoPid}]
    BY DEF TypeOK, SavedPids
  <2>3. Tops[t] = NoPid /\ \A u \in Terminals : u # t => SavedPids[u] = Tops[u]
    BY <1>2, <2>1 DEF Tops, Top, SavedPids, TypeOK
  <2>4. QED
    BY <1>2, <1>3, <2>1, <2>2, <2>3, LoadSlotInv
<1>7. QED
  BY <1>1, <1>5, <1>6

LEMMA StepSlotInv == TypeOK /\ SlotInv /\ [Next]_vars => SlotInv'
<1> SUFFICES ASSUME TypeOK, SlotInv, [Next]_vars, "in_halt" \notin switched'
             PROVE  SlotInv'
  BY DEF SlotInv
<1>1. CASE TerminalSwitch
  BY <1>1, SwitchSlotInv
<1>2. CASE Halt
  <2>1. switched' = switched
    BY <1>2 DEF Halt, HaltCall, HaltFree, HaltParent, HaltTest, HaltBase,
                HaltShell, HaltShellFails, HaltTss, HaltPaging, HaltFdArray,
                HaltPid, HaltPtr, HaltReturn
  <2>2. QED
    BY <1>2, <2>1, HaltSlotInv
<1>3. CASE Boot \/ Execute
  <2>1. /\ Load(cur_pid, current_terminal_id, terminal_pid)
        /\ pc \in {"boot", "user"}
        /\ UNCHANGED <<current_terminal_id, switched>>
    BY <1>3 DEF Boot, Execute
  <2>2. cur_pid = Tops[current_terminal_id]
        /\ current_terminal_id \in Terminals
        /\ \A u \in Terminals : u # current_terminal_id =>
             terminal_pid[u] = Tops[u]
    BY DEF TypeOK, Tops, Top
  <2>3. HaltInv
    BY <2>1 DEF SlotInv
  <2>4. pc \notin HaltSteps /\ (cur_pid # NoPid => pc = "user")
    BY <2>1, <2>2, <2>3 DEF HaltSteps, HaltInv
  <2>5. QED
    BY <2>1, <2>2, <2>3, <2>4, LoadSlotInv DEF TypeOK, HaltInv
<1>4. CASE ExecuteFails \/ RaiseException \/ HungLoop \/ UNCHANGED vars
  <2>1. /\ UNCHANGED <<pid_check, cur_pid, cur_process_ptr, parent_pid,
                       scheduled, terminal_pid, current_terminal_id, parentpid,
                       switched>>
        /\ pc' = pc \/ (pc = "user" /\ pc' = "hung")
    BY <1>4 DEF ExecuteFails, RaiseException, HungLoop, vars, pcbVars
  <2>2. Tops' = Tops /\ Holders' = Holders
    BY <2>1 DEF Tops, Top, Holders, HoldsSlot, HaltSteps
  <2>3. NoSlotLostOrShared' /\ \A p \in Pids : scheduled'[p].pc # "halt_tss"
    BY <2>1, <2>2, SameSlots
  <2>4. QED
    BY <2>1, <2>3 DEF SlotInv, HaltInv
<1>5. QED
  BY <1>1, <1>2, <1>3, <1>4 DEF Next

LEMMA InitSlotInv == Init => SlotInv
<1> SUFFICES ASSUME Init
             PROVE  NoSlotLostOrShared /\ HaltInv
  BY DEF SlotInv
<1>1. Holders = {} /\ \A t \in Terminals : Top(t) = NoPid
  BY DEF Init, Holders, HoldsSlot, Top, HaltSteps
<1>2. NoSlotLostOrShared
  BY <1>1 DEF NoSlotLostOrShared, Nested
<1>3. HaltInv
  BY DEF Init, HaltInv, Unsaved
<1>4. QED
  BY <1>2, <1>3

\* No slot of the table is lost or shared by two terminals, for tables and
\* terminals of every number, however the user switches outside halt().
THEOREM SlotsAreNested == Spec => []NoSlotLostOrShared
<1>1. SlotInv => NoSlotLostOrShared
  BY DEF SlotInv, NoSlotLostOrShared
<1>2. QED
  BY <1>1, InitSlotInv, StepSlotInv, TypeCorrect, PTL DEF Spec

\* cur_pid and cur_process_ptr name one process whenever a program runs, unless
\* a switch has interrupted a halt().
THEOREM PidAndPcbAgree == Spec => []PidNamesPcb
<1>1. SlotInv => PidNamesPcb
  BY DEF SlotInv, HaltInv, PidNamesPcb, InUser
<1>2. QED
  BY <1>1, InitSlotInv, StepSlotInv, TypeCorrect, PTL DEF Spec

------------------------------------------------------------------------------
(* The sessions: what every step does to tops, slots and parents           *)

\* Nothing happens to the sessions.
SessionsKept ==
  /\ Tops' = Tops /\ Holders' = Holders
  /\ UNCHANGED <<parent_pid, current_terminal_id>>

\* Another terminal is shown, which has a program or can get none.
OnlyShown ==
  /\ Tops' = Tops /\ Holders' = Holders
  /\ UNCHANGED parent_pid
  /\ current_terminal_id' # current_terminal_id
  /\ Tops[current_terminal_id'] # NoPid \/ Holders = Pids

\* A program starts on the terminal that is shown, on an empty one if it was
\* not shown before.
ProgramStarts ==
  LET t == current_terminal_id' IN
    /\ t = current_terminal_id \/ Tops[t] = NoPid
    /\ \E new \in Pids \ Holders :
         /\ Holders' = Holders \cup {new}
         /\ Tops' = [Tops EXCEPT ![t] = new]
         /\ parent_pid' = [parent_pid EXCEPT ![new] = Tops[t]]

\* The program on top of the terminal that is shown gives way to its parent.
ProgramEnds ==
  LET t == current_terminal_id IN
    /\ Tops[t] # NoPid
    /\ Holders' = Holders \ {Tops[t]}
    /\ Tops' = [Tops EXCEPT ![t] = parent_pid[Tops[t]]]
    /\ UNCHANGED <<parent_pid, current_terminal_id>>

LEMMA TopsAre ==
  ASSUME TypeOK
  PROVE  /\ current_terminal_id \in Terminals
         /\ Tops[current_terminal_id] = cur_pid
         /\ \A t \in Terminals : t # current_terminal_id => terminal_pid[t] = Tops[t]
         /\ Tops[current_terminal_id] = NoPid \/ Tops[current_terminal_id] \in Pids
BY DEF TypeOK, Tops, Top

LEMMA SwitchMovesSessions ==
  ASSUME TypeOK, SlotInv, TerminalSwitch, "in_halt" \notin switched'
  PROVE  OnlyShown \/ ProgramStarts
<1>1. PICK t \in Terminals :
        SwitchToLive(t) \/ SwitchToFresh(t) \/ SwitchToFreshFails(t)
  BY DEF TerminalSwitch
<1>2. /\ t # current_terminal_id /\ current_terminal_id' = t
      /\ pc \notin HaltSteps
      /\ terminal_pid[t] = Tops[t]
  BY <1>1, TopsAre
     DEF SwitchToLive, SwitchToFresh, SwitchToFreshFails, Switched, InHalt
<1>3. CASE SwitchToLive(t) \/ SwitchToFreshFails(t)
  <2>1. /\ UNCHANGED <<pid_check, parent_pid, pc>>
        /\ terminal_pid' = SavedPids
        /\ cur_pid' = terminal_pid[t]
        /\ terminal_pid[t] # NoPid \/ TableFull
    BY <1>3 DEF SwitchToLive, SwitchToFreshFails, pcbVars
  <2>2. Tops' = Tops
    BY <1>2, <2>1, SwitchKeepsTops
  <2>3. Holders' = Holders
    BY <1>2, <2>1 DEF Holders, HoldsSlot
  <2>4. TableFull => Holders = Pids
    BY DEF TableFull, Holders, HoldsSlot
  <2>5. QED
    BY <1>2, <2>1, <2>2, <2>3, <2>4 DEF OnlyShown
<1>4. CASE SwitchToFresh(t)
  <2>1. Load(NoPid, t, SavedPids) /\ terminal_pid[t] = NoPid
    BY <1>4 DEF SwitchToFresh
  <2>2. SavedPids \in [Terminals -> Pids \cup {NoPid}]
    BY DEF TypeOK, SavedPids
  <2>3. \A u \in Terminals : u # t => SavedPids[u] = Tops[u]
    BY DEF Tops, Top, SavedPids, TypeOK
  <2>4. QED
    BY <1>2, <2>1, <2>2, <2>3, LoadGrows DEF ProgramStarts
<1>5. QED
  BY <1>1, <1>3, <1>4

LEMMA HaltMovesSessions ==
  ASSUME TypeOK, SlotInv, Halt, "in_halt" \notin switched
  PROVE  SessionsKept \/ ProgramStarts \/ ProgramEnds
<1>1. HaltInv
  BY DEF SlotInv
<1>2. CASE ~(HaltShell \/ HaltBase \/ HaltPid)
  BY <1>2, HaltKeeps DEF SessionsKept
<1>3. CASE HaltBase \/ HaltPid
  <2>1. /\ cur_pid # NoPid /\ ~pid_check[cur_pid]
        /\ cur_pid' = parent_pid[cur_pid]
        /\ UNCHANGED <<pid_check, parent_pid, terminal_pid,
                       current_terminal_id, switched>>
    BY <1>1, <1>3 DEF HaltBase, HaltPid, HaltInv, At, pcbVars
  <2>2. pc \in HaltSteps /\ pc' \in HaltSteps
    BY <1>3 DEF HaltBase, HaltPid, HaltSteps, At
  <2>3. QED
    BY <1>3, <2>1, <2>2, ParentTakesOver, TopsAre DEF ProgramEnds
<1>4. CASE HaltShell
  <2>1. cur_pid = NoPid /\ Load(cur_pid, current_terminal_id, terminal_pid)
        /\ current_terminal_id' = current_terminal_id
    BY <1>1, <1>4 DEF HaltShell, HaltInv
  <2>2. QED
    BY <2>1, LoadGrows, TopsAre DEF ProgramStarts, TypeOK
<1>5. QED
  BY <1>2, <1>3, <1>4

\* Whatever the kernel does outside an interrupted halt() moves the sessions in
\* one of these ways.
LEMMA StepMovesSessions ==
  ASSUME TypeOK, SlotInv, [Next]_vars, "in_halt" \notin switched'
  PROVE  SessionsKept \/ OnlyShown \/ ProgramStarts \/ ProgramEnds
<1>1. CASE TerminalSwitch
  BY <1>1, SwitchMovesSessions
<1>2. CASE Halt
  <2>1. switched' = switched
    BY <1>2 DEF Halt, HaltCall, HaltFree, HaltParent, HaltTest, HaltBase,
                HaltShell, HaltShellFails, HaltTss, HaltPaging, HaltFdArray,
                HaltPid, HaltPtr, HaltReturn
  <2>2. QED
    BY <1>2, <2>1, HaltMovesSessions
<1>3. CASE Boot \/ Execute
  <2>1. /\ Load(cur_pid, current_terminal_id, terminal_pid)
        /\ pc \notin HaltSteps
        /\ UNCHANGED <<current_terminal_id, switched>>
    BY <1>3 DEF Boot, Execute, HaltSteps
  <2>2. cur_pid # NoPid => terminal_pid[current_terminal_id] # NoPid
    BY <2>1 DEF SlotInv, HaltInv
  <2>3. QED
    BY <2>1, <2>2, LoadGrows, TopsAre DEF ProgramStarts, TypeOK
<1>4. CASE ExecuteFails \/ RaiseException \/ HungLoop \/ UNCHANGED vars
  <2>1. /\ UNCHANGED <<pid_check, cur_pid, parent_pid, terminal_pid,
                       current_terminal_id>>
        /\ pc' = pc \/ (pc = "user" /\ pc' = "hung")
    BY <1>4 DEF ExecuteFails, RaiseException, HungLoop, vars, pcbVars
  <2>2. QED
    BY <2>1 DEF SessionsKept, Tops, Top, Holders, HoldsSlot, HaltSteps
<1>5. QED
  BY <1>1, <1>2, <1>3, <1>4 DEF Next

------------------------------------------------------------------------------
(* Chains of parents.  The recursion of Chain has a solution whatever the  *)
(* parents are; it has only one where no process is among its own          *)
(* ancestors, which is said without recursion: no set of processes has     *)
(* the parents of all its members.                                         *)

Founded(par, held) ==
  \A S \in SUBSET held : (\A p \in S : par[p] \in S) => S = {}

ParentsHeld(par, held) == \A p \in held : par[p] \in held \cup {NoPid}

\* The recursion has a solution, the least sets closed under par.
LEMMA ChainIs ==
  ASSUME NEW par \in [Pids -> Pids \cup {NoPid}]
  PROVE  /\ Chain(par, NoPid) = {}
         /\ \A p \in Pids : Chain(par, p) = {p} \cup Chain(par, par[p])
<1> DEFINE PidsAndNone == Pids \cup {NoPid}
           Closed(S) == \A q \in S : par[q] \in S \cup {NoPid}
           Least(p) == {q \in Pids : \A S \in SUBSET Pids :
                          p \in S \cup {NoPid} /\ Closed(S) => q \in S}
           least == [q \in PidsAndNone |-> Least(q)]
           Solves(f) == f = [q \in PidsAndNone |->
                               IF q = NoPid THEN {} ELSE {q} \cup f[par[q]]]
           chain == CHOOSE f : Solves(f)
<1>1. NoPid \notin Pids
  BY DEF NoPid, Pids
<1>2. Least(NoPid) = {}
  <2>1. {} \in SUBSET Pids /\ Closed({})
    OBVIOUS
  <2>2. QED
    BY <2>1
<1>3. ASSUME NEW p \in Pids
      PROVE  Least(p) = {p} \cup Least(par[p])
  <2>1. ASSUME NEW q \in {p} \cup Least(par[p])
        PROVE  q \in Least(p)
    <3>1. ASSUME NEW S \in SUBSET Pids, p \in S \cup {NoPid}, Closed(S)
          PROVE  q \in S
      <4>1. p \in S /\ par[p] \in S \cup {NoPid}
        BY <1>1, <3>1
      <4>2. QED
        BY <2>1, <3>1, <4>1
    <3>2. QED
      BY <2>1, <3>1
  <2>2. Closed({p} \cup Least(par[p]))
    <3>1. Closed(Least(par[p]))
      <4>1. ASSUME NEW q \in Least(par[p]), par[q] # NoPid
            PROVE  par[q] \in Least(par[p])
        <5>1. ASSUME NEW S \in SUBSET Pids, par[p] \in S \cup {NoPid}, Closed(S)
              PROVE  par[q] \in S
          BY <4>1, <5>1
        <5>2. QED
          BY <4>1, <5>1
      <4>2. QED
        BY <4>1
    <3>2. par[p] \in Least(par[p]) \cup {NoPid}
      OBVIOUS
    <3>3. QED
      BY <3>1, <3>2
  <2>3. {p} \cup Least(par[p]) \in SUBSET Pids
    OBVIOUS
  <2>4. Least(p) \subseteq {p} \cup Least(par[p])
    BY <2>2, <2>3
  <2>5. QED
    BY <2>1, <2>4
<1>4. Solves(least)
  <2>1. ASSUME NEW q \in PidsAndNone
        PROVE  Least(q) = IF q = NoPid THEN {} ELSE {q} \cup least[par[q]]
    BY <1>2, <1>3
  <2> HIDE DEF Least
  <2>2. QED
    BY <2>1
<1>5. Solves(chain)
  <2> HIDE DEF Solves, least
  <2>1. QED
    BY <1>4
<1>6. \A p : Chain(par, p) = chain[p]
  BY DEF Chain
<1> HIDE DEF chain
<1>7. QED
  BY <1>1, <1>5, <1>6

LEMMA ChainIsHeld ==
  ASSUME NEW par \in [Pids -> Pids \cup {NoPid}], NEW held \in SUBSET Pids,
         ParentsHeld(par, held), Founded(par, held)
  PROVE  \A p \in held \cup {NoPid} : Chain(par, p) \subseteq held
<1> DEFINE S == {p \in held : ~(Chain(par, p) \subseteq held)}
<1>1. ASSUME NEW p \in S
      PROVE  par[p] \in S
  <2>1. Chain(par, p) = {p} \cup Chain(par, par[p])
    BY ChainIs
  <2>2. ~(Chain(par, par[p]) \subseteq held)
    BY <2>1
  <2>3. par[p] # NoPid
    BY <2>2, ChainIs
  <2>4. QED
    BY <2>2, <2>3 DEF ParentsHeld
<1>2. S = {}
  <2>1. S \in SUBSET held
    OBVIOUS
  <2> HIDE DEF S
  <2>2. QED
    BY <1>1, <2>1 DEF Founded
<1>3. QED
  BY <1>2, ChainIs

LEMMA ChainsAgree ==
  ASSUME NEW par \in [Pids -> Pids \cup {NoPid}],
         NEW npar \in [Pids -> Pids \cup {NoPid}], NEW held \in SUBSET Pids,
         ParentsHeld(par, held), Founded(par, held),
         \A p \in held : npar[p] = par[p]
  PROVE  \A p \in held \cup {NoPid} : Chain(npar, p) = Chain(par, p)
<1> DEFINE S == {p \in held : Chain(npar, p) # Chain(par, p)}
<1>1. ASSUME NEW p \in S
      PROVE  par[p] \in S
  <2>1. /\ Chain(par, p) = {p} \cup Chain(par, par[p])
        /\ Chain(npar, p) = {p} \cup Chain(npar, par[p])
    BY ChainIs
  <2>2. Chain(npar, par[p]) # Chain(par, par[p])
    BY <2>1
  <2>3. par[p] # NoPid
    BY <2>2, ChainIs
  <2>4. QED
    BY <2>2, <2>3 DEF ParentsHeld
<1>2. S = {}
  <2>1. S \in SUBSET held
    OBVIOUS
  <2> HIDE DEF S
  <2>2. QED
    BY <1>1, <2>1 DEF Founded
<1>3. QED
  BY <1>2, ChainIs

LEMMA FoundedGrows ==
  ASSUME NEW par \in [Pids -> Pids \cup {NoPid}], NEW held \in SUBSET Pids,
         ParentsHeld(par, held), Founded(par, held),
         NEW new \in Pids \ held, NEW top \in held \cup {NoPid}
  PROVE  Founded([par EXCEPT ![new] = top], held \cup {new})
<1> DEFINE npar == [par EXCEPT ![new] = top]
<1> SUFFICES ASSUME NEW S \in SUBSET (held \cup {new}), \A p \in S : npar[p] \in S
             PROVE  S = {}
  BY DEF Founded
<1>1. NoPid \notin Pids
  BY DEF NoPid, Pids
<1>2. S \ {new} \in SUBSET held
  OBVIOUS
<1>3. \A p \in S \ {new} : par[p] \in S \ {new}
  BY <1>1 DEF ParentsHeld
<1>4. S \ {new} = {}
  BY <1>2, <1>3 DEF Founded
<1>5. new \notin S
  BY <1>1, <1>4
<1>6. QED
  BY <1>4, <1>5

------------------------------------------------------------------------------
(* Processes implements Sessions, step by step                             *)

\* The inductive invariant: no process held is its own ancestor, and each
\* belongs to the session of a terminal.
ChainInv ==
  "in_halt" \notin switched =>
    /\ Founded(parent_pid, Holders)
    /\ \A p \in Holders : \E t \in Terminals : p \in Chain(parent_pid, Tops[t])

\* What the steps rely on.
LEMMA ChainsWellFormed ==
  ASSUME TypeOK, SlotInv, ChainInv, "in_halt" \notin switched
  PROVE  /\ parent_pid \in [Pids -> Pids \cup {NoPid}]
         /\ Holders \in SUBSET Pids /\ NoPid \notin Holders
         /\ Founded(parent_pid, Holders) /\ ParentsHeld(parent_pid, Holders)
         /\ \A t \in Terminals : Tops[t] \in Holders \cup {NoPid}
         /\ Tops \in [Terminals -> Pids \cup {NoPid}]
<1>1. Nested(Tops, Holders, parent_pid)
  BY DEF SlotInv, NoSlotLostOrShared, Tops
<1>2. \A p \in Holders : parent_pid[p] \in Holders \cup {NoPid}
  BY <1>1 DEF Nested
<1>3. QED
  BY <1>1, <1>2, TopsType
     DEF TypeOK, ChainInv, Holders, NoPid, Pids, ParentsHeld, Nested

\* The chains of a state after a program has started.
LEMMA ChainsGrow ==
  ASSUME TypeOK, SlotInv, ChainInv, "in_halt" \notin switched,
         NEW t \in Terminals, NEW new \in Pids \ Holders,
         parent_pid' = [parent_pid EXCEPT ![new] = Tops[t]]
  PROVE  /\ \A p \in Holders \cup {NoPid} :
              Chain(parent_pid', p) = Chain(parent_pid, p)
         /\ Chain(parent_pid', new) = {new} \cup Chain(parent_pid, Tops[t])
<1> DEFINE par == parent_pid'
<1>1. par \in [Pids -> Pids \cup {NoPid}]
  BY ChainsWellFormed
<1>2. \A p \in Holders : par[p] = parent_pid[p]
  BY ChainsWellFormed
<1> HIDE DEF par
<1>3. \A p \in Holders \cup {NoPid} : Chain(par, p) = Chain(parent_pid, p)
  BY <1>1, <1>2, ChainsWellFormed, ChainsAgree
<1>4. Chain(par, new) = {new} \cup Chain(par, par[new])
  BY <1>1, ChainIs
<1>5. par[new] = Tops[t]
  BY ChainsWellFormed DEF par
<1>6. QED
  BY <1>3, <1>4, <1>5, ChainsWellFormed DEF par

\* A switch made is not forgotten.
LEMMA SwitchedGrows == [Next]_vars => switched \subseteq switched'
BY DEF Next, Boot, Execute, ExecuteFails, RaiseException, HungLoop, vars, Halt,
       HaltCall, HaltFree, HaltParent, HaltTest, HaltBase, HaltShell,
       HaltShellFails, HaltTss, HaltPaging, HaltFdArray, HaltPid, HaltPtr,
       HaltReturn, TerminalSwitch, SwitchToLive, SwitchToFresh,
       SwitchToFreshFails, Switched

LEMMA StepChainInv ==
  ASSUME TypeOK, SlotInv, ChainInv, [Next]_vars
  PROVE  ChainInv'
<1> SUFFICES ASSUME "in_halt" \notin switched'
             PROVE  /\ Founded(parent_pid', Holders')
                    /\ \A p \in Holders' : \E t \in Terminals :
                         p \in Chain(parent_pid', Tops'[t])
  BY DEF ChainInv
<1>1. "in_halt" \notin switched
  BY SwitchedGrows
<1>2. current_terminal_id \in Terminals /\ current_terminal_id' \in Terminals
  BY StepTypeOK DEF TypeOK
<1>3. CASE SessionsKept \/ OnlyShown
  BY <1>1, <1>3 DEF SessionsKept, OnlyShown, ChainInv
<1>4. CASE ProgramStarts
  <2> DEFINE t == current_terminal_id'
  <2>1. PICK new \in Pids \ Holders :
          /\ Holders' = Holders \cup {new}
          /\ Tops' = [Tops EXCEPT ![t] = new]
          /\ parent_pid' = [parent_pid EXCEPT ![new] = Tops[t]]
    BY <1>4 DEF ProgramStarts
  <2>2. Founded(parent_pid', Holders')
    BY <1>1, <1>2, <2>1, ChainsWellFormed, FoundedGrows
  <2>3. /\ \A p \in Holders \cup {NoPid} :
             Chain(parent_pid', p) = Chain(parent_pid, p)
        /\ Chain(parent_pid', new) = {new} \cup Chain(parent_pid, Tops[t])
    BY <1>1, <1>2, <2>1, ChainsGrow
  <2>4. ASSUME NEW p \in Holders'
        PROVE  \E u \in Terminals : p \in Chain(parent_pid', Tops'[u])
    <3>1. CASE p = new
      BY <1>1, <1>2, <2>1, <2>3, <3>1, ChainsWellFormed
    <3>2. CASE p # new
      <4>1. PICK u \in Terminals : p \in Chain(parent_pid, Tops[u])
        BY <1>1, <2>1, <3>2 DEF ChainInv
      <4>2. CASE u = t
        BY <1>1, <2>1, <2>3, <4>1, <4>2, ChainsWellFormed
      <4>3. CASE u # t
        BY <1>1, <2>1, <2>3, <4>1, <4>3, ChainsWellFormed
      <4>4. QED
        BY <4>2, <4>3
    <3>3. QED
      BY <3>1, <3>2
  <2>5. QED
    BY <2>2, <2>4
<1>5. CASE ProgramEnds
  <2> DEFINE t == current_terminal_id
  <2>1. /\ Tops[t] # NoPid
        /\ Holders' = Holders \ {Tops[t]}
        /\ Tops' = [Tops EXCEPT ![t] = parent_pid[Tops[t]]]
        /\ parent_pid' = parent_pid
    BY <1>5 DEF ProgramEnds
  <2>2. Founded(parent_pid', Holders')
    BY <1>1, <2>1, ChainsWellFormed DEF Founded
  <2>3. Chain(parent_pid, Tops[t]) = {Tops[t]} \cup Chain(parent_pid, Tops'[t])
    BY <1>1, <1>2, <2>1, ChainsWellFormed, ChainIs
  <2>4. ASSUME NEW p \in Holders'
        PROVE  \E u \in Terminals : p \in Chain(parent_pid, Tops'[u])
    <3>1. PICK u \in Terminals : p \in Chain(parent_pid, Tops[u])
      BY <1>1, <2>1 DEF ChainInv
    <3>2. CASE u = t
      BY <1>2, <2>1, <2>3, <3>1, <3>2
    <3>3. CASE u # t
      BY <1>1, <2>1, <3>1, <3>3, ChainsWellFormed
    <3>4. QED
      BY <3>2, <3>3
  <2>5. QED
    BY <2>1, <2>2, <2>4
<1>6. QED
  BY <1>1, <1>3, <1>4, <1>5, StepMovesSessions

\* The stacks, in this state and in the next.
LEMMA StackIs ==
  /\ Stack = [t \in Terminals |-> Chain(parent_pid, Tops[t])]
  /\ Stack' = [t \in Terminals |-> Chain(parent_pid', Tops'[t])]
BY DEF Stack, Tops

\* The programs started are those that hold a slot.
LEMMA StartedAreHeld ==
  ASSUME TypeOK, SlotInv, ChainInv, "in_halt" \notin switched
  PROVE  Session!Started = Holders
<1>1. \A t \in Terminals : Stack[t] \subseteq Holders
  BY StackIs, ChainsWellFormed, ChainIsHeld
<1>2. \A p \in Holders : \E t \in Terminals : p \in Stack[t]
  BY StackIs DEF ChainInv
<1>3. QED
  BY <1>1, <1>2 DEF Session!Started

LEMMA StartsRefine ==
  ASSUME TypeOK, SlotInv, ChainInv, "in_halt" \notin switched,
         NEW t \in Terminals, current_terminal_id' = t, ProgramStarts
  PROVE  Session!Start(t)
<1>1. PICK new \in Pids \ Holders :
        /\ Holders' = Holders \cup {new}
        /\ Tops' = [Tops EXCEPT ![t] = new]
        /\ parent_pid' = [parent_pid EXCEPT ![new] = Tops[t]]
  BY DEF ProgramStarts
<1>2. /\ \A p \in Holders \cup {NoPid} :
           Chain(parent_pid', p) = Chain(parent_pid, p)
      /\ Chain(parent_pid', new) = {new} \cup Chain(parent_pid, Tops[t])
  BY <1>1, ChainsGrow
<1>3. Stack' = [Stack EXCEPT ![t] = @ \cup {new}]
  <2>1. ASSUME NEW u \in Terminals
        PROVE  Chain(parent_pid', Tops'[u]) =
                 IF u = t THEN Chain(parent_pid, Tops[t]) \cup {new}
                          ELSE Chain(parent_pid, Tops[u])
    BY <1>1, <1>2, ChainsWellFormed
  <2>2. QED
    BY <2>1, StackIs
<1>4. Below' = [Below EXCEPT ![new] = Stack[t]]
  <2>1. Chain(parent_pid', parent_pid'[new]) = Stack[t]
    BY <1>1, <1>2, StackIs, ChainsWellFormed
  <2>2. \A p \in Holders : Chain(parent_pid', parent_pid'[p]) =
                             Chain(parent_pid, parent_pid[p])
    BY <1>1, <1>2, ChainsWellFormed DEF ParentsHeld
  <2>3. QED
    BY <1>1, <2>1, <2>2 DEF Below
<1>5. QED
  BY <1>1, <1>3, <1>4, StartedAreHeld DEF Session!Start

LEMMA EndsRefine ==
  ASSUME TypeOK, SlotInv, ChainInv, "in_halt" \notin switched, ProgramEnds
  PROVE  Session!Exit
<1> DEFINE t == current_terminal_id
           old == Tops[t]
<1>1. /\ old # NoPid
      /\ Holders' = Holders \ {old}
      /\ Tops' = [Tops EXCEPT ![t] = parent_pid[old]]
      /\ UNCHANGED <<parent_pid, current_terminal_id>>
  BY DEF ProgramEnds
<1>2. t \in Terminals /\ old \in Holders /\ old \in Pids
  BY <1>1, ChainsWellFormed, TopsAre
<1> HIDE DEF old
<1>3. Chain(parent_pid, old) = {old} \cup Chain(parent_pid, parent_pid[old])
  BY <1>2, ChainsWellFormed, ChainIs
<1>4. Stack[t] = Below[old] \cup {old}
  BY <1>2, <1>3, StackIs DEF Below, old
<1>5. Stack' = [Stack EXCEPT ![t] = Below[old]]
  <2>1. \A u \in Terminals :
          Tops'[u] = IF u = t THEN parent_pid[old] ELSE Tops[u]
    BY <1>1, <1>2, ChainsWellFormed
  <2>2. QED
    BY <1>1, <1>2, <2>1, StackIs DEF Below
<1>6. Below' = [Below EXCEPT ![old] = {}]
  BY <1>1, <1>2 DEF Below
<1>7. \E p \in Stack[t] : /\ Stack[t] = Below[p] \cup {p}
                         /\ Stack' = [Stack EXCEPT ![t] = Below[p]]
                         /\ Below' = [Below EXCEPT ![p] = {}]
  BY <1>4, <1>5, <1>6
<1>8. QED
  BY <1>1, <1>7 DEF Session!Exit

LEMMA StepRefines ==
  ASSUME TypeOK, SlotInv, ChainInv, [Next]_vars, "in_halt" \notin switched'
  PROVE  [Session!Next]_(Session!vars)
<1>1. "in_halt" \notin switched
  BY SwitchedGrows
<1>2. PICK t \in Terminals : current_terminal_id' = t
  BY StepTypeOK DEF TypeOK
<1>3. CASE SessionsKept
  <2>1. UNCHANGED <<Stack, Below, current_terminal_id>>
    BY <1>3, StackIs DEF SessionsKept, Below
  <2>2. QED
    BY <2>1 DEF Session!vars
<1>4. CASE OnlyShown
  <2>1. UNCHANGED <<Stack, Below>> /\ t # current_terminal_id
    BY <1>2, <1>4, StackIs DEF OnlyShown, Below
  <2>2. CASE Holders = Pids
    <3>1. Session!Started = Pids
      BY <1>1, <2>2, StartedAreHeld
    <3>2. Session!Show(t)
      BY <1>2, <2>1, <3>1 DEF Session!Show
    <3>3. QED
      BY <1>2, <3>2 DEF Session!Next
  <2>3. CASE Tops[t] # NoPid
    <3>1. Tops[t] \in Stack[t]
      BY <1>1, <1>2, <2>3, StackIs, ChainsWellFormed, ChainIs
    <3>2. Session!Show(t)
      BY <1>2, <2>1, <3>1 DEF Session!Show
    <3>3. QED
      BY <1>2, <3>2 DEF Session!Next
  <2>4. QED
    BY <1>2, <1>4, <2>2, <2>3 DEF OnlyShown
<1>5. CASE ProgramStarts
  <2>1. Session!Start(t)
    BY <1>1, <1>2, <1>5, StartsRefine
  <2>2. CASE t = current_terminal_id
    BY <1>2, <2>1, <2>2 DEF Session!Next, Session!Run
  <2>3. CASE t # current_terminal_id
    <3>1. Tops[t] = NoPid
      BY <1>2, <1>5, <2>3 DEF ProgramStarts
    <3>2. Stack[t] = {}
      BY <1>1, <1>2, <3>1, StackIs, ChainsWellFormed, ChainIs
    <3>3. Session!Started # Pids
      BY <1>1, <1>5, StartedAreHeld DEF ProgramStarts
    <3>4. Session!Show(t)
      BY <1>2, <2>1, <2>3, <3>2, <3>3 DEF Session!Show
    <3>5. QED
      BY <1>2, <3>4 DEF Session!Next
  <2>4. QED
    BY <2>2, <2>3
<1>6. CASE ProgramEnds
  BY <1>1, <1>6, EndsRefine DEF Session!Next
<1>7. QED
  BY <1>3, <1>4, <1>5, <1>6, StepMovesSessions

\* The bookkeeping of pids, parents and terminals is a set of nested sessions,
\* for any number of slots and terminals: execute() starts a program on top of
\* the terminal that is shown, halt() leaves that terminal with the programs
\* it had before, and a switch touches no other session.  So it goes on until a
\* switch interrupts a halt(), and for ever if none does.
THEOREM SessionsStepwise ==
  Spec => /\ Session!Init
          /\ [][Session!Next \/ "in_halt" \in switched']_(Session!vars)
<1>1. Init => ChainInv /\ Session!Init
  <2> SUFFICES ASSUME Init
               PROVE  ChainInv /\ Session!Init
    OBVIOUS
  <2>1. Holders = {} /\ (\A t \in Terminals : Top(t) = NoPid)
        /\ current_terminal_id \in Terminals
    BY InitTypeOK DEF Init, Holders, HoldsSlot, Top, HaltSteps, TypeOK
  <2>2. Chain(parent_pid, NoPid) = {}
    BY InitTypeOK, ChainIs DEF TypeOK
  <2>3. QED
    BY <2>1, <2>2 DEF ChainInv, Founded, Session!Init, Stack, Below
<1>2. TypeOK /\ SlotInv /\ ChainInv /\ [Next]_vars => ChainInv'
  BY StepChainInv
<1>3. TypeOK /\ SlotInv /\ ChainInv /\ [Next]_vars
        => [Session!Next \/ "in_halt" \in switched']_(Session!vars)
  <2> SUFFICES ASSUME TypeOK, SlotInv, ChainInv, [Next]_vars,
                      "in_halt" \notin switched'
               PROVE  [Session!Next]_(Session!vars)
    OBVIOUS
  <2>1. QED
    BY StepRefines
<1>4. QED
  BY <1>1, <1>2, <1>3, InitSlotInv, StepSlotInv, TypeCorrect, PTL DEF Spec

------------------------------------------------------------------------------
(* Programs nest like procedure calls                                      *)

\* The frame of an execute() that a program has called.
Called(p) == [proc |-> p, pc |-> "user", parentpid |-> NoPid]

\* As long as the user has only opened new terminals: each parent's frame is
\* the one its child will return through, and each statement of halt() finds
\* the variables the ones before it have not yet changed at the halting
\* process, and the others at its parent.
StackInv ==
  switched = {} =>
    /\ \A p \in Holders : parent_pid[p] # NoPid =>
         scheduled[parent_pid[p]] = Called(parent_pid[p])
    /\ pc \in {"user"} \cup HaltSteps => running # NoPid
    /\ pc \in {"user", "halt_free", "halt_parent", "halt_test", "halt_base",
               "halt_tss", "halt_paging", "halt_fdarray", "halt_pid"} =>
         cur_pid = running
    /\ pc = "user" => parentpid = NoPid
    /\ pc = "user" => {filed_array, user_page, tss_esp0} = {running}
    /\ pc \in {"halt_pid", "halt_ptr", "halt_return"} => filed_array = parentpid
    /\ pc \in {"halt_ptr", "halt_return"} =>
         /\ cur_pid = parentpid
         /\ parent_pid[running] = cur_pid
         /\ scheduled[cur_pid] = Called(cur_pid)

LEMMA InitStackInv == Init => StackInv
BY DEF Init, StackInv, Holders, HoldsSlot, HaltSteps

\* execute() saves the frame its program will return through, and leaves all
\* others.
LEMMA LoadStackInv ==
  ASSUME TypeOK, SlotInv, StackInv, switched' = {}, switched = {},
         NEW t \in Terminals, NEW tp \in [Terminals -> Pids \cup {NoPid}],
         NEW me \in Pids \cup {NoPid}, Load(me, t, tp),
         tp[t] = NoPid => me = NoPid,
         pc \notin HaltSteps \/ cur_pid = NoPid,
         me # NoPid => pc = "user" /\ me = cur_pid
  PROVE  StackInv'
<1>1. PICK new \in Pids : Load(me, t, tp)!(new)
  BY DEF Load
<1>2. pc' = "user" /\ pc' \notin HaltSteps /\ new # NoPid /\ NoPid \notin Pids
  BY <1>1 DEF HaltSteps, NoPid, Pids
<1>3. /\ parent_pid' = [parent_pid EXCEPT ![new] = me]
      /\ pid_check' = [pid_check EXCEPT ![new] = TRUE]
  BY <1>1, <1>2
<1>4. new \notin Holders /\ me # new
  <2>1. ~pid_check[new]
    BY <1>1 DEF LowestFree
  <2>2. me # NoPid => me \in Holders /\ pid_check[me]
    <3>1. me # NoPid => cur_pid \in Holders /\ pc \notin HaltSteps
      BY DEF SlotInv, NoSlotLostOrShared, Nested, Top, TypeOK, HaltSteps
    <3>2. QED
      BY <3>1 DEF Holders, HoldsSlot
  <2>3. QED
    BY <1>2, <2>1, <2>2 DEF Holders, HoldsSlot
<1>5. \A p \in Pids : p \in Holders' => p = new \/ p \in Holders
  BY <1>2, <1>3 DEF Holders, HoldsSlot, TypeOK
<1>6. ASSUME NEW p \in Holders', parent_pid'[p] # NoPid
      PROVE  scheduled'[parent_pid'[p]] = Called(parent_pid'[p])
  <2>0. p \in Pids /\ parent_pid \in [Pids -> Pids \cup {NoPid}]
    BY DEF Holders, TypeOK
  <2>1. CASE p = new
    <3>1. parent_pid'[p] = me /\ me # NoPid /\ me \in Pids
      BY <1>3, <1>6, <2>0, <2>1
    <3>2. scheduled'[me] = ThisContext
      BY <1>1, <3>1
    <3>3. ThisContext = Called(me)
      BY <3>1 DEF ThisContext, Called, StackInv
    <3>4. QED
      BY <3>1, <3>2, <3>3
  <2>2. CASE p # new
    <3>1. p \in Holders /\ parent_pid'[p] = parent_pid[p]
      BY <1>3, <1>5, <2>0, <2>2
    <3>2. parent_pid[p] \in Holders
      BY <1>6, <3>1 DEF SlotInv, NoSlotLostOrShared, Nested
    <3>3. parent_pid[p] \in Pids /\ parent_pid[p] # new
      BY <1>4, <3>2 DEF Holders
    <3>4. scheduled[parent_pid[p]] = Called(parent_pid[p])
      BY <1>6, <3>1 DEF StackInv
    <3>5. scheduled[parent_pid[p]].proc # new
      BY <3>3, <3>4 DEF Called
    <3>6. CASE parent_pid[p] = me
      <4>1. scheduled'[me] = ThisContext /\ me # NoPid
        BY <1>1, <1>2, <3>3, <3>6
      <4>2. ThisContext = Called(me)
        BY <4>1 DEF ThisContext, Called, StackInv
      <4>3. QED
        BY <3>1, <3>6, <4>1, <4>2
    <3>7. CASE parent_pid[p] # me
      <4>1. scheduled'[parent_pid[p]] = scheduled[parent_pid[p]]
        BY <1>1, <3>3, <3>5, <3>7
      <4>2. QED
        BY <3>1, <3>4, <4>1
    <3>8. QED
      BY <3>6, <3>7
  <2>3. QED
    BY <2>1, <2>2
<1>7. QED
  BY <1>1, <1>2, <1>6 DEF StackInv

\* The return takes the frame of the parent, whose child it was.
LEMMA HaltStackInv ==
  ASSUME TypeOK, SlotInv, CpuInv, StackInv, switched' = {}, switched = {}, Halt
  PROVE  StackInv'
<1> USE DEF At, cpuVars, pcbVars
<1>1. HaltInv /\ Nested(Tops, Holders, parent_pid)
  BY DEF SlotInv, NoSlotLostOrShared, Tops
<1>2. cur_pid # NoPid => cur_pid \in Pids
  BY DEF TypeOK
<1>3. CASE HaltCall \/ HaltFree \/ HaltParent \/ HaltTest \/ HaltBase
             \/ HaltTss \/ HaltPaging \/ HaltFdArray \/ HaltPtr
  <2>1. Holders' \subseteq Holders
    <3>1. CASE HaltCall
      <4>1. pc = "user" /\ cur_pid # NoPid => pid_check[cur_pid]
        BY <1>1, <1>2 DEF Nested, Tops, Top, Holders, HoldsSlot, HaltSteps, TypeOK
      <4>2. QED
        BY <1>2, <3>1, <4>1 DEF HaltCall, Holders, HoldsSlot, NoPid, Pids
    <3>2. CASE HaltFree
      BY <3>2 DEF HaltFree, Holders, HoldsSlot, HaltSteps
    <3>3. CASE HaltBase
      BY <3>3 DEF HaltBase, Holders, HoldsSlot, NoPid, Pids
    <3>4. CASE HaltParent \/ HaltTest \/ HaltTss \/ HaltPaging \/ HaltFdArray
                 \/ HaltPtr
      BY <3>4 DEF HaltParent, HaltTest, HaltTss, HaltPaging, HaltFdArray, HaltPtr,
                  Holders, HoldsSlot, HaltSteps
    <3>5. QED
      BY <1>3, <3>1, <3>2, <3>3, <3>4
  <2>2. UNCHANGED <<parent_pid, scheduled, running>>
    BY <1>3 DEF HaltCall, HaltFree, HaltParent, HaltTest, HaltBase, HaltTss,
                HaltPaging, HaltFdArray, HaltPtr
  <2>3. \A p \in Holders' : parent_pid'[p] # NoPid =>
          scheduled'[parent_pid'[p]] = Called(parent_pid'[p])
    BY <2>1, <2>2 DEF StackInv
  <2>4. CASE HaltCall \/ HaltFree \/ HaltParent \/ HaltTest \/ HaltBase
    BY <2>2, <2>3, <2>4 DEF HaltCall, HaltFree, HaltParent, HaltTest, HaltBase,
                            StackInv, HaltSteps
  <2>5. CASE HaltTss \/ HaltPaging \/ HaltFdArray
    BY <2>2, <2>3, <2>5 DEF HaltTss, HaltPaging, HaltFdArray, StackInv, HaltSteps
  <2>6. CASE HaltPtr
    BY <2>2, <2>3, <2>6 DEF HaltPtr, StackInv, HaltSteps
  <2>7. QED
    BY <1>3, <2>4, <2>5, <2>6
<1>4. CASE HaltShell
  <2>1. cur_pid = NoPid /\ pc = "halt_shell"
    BY <1>1, <1>4 DEF HaltShell, HaltInv
  <2>2. QED
    BY <1>4, <2>1, LoadStackInv DEF HaltShell, TypeOK
<1>5. CASE HaltShellFails
  BY <1>1, <1>5 DEF HaltShellFails, TableFull, HaltInv, TypeOK
<1>6. CASE HaltPid
  <2>1. /\ pc = "halt_pid" /\ pc' = "halt_ptr"
        /\ cur_pid = running /\ cur_pid # NoPid /\ cur_pid \in Pids
        /\ parentpid = parent_pid[cur_pid] /\ parentpid # NoPid
        /\ filed_array = parentpid
    BY <1>1, <1>2, <1>6 DEF HaltPid, HaltInv, StackInv
  <2>2. cur_pid \in Holders
    BY <2>1 DEF Holders, HoldsSlot, HaltSteps
  <2>3. scheduled[parentpid] = Called(parentpid)
    BY <2>1, <2>2 DEF StackInv
  <2>4. parentpid \in Holders /\ parentpid # cur_pid
    <3>1. current_terminal_id \in Terminals /\ Tops[current_terminal_id] = cur_pid
      BY DEF TypeOK, Tops, Top
    <3>2. {q \in Holders : parent_pid[q] = cur_pid} = {}
      BY <1>1, <2>2, <3>1 DEF Nested
    <3>3. QED
      BY <1>1, <2>1, <2>2, <3>2 DEF Nested
  <2>5. Holders' \subseteq Holders
    BY <1>6, <2>1, <2>4 DEF HaltPid, Holders, HoldsSlot, HaltSteps
  <2>6. QED
    BY <1>6, <2>1, <2>3, <2>5 DEF HaltPid, StackInv, HaltSteps
<1>7. CASE HaltReturn
  <2>1. /\ pc = "halt_return" /\ cur_pid # NoPid /\ cur_process_ptr = cur_pid
        /\ scheduled[cur_pid] = Called(cur_pid) /\ pid_check[cur_pid]
        /\ cur_pid = parentpid /\ filed_array = parentpid
    BY <1>1, <1>7 DEF HaltReturn, HaltInv, StackInv
  <2>2. /\ pc' = "user" /\ running' = cur_pid /\ parentpid' = NoPid
        /\ scheduled' = [scheduled EXCEPT ![cur_pid] = Unsaved]
        /\ UNCHANGED <<pid_check, cur_pid, filed_array, parent_pid, user_page,
                       tss_esp0>>
    BY <1>7, <2>1 DEF HaltReturn, Called, Unsaved
  <2>3. Holders' = Holders /\ cur_pid \in Holders
    BY <1>2, <2>1, <2>2 DEF Holders, HoldsSlot, HaltSteps
  <2>4. \A q \in Holders : parent_pid[q] # cur_pid
    <3>1. current_terminal_id \in Terminals /\ Tops[current_terminal_id] = cur_pid
      BY DEF TypeOK, Tops, Top
    <3>2. {q \in Holders : parent_pid[q] = cur_pid} = {}
      BY <1>1, <2>3, <3>1 DEF Nested
    <3>3. QED
      BY <3>2
  <2>5. \A q \in Holders : scheduled'[parent_pid[q]] = scheduled[parent_pid[q]]
    BY <2>2, <2>4 DEF TypeOK
  <2>6. QED
    BY <2>1, <2>2, <2>3, <2>5 DEF CpuInv, StackInv, HaltSteps
<1>8. QED
  BY <1>3, <1>4, <1>5, <1>6, <1>7 DEF Halt

LEMMA StepStackInv ==
  TypeOK /\ SlotInv /\ CpuInv /\ StackInv /\ [Next]_vars => StackInv'
<1> SUFFICES ASSUME TypeOK, SlotInv, CpuInv, StackInv, [Next]_vars, switched' = {}
             PROVE  StackInv'
  BY DEF StackInv
<1>1. switched = {}
  BY DEF Next, vars, Boot, Execute, ExecuteFails, RaiseException, HungLoop, Halt,
         HaltCall, HaltFree, HaltParent, HaltTest, HaltBase, HaltShell,
         HaltShellFails, HaltTss, HaltPaging, HaltFdArray, HaltPid, HaltPtr,
         HaltReturn, TerminalSwitch, SwitchToLive, SwitchToFresh,
         SwitchToFreshFails, Switched
<1>2. CASE Halt
  BY <1>1, <1>2, HaltStackInv
<1>3. CASE Boot \/ Execute
  <2>1. /\ Load(cur_pid, current_terminal_id, terminal_pid)
        /\ pc \in {"boot", "user"}
    BY <1>3 DEF Boot, Execute
  <2>2. HaltInv
    BY <1>1 DEF SlotInv
  <2>3. pc \notin HaltSteps /\ (cur_pid # NoPid => pc = "user")
    BY <2>1, <2>2 DEF HaltSteps, HaltInv, TypeOK
  <2>4. QED
    BY <1>1, <2>1, <2>2, <2>3, LoadStackInv DEF TypeOK, HaltInv
<1>4. CASE TerminalSwitch
  <2>1. PICK t \in Terminals : SwitchToFresh(t)
    BY <1>4 DEF TerminalSwitch, SwitchToLive, SwitchToFreshFails, Switched
  <2>2. pc \notin HaltSteps /\ Load(NoPid, t, SavedPids)
    BY <2>1 DEF SwitchToFresh, Switched, InHalt
  <2>3. SavedPids \in [Terminals -> Pids \cup {NoPid}]
    BY DEF TypeOK, SavedPids
  <2>4. QED
    BY <1>1, <2>2, <2>3, LoadStackInv
<1>5. CASE ExecuteFails \/ RaiseException \/ HungLoop \/ UNCHANGED vars
  <2>1. /\ UNCHANGED <<pid_check, cur_pid, filed_array, parent_pid, scheduled,
                       user_page, tss_esp0, running, parentpid, switched>>
        /\ pc' = pc \/ (pc = "user" /\ pc' = "hung")
    BY <1>5 DEF ExecuteFails, RaiseException, HungLoop, vars, pcbVars, cpuVars
  <2>2. Holders' = Holders
    BY <2>1 DEF Holders, HoldsSlot, HaltSteps
  <2>3. QED
    BY <2>1, <2>2 DEF StackInv, HaltSteps
<1>6. QED
  BY <1>2, <1>3, <1>4, <1>5 DEF Next

\* Everything the invariants of this module say.
ProcessInv == TypeOK /\ SlotInv /\ CpuInv /\ StackInv

LEMMA ProcessInvHolds == Spec => []ProcessInv
<1>1. Init => ProcessInv
  BY InitTypeOK, InitSlotInv, InitStackInv DEF Init, CpuInv, ProcessInv
<1>2. ProcessInv /\ [Next]_vars => ProcessInv'
  BY StepTypeOK, StepSlotInv, StepCpuInv, StepStackInv DEF ProcessInv
<1>3. QED
  BY <1>1, <1>2, PTL DEF Spec

\* While the user does no more than open terminals with a slot to spare, cur_pid,
\* cur_process_ptr, the descriptors, the page and the kernel stack are those of
\* the process whose registers the CPU holds, and its slot is taken.
THEOREM OneProcessIsCurrent == Spec => []OneCurrentProcess
<1>1. ProcessInv => OneCurrentProcess
  <2> SUFFICES ASSUME ProcessInv, InUser, switched = {}
               PROVE  /\ {cur_pid, cur_process_ptr, filed_array, user_page, tss_esp0}
                           = {running}
                      /\ running \in Occupied
    BY DEF OneCurrentProcess
  <2>1. /\ pc = "user" /\ running # NoPid /\ cur_pid = running
        /\ {filed_array, user_page, tss_esp0} = {running}
    BY DEF ProcessInv, StackInv, InUser
  <2>2. cur_process_ptr = running
    BY <2>1 DEF ProcessInv, SlotInv, HaltInv
  <2>3. running \in Holders
    BY <2>1 DEF ProcessInv, SlotInv, NoSlotLostOrShared, Nested, Top, TypeOK
  <2>4. running \in Occupied
    BY <2>1, <2>3 DEF Holders, HoldsSlot, HaltSteps, Occupied
  <2>5. QED
    BY <2>1, <2>2, <2>4
<1>2. QED
  BY <1>1, ProcessInvHolds, PTL

\* Under the same switches halt() returns to the execute() that started the
\* program, on the caller's page: programs nest like procedure calls.
THEOREM HaltReturnsToCaller == Spec => ReturnsToCaller
<1>1. ProcessInv /\ [Next]_vars =>
        [pc = "halt_return" /\ switched' = {} =>
           /\ pc' = "user"
           /\ running' = parent_pid[running]
           /\ {cur_pid', cur_process_ptr', user_page'} = {running'}]_vars
  <2> SUFFICES ASSUME ProcessInv, Next, pc = "halt_return", switched' = {}
               PROVE  /\ pc' = "user"
                      /\ running' = parent_pid[running]
                      /\ {cur_pid', cur_process_ptr', user_page'} = {running'}
    OBVIOUS
  <2>1. ~TerminalSwitch
    BY DEF TerminalSwitch, SwitchToLive, SwitchToFresh, SwitchToFreshFails,
           Switched, InHalt, HaltSteps
  <2>2. HaltReturn
    BY <2>1 DEF Next, Boot, Execute, ExecuteFails, RaiseException, HungLoop, Halt,
                HaltCall, HaltFree, HaltParent, HaltTest, HaltBase, HaltShell,
                HaltShellFails, HaltTss, HaltPaging, HaltFdArray, HaltPid, HaltPtr,
                At
  <2>3. /\ switched = {} /\ cur_pid # NoPid /\ cur_process_ptr = cur_pid
        /\ scheduled[cur_pid] = Called(cur_pid) /\ parent_pid[running] = cur_pid
        /\ user_page = cur_pid
    BY <2>2 DEF HaltReturn, ProcessInv, SlotInv, HaltInv, StackInv, CpuInv
  <2>4. QED
    BY <2>2, <2>3 DEF HaltReturn, Called, Unsaved
<1>2. QED
  BY <1>1, ProcessInvHolds, PTL DEF Spec, ReturnsToCaller
=============================================================================
