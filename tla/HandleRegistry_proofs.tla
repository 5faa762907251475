------------------------ MODULE HandleRegistry_proofs ------------------------
(***************************************************************************)
(* Proofs about HandleRegistry, for any number of threads, entries and     *)
(* handles and any depth of nesting.                                       *)
(*                                                                         *)
(* The inductive invariant IInv ties the three kinds of owner of an entry  *)
(* together: a call that is opening or releasing an entry is alone with it *)
(* (IAlone), every other call got it from a handle that was issued for it  *)
(* (IHandle), and an entry in the registry is retained and not closed      *)
(* (IRegistry).  Mutual exclusion needs IActive: a call below the top of a *)
(* thread's stack is inside a callback (IStack), so a lock that its own    *)
(* thread holds belongs to a running operation, which `active' shows.      *)
(***************************************************************************)
EXTENDS HandleRegistry, TLAPS

IStack ==
    \A t \in Threads, d \in Slots :
        /\ frame[t][d].pc = "idle" <=> d > depth[t]
        /\ frame[t][d].pc = "idle" => frame[t][d].entry = NoEntry
        /\ frame[t][d].pc # "idle" => frame[t][d].entry \in Entries
        /\ d < depth[t] => frame[t][d].pc \in Callbacks

ILease ==
    \A t \in Threads, d \in Slots :
        /\ frame[t][d].pc \notin {"idle", "release"} => lease[frame[t][d].entry] = "retained"
        /\ frame[t][d].pc = "release" => lease[frame[t][d].entry] = "releasing"

IAlone ==
    \A t, u \in Threads, c, d \in Slots :
        ( /\ frame[t][c].pc \in {"retain", "connect", "release"}
          /\ frame[u][d].entry = frame[t][c].entry )
        => t = u /\ c = d

IHandle ==
    \A t \in Threads, d \in Slots :
        /\ frame[t][d].pc \in {"retain", "connect"} =>
              \A h \in Handles : <<h, frame[t][d].entry>> \notin issued
        /\ frame[t][d].pc \notin {"idle", "retain", "connect", "release", "drop"} =>
              /\ frame[t][d].handle \in Handles
              /\ <<frame[t][d].handle, frame[t][d].entry>> \in issued

IRegistry ==
    \A h \in Handles, e \in Entries : <<h, e>> \in registry =>
        /\ <<h, e>> \in issued
        /\ lease[e] = "retained"
        /\ e \notin closed
        /\ closes[e] = 0

IIssued ==
    /\ \A h \in Handles, e \in Entries :
          <<h, e>> \in issued =>
              h < next_handle /\ lease[e] # "none" /\ (e \notin closed => <<h, e>> \in registry)
    /\ \A g, h \in Handles, e, f \in Entries :
          <<g, e>> \in issued /\ <<h, f>> \in issued => (g = h <=> e = f)

IClosed ==
    \A e \in Entries :
        /\ e \in closed \/ closes[e] # 0 => \E h \in Handles : <<h, e>> \in issued
        /\ closes[e] <= 1
        /\ releases[e] <= 1
        /\ lease[e] \in {"none", "retained"} => releases[e] = 0

IActive ==
    /\ \A t \in Threads, d \in Slots : frame[t][d].pc = "run" => frame[t][d].entry \in active
    /\ \A e \in active : \E t \in Threads, d \in Slots :
          frame[t][d].pc = "run" /\ frame[t][d].entry = e

IParts ==
    /\ IStack
    /\ ILease
    /\ IAlone
    /\ IHandle
    /\ IRegistry
    /\ IIssued
    /\ IClosed
    /\ IActive
    /\ OneOperationAtATime
    /\ OperationsOnOpenCards
    /\ NoLeakedContext

IInv == TypeOK /\ IParts

-----------------------------------------------------------------------------
(* What the stack operators change.                                        *)

Moved(t, p) ==
    /\ frame' \in [Threads -> [Slots -> Frame]]
    /\ depth' = depth
    /\ depth[t] \in Slots
    /\ frame'[t][depth[t]].pc = p
    /\ \A u \in Threads, d \in Slots :
          /\ frame'[u][d].entry = frame[u][d].entry
          /\ frame'[u][d].handle = frame[u][d].handle
          /\ u # t \/ d # depth[t] => frame'[u][d].pc = frame[u][d].pc

LEMMA GotoFacts ==
    ASSUME TypeOK, NEW t \in Threads, NEW p \in PCs, depth[t] > 0, Goto(t, p)
    PROVE  Moved(t, p)
<1> USE DEF Moved
<1> DEFINE f == [Top(t) EXCEPT !.pc = p]
<1>1. depth[t] \in Slots
  BY ConstantsAssumption DEF TypeOK, Slots
<1>2. Top(t) \in Frame /\ Top(t) = frame[t][depth[t]]
  BY <1>1 DEF TypeOK, Top
<1>3. f \in Frame /\ f.pc = p /\ f.entry = Top(t).entry /\ f.handle = Top(t).handle
  BY <1>2 DEF Frame
<1>4. frame' = [frame EXCEPT ![t][depth[t]] = f]
  BY <1>1, <1>2 DEF Goto, TypeOK
<1> HIDE DEF f
<1>5. /\ frame' \in [Threads -> [Slots -> Frame]]
      /\ frame'[t][depth[t]] = f
      /\ \A u \in Threads, d \in Slots :
            u # t \/ d # depth[t] => frame'[u][d] = frame[u][d]
  BY <1>1, <1>3, <1>4 DEF TypeOK
<1> QED
  BY <1>1, <1>2, <1>3, <1>5 DEF Goto

Popped(t) ==
    /\ frame' \in [Threads -> [Slots -> Frame]]
    /\ depth' \in [Threads -> 0..MaxDepth]
    /\ depth'[t] = depth[t] - 1
    /\ \A u \in Threads : u # t => depth'[u] = depth[u]
    /\ depth[t] \in Slots
    /\ frame'[t][depth[t]].pc = "idle"
    /\ frame'[t][depth[t]].entry = NoEntry
    /\ \A u \in Threads, d \in Slots :
          u # t \/ d # depth[t] => frame'[u][d] = frame[u][d]

LEMMA ReturnFacts ==
    ASSUME TypeOK, NEW t \in Threads, depth[t] > 0, Return(t)
    PROVE  Popped(t)
<1> USE DEF Popped
<1>1. depth[t] \in Slots /\ depth[t] \in 1..MaxDepth
  BY ConstantsAssumption DEF TypeOK, Slots
<1>2. NoCall \in Frame
  BY ConstantsAssumption DEF NoCall, Frame, PCs
<1>3. /\ depth' \in [Threads -> 0..MaxDepth]
      /\ depth'[t] = depth[t] - 1
      /\ \A u \in Threads : u # t => depth'[u] = depth[u]
  BY <1>1, ConstantsAssumption DEF TypeOK, Return
<1>4. /\ frame' \in [Threads -> [Slots -> Frame]]
      /\ frame'[t][depth[t]] = NoCall
      /\ \A u \in Threads, d \in Slots :
            u # t \/ d # depth[t] => frame'[u][d] = frame[u][d]
  BY <1>1, <1>2 DEF TypeOK, Return
<1> QED
  BY <1>1, <1>3, <1>4 DEF NoCall

Pushed(t, p, h, e) ==
    /\ frame' \in [Threads -> [Slots -> Frame]]
    /\ depth' \in [Threads -> 0..MaxDepth]
    /\ depth'[t] = depth[t] + 1
    /\ \A u \in Threads : u # t => depth'[u] = depth[u]
    /\ depth[t] + 1 \in Slots
    /\ frame'[t][depth[t] + 1].pc = p
    /\ frame'[t][depth[t] + 1].handle = h
    /\ frame'[t][depth[t] + 1].entry = e
    /\ \A u \in Threads, d \in Slots :
          u # t \/ d # depth[t] + 1 => frame'[u][d] = frame[u][d]

LEMMA EnterFacts ==
    ASSUME TypeOK, NEW t \in Threads, MayCall(t),
           NEW p \in PCs, NEW h \in 0..MaxHandle, NEW e \in Entries, Enter(t, p, h, e)
    PROVE  Pushed(t, p, h, e)
<1> USE DEF Pushed
<1> DEFINE f == [pc |-> p, handle |-> h, entry |-> e]
<1>1. depth[t] + 1 \in Slots /\ depth[t] + 1 \in 0..MaxDepth
  BY ConstantsAssumption DEF TypeOK, Slots, MayCall
<1>2. f \in Frame /\ f.pc = p /\ f.handle = h /\ f.entry = e
  BY DEF Frame
<1>3. /\ depth' \in [Threads -> 0..MaxDepth]
      /\ depth'[t] = depth[t] + 1
      /\ \A u \in Threads : u # t => depth'[u] = depth[u]
  BY <1>1 DEF TypeOK, Enter
<1> HIDE DEF f
<1>4. frame' = [frame EXCEPT ![t][depth[t] + 1] = f]
  BY DEF Enter, f
<1>5. /\ frame' \in [Threads -> [Slots -> Frame]]
      /\ frame'[t][depth[t] + 1] = f
      /\ \A u \in Threads, d \in Slots :
            u # t \/ d # depth[t] + 1 => frame'[u][d] = frame[u][d]
  BY <1>1, <1>2, <1>4 DEF TypeOK
<1> QED
  BY <1>1, <1>2, <1>3, <1>5

\* A call whose try_lock succeeds and finds the entry inactive is alone in it:
\* a lock that its own thread held would belong to a running operation.
LEMMA NotBusyFacts ==
    ASSUME TypeOK, IStack, IActive, NEW t \in Threads, depth[t] > 0,
           Top(t).pc \in {"lock_invoke", "lock_close"}, ~ Busy(t, Entry(t))
    PROVE  \A u \in Threads, d \in Slots :
              frame[u][d].entry = Entry(t) => frame[u][d].pc \notin Locked
<1> SUFFICES ASSUME NEW u \in Threads, NEW d \in Slots,
                    frame[u][d].entry = Entry(t), frame[u][d].pc \in Locked
             PROVE  FALSE
  OBVIOUS
<1>1. u = t
  BY DEF Busy
<1>2. frame[t][d].pc # "idle" /\ d <= depth[t]
  BY <1>1 DEF IStack, Locked, Slots, TypeOK
<1>3. d < depth[t]
  <2>1. d # depth[t]
    BY <1>1 DEF Top, Locked
  <2> QED
    BY <1>2, <2>1 DEF Slots, TypeOK
<1>4. frame[t][d].pc = "run"
  <2>1. frame[t][d].pc \in Callbacks
    BY <1>3 DEF IStack
  <2> QED
    BY <1>1, <2>1 DEF Callbacks, Locked
<1>5. Entry(t) \in active
  BY <1>1, <1>4 DEF IActive
<1> QED
  BY <1>5 DEF Busy

LEMMA ReturnStack ==
    ASSUME TypeOK, IStack, NEW t \in Threads, depth[t] > 0, Return(t)
    PROVE  IStack'
<1> SUFFICES ASSUME NEW u \in Threads, NEW d \in Slots
             PROVE  /\ frame'[u][d].pc = "idle" <=> d > depth'[u]
                    /\ frame'[u][d].pc = "idle" => frame'[u][d].entry = NoEntry
                    /\ frame'[u][d].pc # "idle" => frame'[u][d].entry \in Entries
                    /\ d < depth'[u] => frame'[u][d].pc \in Callbacks
  BY DEF IStack
<1> USE DEF Popped
<1>1. d \in Nat /\ depth[u] \in Nat /\ depth[t] \in Nat
  BY ConstantsAssumption DEF Slots, TypeOK
<1>2. CASE u = t /\ d = depth[t]
  BY ReturnFacts, <1>1, <1>2
<1>3. CASE u = t /\ d # depth[t]
  <2>1. frame'[u][d] = frame[u][d] /\ depth'[u] = depth[u] - 1
    BY ReturnFacts, <1>3
  <2>2. (d > depth'[u] <=> d > depth[u]) /\ (d < depth'[u] => d < depth[u])
    BY <1>1, <1>3, <2>1
  <2> QED
    BY <2>1, <2>2 DEF IStack
<1>4. CASE u # t
  BY ReturnFacts, <1>4 DEF IStack
<1> QED
  BY <1>2, <1>3, <1>4

LEMMA EnterStack ==
    ASSUME TypeOK, IStack, NEW t \in Threads, MayCall(t), NEW p \in PCs \ {"idle"},
           NEW h \in 0..MaxHandle, NEW e \in Entries, Enter(t, p, h, e)
    PROVE  IStack'
<1> SUFFICES ASSUME NEW u \in Threads, NEW d \in Slots
             PROVE  /\ frame'[u][d].pc = "idle" <=> d > depth'[u]
                    /\ frame'[u][d].pc = "idle" => frame'[u][d].entry = NoEntry
                    /\ frame'[u][d].pc # "idle" => frame'[u][d].entry \in Entries
                    /\ d < depth'[u] => frame'[u][d].pc \in Callbacks
  BY DEF IStack
<1> USE DEF Pushed
<1>1. d \in Nat \ {0} /\ depth[u] \in Nat /\ depth[t] \in Nat
  BY ConstantsAssumption DEF Slots, TypeOK
<1>2. CASE u = t /\ d = depth[t] + 1
  BY EnterFacts, <1>1, <1>2
<1>3. CASE u = t /\ d # depth[t] + 1
  <2>1. frame'[u][d] = frame[u][d] /\ depth'[u] = depth[u] + 1
    BY EnterFacts, <1>3
  <2>2. d > depth'[u] <=> d > depth[u]
    BY <1>1, <1>3, <2>1
  <2>3. d < depth'[u] => frame[u][d].pc \in Callbacks
    <3>1. CASE d = depth[t]
      BY <1>1, <1>3, <3>1 DEF MayCall, Top
    <3>2. CASE d # depth[t]
      <4>1. d < depth'[u] => d < depth[u]
        BY <1>1, <1>3, <2>1, <3>2
      <4> QED
        BY <4>1 DEF IStack
    <3> QED
      BY <3>1, <3>2
  <2> QED
    BY <2>1, <2>2, <2>3 DEF IStack
<1>4. CASE u # t
  BY EnterFacts, <1>4 DEF IStack
<1> QED
  BY <1>2, <1>3, <1>4

-----------------------------------------------------------------------------
(* One lemma per kind of step.                                             *)

\* A call moves on and holds no lock afterwards; nothing else changes.
LEMMA QuietStep ==
    ASSUME IInv, NEW t \in Threads, NEW p \in {"connect", "drop"}, depth[t] > 0,
           Top(t).pc \notin {"idle", "run", "release", "erase"},
           p = "connect" => Top(t).pc = "retain",
           Goto(t, p), UNCHANGED <<registry, next_handle, active, closed, lease, issued, closes, releases>>
    PROVE  IInv'
<1> USE DEF IInv, IParts
<1>a. p \in PCs
  BY DEF PCs
<1>b. Moved(t, p)
  BY <1>a, GotoFacts
<1> USE DEF Moved
<1>c. frame[t][depth[t]].pc \notin {"idle", "run", "release", "erase"}
      /\ (p = "connect" => frame[t][depth[t]].pc = "retain")
  BY DEF Top
<1>d. depth \in [Threads -> 0..MaxDepth]
  BY DEF TypeOK
<1>e. \A u \in Threads, d \in Slots : frame'[u][d].pc = "run" <=> frame[u][d].pc = "run"
  BY <1>b, <1>c
<1>f. \A u \in Threads, d \in Slots : frame'[u][d].pc \in Locked => frame[u][d].pc \in Locked
  BY <1>b, <1>c DEF Locked
<1>g. \A u \in Threads, d \in Slots :
        /\ frame'[u][d].pc \in {"retain", "connect", "release"} =>
              frame[u][d].pc \in {"retain", "connect", "release"}
        /\ frame'[u][d].pc \in {"retain", "connect"} => frame[u][d].pc \in {"retain", "connect"}
  BY <1>b, <1>c
<1>h. \A u \in Threads, d \in Slots :
        frame'[u][d].pc \notin {"idle", "retain", "connect", "release", "drop"} =>
            frame[u][d].pc = frame'[u][d].pc
  BY <1>b, <1>c
<1>t. TypeOK'
  BY <1>b, <1>c, <1>d DEF TypeOK
<1>1. IStack'
  BY <1>b, <1>c, <1>d DEF IStack, Callbacks
<1>2. ILease'
  BY <1>b, <1>c, <1>d DEF ILease, IStack
<1>3. IAlone'
  BY <1>b, <1>g DEF IAlone, IStack
<1>4. IHandle'
  <2> SUFFICES ASSUME NEW u \in Threads, NEW d \in Slots
               PROVE  /\ frame'[u][d].pc \in {"retain", "connect"} =>
                            \A g \in Handles : <<g, frame'[u][d].entry>> \notin issued'
                      /\ frame'[u][d].pc \notin {"idle", "retain", "connect", "release", "drop"} =>
                            /\ frame'[u][d].handle \in Handles
                            /\ <<frame'[u][d].handle, frame'[u][d].entry>> \in issued'
    BY DEF IHandle
  <2>1. frame'[u][d].entry = frame[u][d].entry /\ frame'[u][d].handle = frame[u][d].handle
    BY <1>b
  <2>2. /\ frame'[u][d].pc \in {"retain", "connect"} => frame[u][d].pc \in {"retain", "connect"}
        /\ frame'[u][d].pc \notin {"idle", "retain", "connect", "release", "drop"} =>
              frame[u][d].pc \notin {"idle", "retain", "connect", "release", "drop"}
    BY <1>g, <1>h
  <2> QED
    BY <2>1, <2>2 DEF IHandle
<1>5. IRegistry'
  BY <1>b, <1>c, <1>d DEF IRegistry
<1>6. IIssued'
  BY <1>b, <1>c, <1>d DEF IIssued
<1>7. IClosed'
  BY <1>b, <1>c, <1>d DEF IClosed
<1>8. IActive'
  <2>1. \A u \in Threads, d \in Slots : frame'[u][d].pc = "run" => frame'[u][d].entry \in active'
    BY <1>b, <1>e DEF IActive
  <2>2. ASSUME NEW g \in active'
        PROVE  \E u \in Threads, d \in Slots : frame'[u][d].pc = "run" /\ frame'[u][d].entry = g
    <3>1. PICK u \in Threads, d \in Slots : frame[u][d].pc = "run" /\ frame[u][d].entry = g
      BY DEF IActive
    <3>2. frame'[u][d].pc = "run" /\ frame'[u][d].entry = g
      BY <1>b, <1>e, <3>1
    <3> QED
      BY <3>2
  <2> QED
    BY <2>1, <2>2 DEF IActive
<1>9. OneOperationAtATime'
  BY <1>b, <1>f DEF OneOperationAtATime
<1>10. OperationsOnOpenCards'
  <2> SUFFICES ASSUME NEW u \in Threads, NEW d \in Slots, frame'[u][d].pc = "run"
               PROVE  <<frame'[u][d].handle, frame'[u][d].entry>> \in registry'
    BY DEF OperationsOnOpenCards
  <2>1. frame[u][d].pc = "run"
    BY <1>e
  <2> QED
    BY <1>b, <2>1 DEF OperationsOnOpenCards
<1>11. NoLeakedContext'
  <2> SUFFICES ASSUME NEW e \in Entries, lease'[e] = "retained",
                      ~ \E h \in Handles : <<h, e>> \in registry'
               PROVE  \E u \in Threads, d \in Slots : frame'[u][d].entry = e
    BY DEF NoLeakedContext
  <2>1. PICK u \in Threads, d \in Slots : frame[u][d].entry = e
    BY DEF NoLeakedContext
  <2>2. frame'[u][d].entry = e
    BY <1>b, <2>1
  <2> QED
    BY <2>2
<1> QED
  BY <1>t, <1>1, <1>2, <1>3, <1>4, <1>5, <1>6, <1>7, <1>8, <1>9, <1>10, <1>11

LEMMA CloseLocksStep ==
    ASSUME IInv, NEW t \in Threads, CloseLocks(t)
    PROVE  IInv'
<1> USE DEF IInv, IParts
<1>b. Moved(t, "erase")
  BY GotoFacts DEF PCs, Callbacks, At, CloseLocks
<1> USE DEF Moved
<1>c. frame[t][depth[t]].pc = "lock_close"
  BY DEF CloseLocks, At, Top
<1>d. depth \in [Threads -> 0..MaxDepth]
  BY DEF TypeOK
<1>e. \A u \in Threads, d \in Slots : frame'[u][d].pc = "run" <=> frame[u][d].pc = "run"
  BY <1>b, <1>c
<1>g. \A u \in Threads, d \in Slots :
        /\ frame'[u][d].pc \in {"retain", "connect", "release"} =>
              frame[u][d].pc \in {"retain", "connect", "release"}
        /\ frame'[u][d].pc \in {"retain", "connect"} => frame[u][d].pc \in {"retain", "connect"}
  BY <1>b, <1>c
<1>h. \A u \in Threads, d \in Slots :
        frame'[u][d].pc \notin {"idle", "retain", "connect", "release", "drop"} =>
            frame[u][d].pc \notin {"idle", "retain", "connect", "release", "drop"}
  BY <1>b, <1>c
<1>k. \A u \in Threads, d \in Slots :
        frame[u][d].entry = frame[t][depth[t]].entry => frame[u][d].pc \notin Locked
  BY NotBusyFacts DEF CloseLocks, At, MayClose, Entry, Top
<1>u. UNCHANGED <<registry, next_handle, active, closed, lease, issued, closes, releases>>
  BY DEF CloseLocks
<1>t. TypeOK'
  BY <1>b, <1>c, <1>d, <1>u DEF TypeOK
<1>1. IStack'
  BY <1>b, <1>c, <1>d, <1>u DEF IStack, Callbacks
<1>2. ILease'
  BY <1>b, <1>c, <1>d, <1>u DEF ILease, IStack
<1>3. IAlone'
  BY <1>b, <1>g DEF IAlone, IStack
<1>4. IHandle'
  BY <1>b, <1>g, <1>h, <1>u DEF IHandle, IStack
<1>5. IRegistry'
  BY <1>b, <1>c, <1>d, <1>u DEF IRegistry
<1>6. IIssued'
  BY <1>b, <1>c, <1>d, <1>u DEF IIssued
<1>7. IClosed'
  BY <1>b, <1>c, <1>d, <1>u DEF IClosed
<1>8. IActive'
  BY <1>b, <1>e, <1>u DEF IActive
<1>9. OneOperationAtATime'
  <2> SUFFICES ASSUME NEW u \in Threads, NEW v \in Threads, NEW c \in Slots, NEW d \in Slots,
                      frame'[u][c].pc \in Locked, frame'[v][d].pc \in Locked,
                      frame'[u][c].entry = frame'[v][d].entry, ~ (u = v /\ c = d)
               PROVE  FALSE
    BY DEF OneOperationAtATime
  <2>1. frame[u][c].entry = frame[v][d].entry
    BY <1>b
  <2>2. CASE u = t /\ c = depth[t]
    BY <1>b, <1>k, <2>1, <2>2
  <2>3. CASE v = t /\ d = depth[t]
    BY <1>b, <1>k, <2>1, <2>3
  <2>4. CASE ~ (u = t /\ c = depth[t]) /\ ~ (v = t /\ d = depth[t])
    <3>1. frame[u][c].pc \in Locked /\ frame[v][d].pc \in Locked
      BY <1>b, <2>4
    <3> QED
      BY <2>1, <3>1 DEF OneOperationAtATime
  <2> QED
    BY <2>2, <2>3, <2>4
<1>10. OperationsOnOpenCards'
  BY <1>b, <1>e, <1>u DEF OperationsOnOpenCards
<1>11. NoLeakedContext'
  <2> SUFFICES ASSUME NEW e \in Entries, lease'[e] = "retained",
                      ~ \E h \in Handles : <<h, e>> \in registry'
               PROVE  \E u \in Threads, d \in Slots : frame'[u][d].entry = e
    BY DEF NoLeakedContext
  <2>1. PICK u \in Threads, d \in Slots : frame[u][d].entry = e
    BY <1>u DEF NoLeakedContext
  <2>2. frame'[u][d].entry = e
    BY <1>b, <2>1
  <2> QED
    BY <2>2
<1> QED
  BY <1>t, <1>1, <1>2, <1>3, <1>4, <1>5, <1>6, <1>7, <1>8, <1>9, <1>10, <1>11

LEMMA InvokeRunsStep ==
    ASSUME IInv, NEW t \in Threads, InvokeRuns(t)
    PROVE  IInv'
<1> USE DEF IInv, IParts
<1>b. Moved(t, "run")
  BY GotoFacts DEF PCs, Callbacks, At, InvokeRuns
<1> USE DEF Moved
<1>c. frame[t][depth[t]].pc = "lock_invoke"
  BY DEF InvokeRuns, At, Top
<1>d. depth \in [Threads -> 0..MaxDepth]
  BY DEF TypeOK
<1>e. frame[t][depth[t]].entry \in Entries \ closed
  BY <1>b, <1>c DEF InvokeRuns, MayRun, Entry, Top, IStack
<1>g. \A u \in Threads, d \in Slots :
        /\ frame'[u][d].pc \in {"retain", "connect", "release"} =>
              frame[u][d].pc \in {"retain", "connect", "release"}
        /\ frame'[u][d].pc \in {"retain", "connect"} => frame[u][d].pc \in {"retain", "connect"}
  BY <1>b, <1>c
<1>h. \A u \in Threads, d \in Slots :
        frame'[u][d].pc \notin {"idle", "retain", "connect", "release", "drop"} =>
            frame[u][d].pc \notin {"idle", "retain", "connect", "release", "drop"}
  BY <1>b, <1>c
<1>k. \A u \in Threads, d \in Slots :
        frame[u][d].entry = frame[t][depth[t]].entry => frame[u][d].pc \notin Locked
  BY NotBusyFacts DEF InvokeRuns, At, MayRun, Entry, Top
<1>m. /\ frame[t][depth[t]].handle \in Handles
      /\ <<frame[t][depth[t]].handle, frame[t][depth[t]].entry>> \in registry
  BY <1>b, <1>c, <1>e DEF IHandle, IIssued
<1>u. /\ active' = active \union {frame[t][depth[t]].entry}
      /\ UNCHANGED <<registry, next_handle, closed, lease, issued, closes, releases>>
  BY DEF InvokeRuns, Entry, Top
<1>t. TypeOK'
  BY <1>b, <1>c, <1>d, <1>e, <1>u DEF TypeOK
<1>1. IStack'
  BY <1>b, <1>c, <1>d, <1>e, <1>u DEF IStack, Callbacks
<1>2. ILease'
  BY <1>b, <1>c, <1>d, <1>e, <1>u DEF ILease, IStack
<1>3. IAlone'
  BY <1>b, <1>g DEF IAlone, IStack
<1>4. IHandle'
  BY <1>b, <1>g, <1>h, <1>u DEF IHandle, IStack
<1>5. IRegistry'
  BY <1>b, <1>c, <1>d, <1>e, <1>u DEF IRegistry
<1>6. IIssued'
  BY <1>b, <1>c, <1>d, <1>e, <1>u DEF IIssued
<1>7. IClosed'
  BY <1>b, <1>c, <1>d, <1>e, <1>u DEF IClosed
<1>8. IActive'
  BY <1>b, <1>c, <1>u DEF IActive
<1>9. OneOperationAtATime'
  <2> SUFFICES ASSUME NEW u \in Threads, NEW v \in Threads, NEW c \in Slots, NEW d \in Slots,
                      frame'[u][c].pc \in Locked, frame'[v][d].pc \in Locked,
                      frame'[u][c].entry = frame'[v][d].entry, ~ (u = v /\ c = d)
               PROVE  FALSE
    BY DEF OneOperationAtATime
  <2>1. frame[u][c].entry = frame[v][d].entry
    BY <1>b
  <2>2. CASE u = t /\ c = depth[t]
    BY <1>b, <1>k, <2>1, <2>2
  <2>3. CASE v = t /\ d = depth[t]
    BY <1>b, <1>k, <2>1, <2>3
  <2>4. CASE ~ (u = t /\ c = depth[t]) /\ ~ (v = t /\ d = depth[t])
    <3>1. frame[u][c].pc \in Locked /\ frame[v][d].pc \in Locked
      BY <1>b, <2>4
    <3> QED
      BY <2>1, <3>1 DEF OneOperationAtATime
  <2> QED
    BY <2>2, <2>3, <2>4
<1>10. OperationsOnOpenCards'
  <2> SUFFICES ASSUME NEW u \in Threads, NEW d \in Slots, frame'[u][d].pc = "run"
               PROVE  <<frame'[u][d].handle, frame'[u][d].entry>> \in registry'
    BY DEF OperationsOnOpenCards
  <2>1. CASE u = t /\ d = depth[t]
    BY <1>b, <1>m, <1>u, <2>1
  <2>2. CASE ~ (u = t /\ d = depth[t])
    BY <1>b, <1>u, <2>2 DEF OperationsOnOpenCards
  <2> QED
    BY <2>1, <2>2
<1>11. NoLeakedContext'
  <2> SUFFICES ASSUME NEW e \in Entries, lease'[e] = "retained",
                      ~ \E h \in Handles : <<h, e>> \in registry'
               PROVE  \E u \in Threads, d \in Slots : frame'[u][d].entry = e
    BY DEF NoLeakedContext
  <2>1. PICK u \in Threads, d \in Slots : frame[u][d].entry = e
    BY <1>u DEF NoLeakedContext
  <2>2. frame'[u][d].entry = e
    BY <1>b, <2>1
  <2> QED
    BY <2>2
<1> QED
  BY <1>t, <1>1, <1>2, <1>3, <1>4, <1>5, <1>6, <1>7, <1>8, <1>9, <1>10, <1>11

LEMMA OperationReturnsStep ==
    ASSUME IInv, NEW t \in Threads, OperationReturns(t)
    PROVE  IInv'
<1> USE DEF IInv, IParts
<1>b. Moved(t, "drop")
  BY GotoFacts DEF PCs, Callbacks, At, OperationReturns
<1> USE DEF Moved
<1>c. frame[t][depth[t]].pc = "run"
  BY DEF OperationReturns, At, Top
<1>d. depth \in [Threads -> 0..MaxDepth]
  BY DEF TypeOK
<1>f. \A u \in Threads, d \in Slots : frame'[u][d].pc \in Locked => frame[u][d].pc \in Locked
  BY <1>b, <1>c DEF Locked
<1>g. \A u \in Threads, d \in Slots :
        /\ frame'[u][d].pc \in {"retain", "connect", "release"} =>
              frame[u][d].pc \in {"retain", "connect", "release"}
        /\ frame'[u][d].pc \in {"retain", "connect"} => frame[u][d].pc \in {"retain", "connect"}
  BY <1>b, <1>c
<1>h. \A u \in Threads, d \in Slots :
        frame'[u][d].pc \notin {"idle", "retain", "connect", "release", "drop"} =>
            frame[u][d].pc \notin {"idle", "retain", "connect", "release", "drop"}
  BY <1>b, <1>c
<1>k. \A u \in Threads, d \in Slots :
        frame'[u][d].pc = "run" => frame[u][d].entry # frame[t][depth[t]].entry
  BY <1>b, <1>c DEF OneOperationAtATime, Locked
<1>u. /\ active' = active \ {frame[t][depth[t]].entry}
      /\ UNCHANGED <<registry, next_handle, closed, lease, issued, closes, releases>>
  BY DEF OperationReturns, Entry, Top
<1>t. TypeOK'
  BY <1>b, <1>c, <1>d, <1>u DEF TypeOK
<1>1. IStack'
  BY <1>b, <1>c, <1>d, <1>u DEF IStack, Callbacks
<1>2. ILease'
  BY <1>b, <1>c, <1>d, <1>u DEF ILease, IStack
<1>3. IAlone'
  BY <1>b, <1>g DEF IAlone, IStack
<1>4. IHandle'
  BY <1>b, <1>g, <1>h, <1>u DEF IHandle, IStack
<1>5. IRegistry'
  BY <1>b, <1>c, <1>d, <1>u DEF IRegistry
<1>6. IIssued'
  BY <1>b, <1>c, <1>d, <1>u DEF IIssued
<1>7. IClosed'
  BY <1>b, <1>c, <1>d, <1>u DEF IClosed
<1>8. IActive'
  <2>1. \A u \in Threads, d \in Slots : frame'[u][d].pc = "run" => frame'[u][d].entry \in active'
    BY <1>b, <1>c, <1>k, <1>u DEF IActive
  <2>2. ASSUME NEW g \in active'
        PROVE  \E u \in Threads, d \in Slots : frame'[u][d].pc = "run" /\ frame'[u][d].entry = g
    <3>1. PICK u \in Threads, d \in Slots : frame[u][d].pc = "run" /\ frame[u][d].entry = g
      BY <1>u DEF IActive
    <3>2. frame'[u][d].pc = "run" /\ frame'[u][d].entry = g
      BY <1>b, <1>u, <3>1
    <3> QED
      BY <3>2
  <2> QED
    BY <2>1, <2>2 DEF IActive
<1>9. OneOperationAtATime'
  BY <1>b, <1>f DEF OneOperationAtATime
<1>10. OperationsOnOpenCards'
  <2> SUFFICES ASSUME NEW u \in Threads, NEW d \in Slots, frame'[u][d].pc = "run"
               PROVE  <<frame'[u][d].handle, frame'[u][d].entry>> \in registry'
    BY DEF OperationsOnOpenCards
  <2>1. frame[u][d].pc = "run"
    BY <1>b, <1>c
  <2> QED
    BY <1>b, <1>u, <2>1 DEF OperationsOnOpenCards
<1>11. NoLeakedContext'
  <2> SUFFICES ASSUME NEW e \in Entries, lease'[e] = "retained",
                      ~ \E h \in Handles : <<h, e>> \in registry'
               PROVE  \E u \in Threads, d \in Slots : frame'[u][d].entry = e
    BY DEF NoLeakedContext
  <2>1. PICK u \in Threads, d \in Slots : frame[u][d].entry = e
    BY <1>u DEF NoLeakedContext
  <2>2. frame'[u][d].entry = e
    BY <1>b, <2>1
  <2> QED
    BY <2>2
<1> QED
  BY <1>t, <1>1, <1>2, <1>3, <1>4, <1>5, <1>6, <1>7, <1>8, <1>9, <1>10, <1>11

LEMMA EraseStep ==
    ASSUME IInv, NEW t \in Threads, Erase(t)
    PROVE  IInv'
<1> USE DEF IInv, IParts
<1>b. Moved(t, "unlock")
  BY GotoFacts DEF PCs, Callbacks, At, Erase
<1> USE DEF Moved
<1> DEFINE e == frame[t][depth[t]].entry
           h == frame[t][depth[t]].handle
<1>c. frame[t][depth[t]].pc = "erase"
  BY DEF Erase, At, Top
<1>d. depth \in [Threads -> 0..MaxDepth]
  BY DEF TypeOK
<1>e. e \in Entries /\ h \in Handles /\ <<h, e>> \in issued
  BY <1>b, <1>c DEF IStack, IHandle
<1>f. \A u \in Threads, d \in Slots : frame'[u][d].pc \in Locked => frame[u][d].pc \in Locked
  BY <1>b, <1>c DEF Locked
<1>g. \A u \in Threads, d \in Slots :
        /\ frame'[u][d].pc \in {"retain", "connect", "release"} =>
              frame[u][d].pc \in {"retain", "connect", "release"}
        /\ frame'[u][d].pc \in {"retain", "connect"} => frame[u][d].pc \in {"retain", "connect"}
  BY <1>b, <1>c
<1>h. \A u \in Threads, d \in Slots :
        frame'[u][d].pc \notin {"idle", "retain", "connect", "release", "drop"} =>
            frame[u][d].pc \notin {"idle", "retain", "connect", "release", "drop"}
  BY <1>b, <1>c
<1>i. \A u \in Threads, d \in Slots : frame'[u][d].pc = "run" <=> frame[u][d].pc = "run"
  BY <1>b, <1>c
<1>n. \A u \in Threads, d \in Slots :
        /\ frame'[u][d].pc \notin {"idle", "release"} => frame[u][d].pc \notin {"idle", "release"}
        /\ frame'[u][d].pc = "release" => frame[u][d].pc = "release"
  BY <1>b, <1>c
<1>u. /\ closed' = closed \union {e}
      /\ closes' = [closes EXCEPT ![e] = @ + Erased(h)]
      /\ registry' = {p \in registry : p[1] # h}
      /\ UNCHANGED <<next_handle, active, lease, issued, releases>>
  BY DEF Erase, Entry, Top
<1>k. \A g \in Handles, f \in Entries :
        /\ <<g, f>> \in registry' <=> <<g, f>> \in registry /\ g # h
        /\ <<g, f>> \in registry => (g = h <=> f = e)
  <2> HIDE DEF e, h
  <2> SUFFICES ASSUME NEW g \in Handles, NEW f \in Entries
               PROVE  /\ <<g, f>> \in registry' <=> <<g, f>> \in registry /\ g # h
                      /\ <<g, f>> \in registry => (g = h <=> f = e)
    OBVIOUS
  <2>1. <<g, f>>[1] = g
    OBVIOUS
  <2>2. <<g, f>> \in registry' <=> <<g, f>> \in registry /\ g # h
    BY <1>u, <2>1
  <2>3. <<g, f>> \in registry => (g = h <=> f = e)
    BY <1>e DEF IRegistry, IIssued
  <2> QED
    BY <2>2, <2>3
<1>m. /\ closes' \in [Entries -> Nat]
      /\ closes'[e] <= 1
      /\ \A f \in Entries : f # e => closes'[f] = closes[f]
  <2>1. closes[e] \in Nat /\ closes[e] <= 1
    BY <1>e DEF TypeOK, IClosed
  <2>2. Erased(h) \in {0, 1} /\ (Erased(h) = 1 => closes[e] = 0)
    <3> HIDE DEF e, h
    <3>1. CASE \E f \in Entries : <<h, f>> \in registry
      <4>1. <<h, e>> \in registry
        BY <1>e, <1>k, <3>1
      <4> QED
        BY <1>e, <3>1, <4>1 DEF Erased, IRegistry
    <3>2. CASE ~ \E f \in Entries : <<h, f>> \in registry
      BY <3>2 DEF Erased
    <3> QED
      BY <3>1, <3>2
  <2> HIDE DEF e, h
  <2> QED
    BY <1>e, <1>u, <2>1, <2>2 DEF TypeOK
<1> HIDE DEF e, h
<1>t. TypeOK'
  BY <1>b, <1>d, <1>u, <1>m DEF TypeOK
<1>1. IStack'
  BY <1>b, <1>c, <1>d DEF IStack, Callbacks
<1>2. ILease'
  BY <1>b, <1>n, <1>u DEF ILease, IStack
<1>3. IAlone'
  BY <1>b, <1>g DEF IAlone, IStack
<1>4. IHandle'
  BY <1>b, <1>g, <1>h, <1>u DEF IHandle, IStack
<1>5. IRegistry'
  BY <1>k, <1>m, <1>u DEF IRegistry
<1>6. IIssued'
  BY <1>e, <1>k, <1>u DEF IIssued
<1>7. IClosed'
  BY <1>e, <1>m, <1>u DEF IClosed
<1>8. IActive'
  <2>1. \A u \in Threads, d \in Slots : frame'[u][d].pc = "run" => frame'[u][d].entry \in active'
    BY <1>b, <1>i, <1>u DEF IActive
  <2>2. ASSUME NEW g \in active'
        PROVE  \E u \in Threads, d \in Slots : frame'[u][d].pc = "run" /\ frame'[u][d].entry = g
    <3>1. PICK u \in Threads, d \in Slots : frame[u][d].pc = "run" /\ frame[u][d].entry = g
      BY <1>u DEF IActive
    <3>2. frame'[u][d].pc = "run" /\ frame'[u][d].entry = g
      BY <1>b, <1>i, <3>1
    <3> QED
      BY <3>2
  <2> QED
    BY <2>1, <2>2 DEF IActive
<1>9. OneOperationAtATime'
  BY <1>b, <1>f DEF OneOperationAtATime
<1>10. OperationsOnOpenCards'
  <2> SUFFICES ASSUME NEW u \in Threads, NEW d \in Slots, frame'[u][d].pc = "run"
               PROVE  <<frame'[u][d].handle, frame'[u][d].entry>> \in registry'
    BY DEF OperationsOnOpenCards
  <2>1. frame[u][d].pc = "run" /\ <<frame[u][d].handle, frame[u][d].entry>> \in registry
    BY <1>i DEF OperationsOnOpenCards
  <2>2. frame[u][d].entry # e
    BY <1>b, <1>c, <2>1 DEF e, OneOperationAtATime, Locked
  <2>3. frame[u][d].handle \in Handles /\ frame[u][d].entry \in Entries
    BY <2>1 DEF IHandle, IStack
  <2> QED
    BY <1>b, <1>k, <2>1, <2>2, <2>3
<1>11. NoLeakedContext'
  <2> SUFFICES ASSUME NEW f \in Entries, lease'[f] = "retained",
                      ~ \E g \in Handles : <<g, f>> \in registry'
               PROVE  \E u \in Threads, d \in Slots : frame'[u][d].entry = f
    BY DEF NoLeakedContext
  <2>1. CASE f = e
    BY <1>b, <2>1 DEF e
  <2>2. CASE f # e
    <3>1. ~ \E g \in Handles : <<g, f>> \in registry
      BY <1>k, <2>2
    <3>2. PICK u \in Threads, d \in Slots : frame[u][d].entry = f
      BY <1>u, <3>1 DEF NoLeakedContext
    <3>3. frame'[u][d].entry = f
      BY <1>b, <3>2
    <3> QED
      BY <3>3
  <2> QED
    BY <2>1, <2>2
<1> QED
  BY <1>t, <1>1, <1>2, <1>3, <1>4, <1>5, <1>6, <1>7, <1>8, <1>9, <1>10, <1>11

LEMMA DropSharedStep ==
    ASSUME IInv, NEW t \in Threads, DropShared(t)
    PROVE  IInv'
<1> USE DEF IInv, IParts
<1>b. Popped(t)
  BY ReturnFacts DEF At, DropShared
<1> USE DEF Popped
<1>c. frame[t][depth[t]].pc = "drop" /\ frame[t][depth[t]].entry \in Entries
  BY <1>b DEF DropShared, At, Top, IStack
<1>d. depth \in [Threads -> 0..MaxDepth]
  BY DEF TypeOK
<1>f. \A u \in Threads, d \in Slots : frame'[u][d].pc # "idle" =>
        frame'[u][d] = frame[u][d] /\ (u # t \/ d # depth[t])
  BY <1>b
<1>g. \A u \in Threads, d \in Slots : frame'[u][d].entry \in Entries =>
        frame'[u][d] = frame[u][d] /\ (u # t \/ d # depth[t])
  BY <1>b, ConstantsAssumption
<1>s. IStack'
  BY ReturnStack DEF At, DropShared
<1>k. Referenced(t, frame[t][depth[t]].entry)
  BY DEF DropShared, Entry, Top
<1>u. UNCHANGED <<registry, next_handle, active, closed, lease, issued, closes, releases>>
  BY DEF DropShared
<1>t. TypeOK'
  BY <1>b, <1>u DEF TypeOK
<1>1. IStack'
  BY <1>s DEF IStack, Callbacks
<1>2. ILease'
  BY <1>c, <1>f, <1>k, <1>u DEF ILease, IStack
<1>3. IAlone'
  <2> SUFFICES ASSUME NEW u \in Threads, NEW v \in Threads, NEW c \in Slots, NEW d \in Slots,
                      frame'[u][c].pc \in {"retain", "connect", "release"},
                      frame'[v][d].entry = frame'[u][c].entry
               PROVE  u = v /\ c = d
    BY DEF IAlone
  <2>1. frame'[u][c] = frame[u][c] /\ frame[u][c].entry \in Entries
    BY <1>f DEF IStack
  <2>2. frame'[v][d] = frame[v][d]
    BY <1>g, <2>1
  <2> QED
    BY <2>1, <2>2 DEF IAlone
<1>4. IHandle'
  BY <1>f, <1>k, <1>u DEF IHandle, IStack
<1>5. IRegistry'
  BY <1>k, <1>u DEF IRegistry
<1>6. IIssued'
  BY <1>k, <1>u DEF IIssued
<1>7. IClosed'
  BY <1>k, <1>u DEF IClosed
<1>8. IActive'
  <2>1. \A u \in Threads, d \in Slots : frame'[u][d].pc = "run" => frame'[u][d].entry \in active'
    BY <1>f, <1>u DEF IActive
  <2>2. ASSUME NEW g \in active'
        PROVE  \E u \in Threads, d \in Slots : frame'[u][d].pc = "run" /\ frame'[u][d].entry = g
    <3>1. PICK u \in Threads, d \in Slots : frame[u][d].pc = "run" /\ frame[u][d].entry = g
      BY <1>u DEF IActive
    <3>2. frame'[u][d] = frame[u][d]
      BY <1>b, <1>c, <3>1
    <3> QED
      BY <3>1, <3>2
  <2> QED
    BY <2>1, <2>2 DEF IActive
<1>9. OneOperationAtATime'
  BY <1>f DEF OneOperationAtATime, Locked
<1>10. OperationsOnOpenCards'
  BY <1>f, <1>u DEF OperationsOnOpenCards
<1>11. NoLeakedContext'
  <2> SUFFICES ASSUME NEW f \in Entries, lease'[f] = "retained",
                      ~ \E g \in Handles : <<g, f>> \in registry'
               PROVE  \E u \in Threads, d \in Slots : frame'[u][d].entry = f
    BY DEF NoLeakedContext
  <2>1. PICK u \in Threads, d \in Slots :
            frame[u][d].entry = f /\ (u # t \/ d # depth[t])
    <3>1. CASE f = frame[t][depth[t]].entry
      BY <1>k, <1>u, <3>1 DEF Referenced
    <3>2. CASE f # frame[t][depth[t]].entry
      BY <1>u, <3>2 DEF NoLeakedContext
    <3> QED
      BY <3>1, <3>2
  <2>3. frame'[u][d] = frame[u][d]
    BY <1>b, <2>1
  <2> QED
    BY <2>1, <2>3
<1> QED
  BY <1>t, <1>1, <1>2, <1>3, <1>4, <1>5, <1>6, <1>7, <1>8, <1>9, <1>10, <1>11

LEMMA ReleaseReturnsStep ==
    ASSUME IInv, NEW t \in Threads, ReleaseReturns(t)
    PROVE  IInv'
<1> USE DEF IInv, IParts
<1>b. Popped(t)
  BY ReturnFacts DEF At, ReleaseReturns
<1> USE DEF Popped
<1>c. frame[t][depth[t]].pc = "release" /\ frame[t][depth[t]].entry \in Entries
  BY <1>b DEF ReleaseReturns, At, Top, IStack
<1>d. depth \in [Threads -> 0..MaxDepth]
  BY DEF TypeOK
<1>f. \A u \in Threads, d \in Slots : frame'[u][d].pc # "idle" =>
        frame'[u][d] = frame[u][d] /\ (u # t \/ d # depth[t])
  BY <1>b
<1>g. \A u \in Threads, d \in Slots : frame'[u][d].entry \in Entries =>
        frame'[u][d] = frame[u][d] /\ (u # t \/ d # depth[t])
  BY <1>b, ConstantsAssumption
<1>s. IStack'
  BY ReturnStack DEF At, ReleaseReturns
<1> DEFINE e == frame[t][depth[t]].entry
<1>k. /\ lease[e] = "releasing"
      /\ \A u \in Threads, d \in Slots : u # t \/ d # depth[t] => frame[u][d].entry # e
  BY <1>b, <1>c DEF ILease, IAlone
<1>u. /\ lease' = [lease EXCEPT ![e] = "released"]
      /\ lease'[e] = "released"
      /\ \A f \in Entries : f # e => lease'[f] = lease[f]
      /\ lease' \in [Entries -> Leases]
      /\ UNCHANGED <<registry, next_handle, active, closed, issued, closes, releases>>
  BY <1>c DEF ReleaseReturns, Entry, Top, TypeOK, Leases
<1>v. \A u \in Threads, d \in Slots : frame'[u][d].pc # "idle" =>
        /\ frame'[u][d].entry \in Entries
        /\ lease'[frame'[u][d].entry] = lease[frame[u][d].entry]
  BY <1>f, <1>k, <1>s, <1>u DEF IStack
<1> HIDE DEF e
<1>t. TypeOK'
  BY <1>b, <1>u DEF TypeOK
<1>1. IStack'
  BY <1>s DEF IStack, Callbacks
<1>2. ILease'
  BY <1>f, <1>v DEF ILease, IStack
<1>3. IAlone'
  <2> SUFFICES ASSUME NEW u \in Threads, NEW v \in Threads, NEW c \in Slots, NEW d \in Slots,
                      frame'[u][c].pc \in {"retain", "connect", "release"},
                      frame'[v][d].entry = frame'[u][c].entry
               PROVE  u = v /\ c = d
    BY DEF IAlone
  <2>1. frame'[u][c] = frame[u][c] /\ frame[u][c].entry \in Entries
    BY <1>f DEF IStack
  <2>2. frame'[v][d] = frame[v][d]
    BY <1>g, <2>1
  <2> QED
    BY <2>1, <2>2 DEF IAlone
<1>4. IHandle'
  BY <1>f, <1>k, <1>u DEF IHandle, IStack
<1>5. IRegistry'
  BY <1>k, <1>u DEF IRegistry
<1>6. IIssued'
  BY <1>k, <1>u DEF IIssued
<1>7. IClosed'
  BY <1>k, <1>u DEF IClosed
<1>8. IActive'
  <2>1. \A u \in Threads, d \in Slots : frame'[u][d].pc = "run" => frame'[u][d].entry \in active'
    BY <1>f, <1>u DEF IActive
  <2>2. ASSUME NEW g \in active'
        PROVE  \E u \in Threads, d \in Slots : frame'[u][d].pc = "run" /\ frame'[u][d].entry = g
    <3>1. PICK u \in Threads, d \in Slots : frame[u][d].pc = "run" /\ frame[u][d].entry = g
      BY <1>u DEF IActive
    <3>2. frame'[u][d] = frame[u][d]
      BY <1>b, <1>c, <3>1
    <3> QED
      BY <3>1, <3>2
  <2> QED
    BY <2>1, <2>2 DEF IActive
<1>9. OneOperationAtATime'
  BY <1>f DEF OneOperationAtATime, Locked
<1>10. OperationsOnOpenCards'
  BY <1>f, <1>u DEF OperationsOnOpenCards
<1>11. NoLeakedContext'
  <2> SUFFICES ASSUME NEW f \in Entries, lease'[f] = "retained",
                      ~ \E g \in Handles : <<g, f>> \in registry'
               PROVE  \E u \in Threads, d \in Slots : frame'[u][d].entry = f
    BY DEF NoLeakedContext
  <2>1. PICK u \in Threads, d \in Slots :
            frame[u][d].entry = f /\ (u # t \/ d # depth[t])
    BY <1>u DEF NoLeakedContext, e
  <2>3. frame'[u][d] = frame[u][d]
    BY <1>b, <2>1
  <2> QED
    BY <2>1, <2>3
<1> QED
  BY <1>t, <1>1, <1>2, <1>3, <1>4, <1>5, <1>6, <1>7, <1>8, <1>9, <1>10, <1>11

LEMMA DropLastStep ==
    ASSUME IInv, NEW t \in Threads, DropLast(t)
    PROVE  IInv'
<1> USE DEF IInv, IParts
<1>b. Moved(t, "release")
  BY GotoFacts DEF PCs, Callbacks, At, DropLast
<1> USE DEF Moved
<1> DEFINE e == frame[t][depth[t]].entry
<1>c. frame[t][depth[t]].pc = "drop"
  BY DEF DropLast, At, Top
<1>d. depth \in [Threads -> 0..MaxDepth]
  BY DEF TypeOK
<1>e. e \in Entries /\ lease[e] = "retained"
  BY <1>b, <1>c DEF IStack, ILease
<1>f. \A u \in Threads, d \in Slots : frame'[u][d].pc \in Locked => frame[u][d].pc \in Locked
  BY <1>b, <1>c DEF Locked
<1>i. \A u \in Threads, d \in Slots : frame'[u][d].pc = "run" <=> frame[u][d].pc = "run"
  BY <1>b, <1>c
<1>k. /\ \A h \in Handles : <<h, e>> \notin registry
      /\ \A u \in Threads, d \in Slots : frame[u][d].entry = e => u = t /\ d = depth[t]
  BY DEF DropLast, Referenced, Entry, Top
<1>u. /\ lease' \in [Entries -> Leases]
      /\ lease'[e] = "releasing"
      /\ \A f \in Entries : f # e => lease'[f] = lease[f]
      /\ UNCHANGED <<registry, next_handle, active, closed, issued, closes>>
  BY <1>e DEF DropLast, Entry, Top, TypeOK, Leases
<1>w. /\ releases' \in [Entries -> Nat]
      /\ releases'[e] = 1
      /\ \A f \in Entries : f # e => releases'[f] = releases[f]
  <2>1. releases[e] = 0
    BY <1>e DEF IClosed
  <2>2. releases' = [releases EXCEPT ![e] = @ + 1]
    BY DEF DropLast, Entry, Top
  <2> HIDE DEF e
  <2> QED
    BY <1>e, <2>1, <2>2 DEF TypeOK
<1> HIDE DEF e
<1>t. TypeOK'
  BY <1>b, <1>u, <1>w DEF TypeOK
<1>1. IStack'
  BY <1>b, <1>c, <1>d DEF IStack, Callbacks
<1>2. ILease'
  <2> SUFFICES ASSUME NEW u \in Threads, NEW d \in Slots
               PROVE  /\ frame'[u][d].pc \notin {"idle", "release"} =>
                            lease'[frame'[u][d].entry] = "retained"
                      /\ frame'[u][d].pc = "release" => lease'[frame'[u][d].entry] = "releasing"
    BY DEF ILease
  <2>1. CASE u = t /\ d = depth[t]
    BY <1>b, <1>u, <2>1 DEF e
  <2>2. CASE ~ (u = t /\ d = depth[t])
    <3>1. frame'[u][d].pc = frame[u][d].pc /\ frame'[u][d].entry = frame[u][d].entry
      BY <1>b, <2>2
    <3>2. frame[u][d].entry # e
      BY <1>k, <2>2
    <3>3. frame[u][d].pc # "idle" => lease'[frame[u][d].entry] = lease[frame[u][d].entry]
      BY <1>u, <3>2 DEF IStack
    <3> QED
      BY <3>1, <3>3 DEF ILease
  <2> QED
    BY <2>1, <2>2
<1>3. IAlone'
  <2> SUFFICES ASSUME NEW u \in Threads, NEW v \in Threads, NEW c \in Slots, NEW d \in Slots,
                      frame'[u][c].pc \in {"retain", "connect", "release"},
                      frame'[v][d].entry = frame'[u][c].entry
               PROVE  u = v /\ c = d
    BY DEF IAlone
  <2>1. frame[v][d].entry = frame[u][c].entry
    BY <1>b
  <2>2. CASE u = t /\ c = depth[t]
    BY <1>k, <2>1, <2>2 DEF e
  <2>3. CASE ~ (u = t /\ c = depth[t])
    <3>1. frame[u][c].pc \in {"retain", "connect", "release"}
      BY <1>b, <2>3
    <3> QED
      BY <2>1, <3>1 DEF IAlone
  <2> QED
    BY <2>2, <2>3
<1>4. IHandle'
  <2> SUFFICES ASSUME NEW u \in Threads, NEW d \in Slots
               PROVE  /\ frame'[u][d].pc \in {"retain", "connect"} =>
                            \A g \in Handles : <<g, frame'[u][d].entry>> \notin issued'
                      /\ frame'[u][d].pc \notin {"idle", "retain", "connect", "release", "drop"} =>
                            /\ frame'[u][d].handle \in Handles
                            /\ <<frame'[u][d].handle, frame'[u][d].entry>> \in issued'
    BY DEF IHandle
  <2>1. frame'[u][d].entry = frame[u][d].entry /\ frame'[u][d].handle = frame[u][d].handle
    BY <1>b
  <2>2. frame'[u][d].pc \notin {"idle", "release", "drop"} => frame[u][d].pc = frame'[u][d].pc
    BY <1>b
  <2> QED
    BY <1>u, <2>1, <2>2 DEF IHandle
<1>5. IRegistry'
  BY <1>k, <1>u DEF IRegistry
<1>6. IIssued'
  BY <1>e, <1>u DEF IIssued
<1>7. IClosed'
  BY <1>u, <1>w DEF IClosed
<1>8. IActive'
  <2>1. \A u \in Threads, d \in Slots : frame'[u][d].pc = "run" => frame'[u][d].entry \in active'
    BY <1>b, <1>i, <1>u DEF IActive
  <2>2. ASSUME NEW g \in active'
        PROVE  \E u \in Threads, d \in Slots : frame'[u][d].pc = "run" /\ frame'[u][d].entry = g
    <3>1. PICK u \in Threads, d \in Slots : frame[u][d].pc = "run" /\ frame[u][d].entry = g
      BY <1>u DEF IActive
    <3>2. frame'[u][d].pc = "run" /\ frame'[u][d].entry = g
      BY <1>b, <1>i, <3>1
    <3> QED
      BY <3>2
  <2> QED
    BY <2>1, <2>2 DEF IActive
<1>9. OneOperationAtATime'
  BY <1>b, <1>f DEF OneOperationAtATime
<1>10. OperationsOnOpenCards'
  <2> SUFFICES ASSUME NEW u \in Threads, NEW d \in Slots, frame'[u][d].pc = "run"
               PROVE  <<frame'[u][d].handle, frame'[u][d].entry>> \in registry'
    BY DEF OperationsOnOpenCards
  <2>1. frame[u][d].pc = "run"
    BY <1>i
  <2> QED
    BY <1>b, <1>u, <2>1 DEF OperationsOnOpenCards
<1>11. NoLeakedContext'
  <2> SUFFICES ASSUME NEW f \in Entries, lease'[f] = "retained",
                      ~ \E h \in Handles : <<h, f>> \in registry'
               PROVE  \E u \in Threads, d \in Slots : frame'[u][d].entry = f
    BY DEF NoLeakedContext
  <2>1. PICK u \in Threads, d \in Slots : frame[u][d].entry = f
    BY <1>u DEF NoLeakedContext
  <2>2. frame'[u][d].entry = f
    BY <1>b, <2>1
  <2> QED
    BY <2>2
<1> QED
  BY <1>t, <1>1, <1>2, <1>3, <1>4, <1>5, <1>6, <1>7, <1>8, <1>9, <1>10, <1>11

LEMMA PublishStep ==
    ASSUME IInv, NEW t \in Threads, Publish(t)
    PROVE  IInv'
<1> USE DEF IInv, IParts
<1>b. Popped(t)
  BY ReturnFacts DEF At, Publish
<1> USE DEF Popped
<1>c. frame[t][depth[t]].pc = "connect" /\ frame[t][depth[t]].entry \in Entries
  BY <1>b DEF Publish, At, Top, IStack
<1>d. depth \in [Threads -> 0..MaxDepth]
  BY DEF TypeOK
<1>f. \A u \in Threads, d \in Slots : frame'[u][d].pc # "idle" =>
        frame'[u][d] = frame[u][d] /\ (u # t \/ d # depth[t])
  BY <1>b
<1>g. \A u \in Threads, d \in Slots : frame'[u][d].entry \in Entries =>
        frame'[u][d] = frame[u][d] /\ (u # t \/ d # depth[t])
  BY <1>b, ConstantsAssumption
<1>s. IStack'
  BY ReturnStack DEF At, Publish
<1> DEFINE e == frame[t][depth[t]].entry
           n == next_handle
<1>k. /\ lease[e] = "retained"
      /\ \A h \in Handles : <<h, e>> \notin issued
      /\ \A u \in Threads, d \in Slots : u # t \/ d # depth[t] => frame[u][d].entry # e
  <2>1. lease[e] = "retained"
    BY <1>b, <1>c DEF ILease
  <2>2. \A h \in Handles : <<h, e>> \notin issued
    BY <1>b, <1>c DEF IHandle
  <2>3. \A u \in Threads, d \in Slots : u # t \/ d # depth[t] => frame[u][d].entry # e
    BY <1>b, <1>c DEF IAlone
  <2> QED
    BY <2>1, <2>2, <2>3
<1>l. e \notin closed /\ closes[e] = 0
  BY <1>c, <1>k DEF IClosed
<1>n. n \in Handles /\ n + 1 \in Handles /\ n < n + 1 /\ \A h \in Handles : h < n => h < n + 1 /\ h # n
  BY ConstantsAssumption DEF Publish, TypeOK, Handles
<1>u. /\ next_handle' = n + 1
      /\ registry' = registry \union {<<n, e>>}
      /\ issued' = issued \union {<<n, e>>}
      /\ UNCHANGED <<active, closed, lease, closes, releases>>
  BY DEF Publish, NextHandle, Entry, Top
<1>v. \A h \in Handles, f \in Entries :
        /\ <<h, f>> \in registry' <=> <<h, f>> \in registry \/ (h = n /\ f = e)
        /\ <<h, f>> \in issued' <=> <<h, f>> \in issued \/ (h = n /\ f = e)
  BY <1>u
<1>w. \A u \in Threads, d \in Slots : frame'[u][d].pc # "idle" => frame'[u][d].entry # e
  BY <1>f, <1>k
<1> HIDE DEF e, n
<1>x. e \in Entries
  BY <1>c DEF e
<1>t. TypeOK'
  BY <1>b, <1>n, <1>u, <1>x DEF TypeOK
<1>1. IStack'
  BY <1>s DEF IStack, Callbacks
<1>2. ILease'
  BY <1>c, <1>f, <1>k, <1>u DEF ILease, IStack
<1>3. IAlone'
  <2> SUFFICES ASSUME NEW u \in Threads, NEW v \in Threads, NEW c \in Slots, NEW d \in Slots,
                      frame'[u][c].pc \in {"retain", "connect", "release"},
                      frame'[v][d].entry = frame'[u][c].entry
               PROVE  u = v /\ c = d
    BY DEF IAlone
  <2>1. frame'[u][c] = frame[u][c] /\ frame[u][c].entry \in Entries
    BY <1>f DEF IStack
  <2>2. frame'[v][d] = frame[v][d]
    BY <1>g, <2>1
  <2> QED
    BY <2>1, <2>2 DEF IAlone
<1>4. IHandle'
  BY <1>f, <1>s, <1>u, <1>v, <1>w DEF IHandle, IStack
<1>5. IRegistry'
  BY <1>k, <1>l, <1>u, <1>v DEF IRegistry
<1>6. IIssued'
  <2>1. \A h \in Handles, f \in Entries : <<h, f>> \in issued' =>
          h < next_handle' /\ lease'[f] # "none" /\ (f \notin closed' => <<h, f>> \in registry')
    BY <1>k, <1>n, <1>u, <1>v DEF IIssued, n
  <2>2. \A g, h \in Handles, f, k \in Entries :
          <<g, f>> \in issued' /\ <<h, k>> \in issued' => (g = h <=> f = k)
    <3>1. \A h \in Handles, f \in Entries : <<h, f>> \in issued => h # n /\ f # e
      BY <1>k, <1>n DEF IIssued, n
    <3> QED
      BY <1>v, <3>1 DEF IIssued
  <2> QED
    BY <2>1, <2>2 DEF IIssued
<1>7. IClosed'
  BY <1>u, <1>v DEF IClosed
<1>8. IActive'
  <2>1. \A u \in Threads, d \in Slots : frame'[u][d].pc = "run" => frame'[u][d].entry \in active'
    BY <1>f, <1>u DEF IActive
  <2>2. ASSUME NEW g \in active'
        PROVE  \E u \in Threads, d \in Slots : frame'[u][d].pc = "run" /\ frame'[u][d].entry = g
    <3>1. PICK u \in Threads, d \in Slots : frame[u][d].pc = "run" /\ frame[u][d].entry = g
      BY <1>u DEF IActive
    <3>2. frame'[u][d] = frame[u][d]
      BY <1>b, <1>c, <3>1
    <3> QED
      BY <3>1, <3>2
  <2> QED
    BY <2>1, <2>2 DEF IActive
<1>9. OneOperationAtATime'
  BY <1>f DEF OneOperationAtATime, Locked
<1>10. OperationsOnOpenCards'
  BY <1>f, <1>u DEF OperationsOnOpenCards
<1>11. NoLeakedContext'
  <2> SUFFICES ASSUME NEW f \in Entries, lease'[f] = "retained",
                      ~ \E g \in Handles : <<g, f>> \in registry'
               PROVE  \E u \in Threads, d \in Slots : frame'[u][d].entry = f
    BY DEF NoLeakedContext
  <2>1. PICK u \in Threads, d \in Slots :
            frame[u][d].entry = f /\ (u # t \/ d # depth[t])
    <3>1. f # e
      BY <1>n, <1>v
    <3> QED
      BY <1>u, <1>v, <3>1 DEF NoLeakedContext, e
  <2>3. frame'[u][d] = frame[u][d]
    BY <1>b, <2>1
  <2> QED
    BY <2>1, <2>3
<1> QED
  BY <1>t, <1>1, <1>2, <1>3, <1>4, <1>5, <1>6, <1>7, <1>8, <1>9, <1>10, <1>11

LEMMA OpenStep ==
    ASSUME IInv, NEW t \in Threads, NEW e \in Entries, Open(t, e)
    PROVE  IInv'
<1> USE DEF IInv, IParts
<1> DEFINE p == "retain"
           h == 0
<1>a. MayCall(t) /\ p = "retain" /\ Enter(t, p, h, e)
  BY DEF Open
<1>q. p \in PCs \ {"idle"} /\ h \in 0..MaxHandle
  BY <1>a, ConstantsAssumption DEF PCs, Callbacks, Handles
<1>b. Pushed(t, p, h, e)
  BY <1>a, <1>q, EnterFacts
<1>s. IStack'
  BY <1>a, <1>q, EnterStack
<1> USE DEF Pushed
<1>d. depth \in [Threads -> 0..MaxDepth]
  BY DEF TypeOK
<1>c. frame[t][depth[t] + 1].pc = "idle" /\ frame[t][depth[t] + 1].entry = NoEntry
  BY <1>b, <1>d DEF IStack
<1>k. \A u \in Threads, d \in Slots : frame[u][d].entry # e
  BY ConstantsAssumption DEF Open, IStack, ILease
<1>m. \A g \in Handles : <<g, e>> \notin issued
  BY DEF Open, IIssued
<1>u. /\ lease' \in [Entries -> Leases]
      /\ lease[e] = "none"
      /\ lease'[e] = "retained"
      /\ \A f \in Entries : f # e => lease'[f] = lease[f]
      /\ UNCHANGED <<registry, next_handle, active, closed, issued, closes, releases>>
  BY DEF Open, TypeOK, Leases
<1>l. \A u \in Threads, d \in Slots : frame[u][d].pc # "idle" =>
        lease'[frame[u][d].entry] = lease[frame[u][d].entry]
  BY <1>k, <1>u DEF IStack
<1>t. TypeOK'
  BY <1>b, <1>u DEF TypeOK
<1>1. IStack'
  BY <1>s DEF IStack, Callbacks
<1>2. ILease'
  <2> SUFFICES ASSUME NEW u \in Threads, NEW d \in Slots
               PROVE  /\ frame'[u][d].pc \notin {"idle", "release"} =>
                            lease'[frame'[u][d].entry] = "retained"
                      /\ frame'[u][d].pc = "release" => lease'[frame'[u][d].entry] = "releasing"
    BY DEF ILease
  <2>1. CASE u = t /\ d = depth[t] + 1
    BY <1>a, <1>b, <1>u, <2>1
  <2>2. CASE ~ (u = t /\ d = depth[t] + 1)
    BY <1>b, <1>l, <2>2 DEF ILease
  <2> QED
    BY <2>1, <2>2
<1>3. IAlone'
  <2> SUFFICES ASSUME NEW u \in Threads, NEW v \in Threads, NEW c \in Slots, NEW d \in Slots,
                      frame'[u][c].pc \in {"retain", "connect", "release"},
                      frame'[v][d].entry = frame'[u][c].entry
               PROVE  u = v /\ c = d
    BY DEF IAlone
  <2>1. CASE u = t /\ c = depth[t] + 1
    BY <1>a, <1>b, <1>k, <2>1
  <2>2. CASE v = t /\ d = depth[t] + 1 /\ ~ (u = t /\ c = depth[t] + 1)
    <3>1. frame'[u][c] = frame[u][c] /\ frame'[v][d].entry = e
      BY <1>b, <2>2
    <3>2. frame[u][c].entry # e
      BY <1>k, <3>1
    <3> QED
      BY <3>1, <3>2
  <2>3. CASE ~ (u = t /\ c = depth[t] + 1) /\ ~ (v = t /\ d = depth[t] + 1)
    <3>1. frame'[u][c] = frame[u][c] /\ frame'[v][d] = frame[v][d]
      BY <1>b, <2>3
    <3> QED
      BY <3>1 DEF IAlone
  <2> QED
    BY <2>1, <2>2, <2>3
<1>4. IHandle'
  <2> SUFFICES ASSUME NEW u \in Threads, NEW d \in Slots
               PROVE  /\ frame'[u][d].pc \in {"retain", "connect"} =>
                            \A g \in Handles : <<g, frame'[u][d].entry>> \notin issued'
                      /\ frame'[u][d].pc \notin {"idle", "retain", "connect", "release", "drop"} =>
                            /\ frame'[u][d].handle \in Handles
                            /\ <<frame'[u][d].handle, frame'[u][d].entry>> \in issued'
    BY DEF IHandle
  <2>1. CASE u = t /\ d = depth[t] + 1
    BY <1>a, <1>b, <1>m, <1>u, <2>1
  <2>2. CASE ~ (u = t /\ d = depth[t] + 1)
    BY <1>b, <1>u, <2>2 DEF IHandle
  <2> QED
    BY <2>1, <2>2
<1>5. IRegistry'
  BY <1>u DEF IRegistry
<1>6. IIssued'
  BY <1>u DEF IIssued
<1>7. IClosed'
  BY <1>u DEF IClosed
<1>8. IActive'
  <2>1. \A u \in Threads, d \in Slots : frame'[u][d].pc = "run" => frame'[u][d].entry \in active'
    BY <1>a, <1>b, <1>u DEF IActive
  <2>2. ASSUME NEW g \in active'
        PROVE  \E u \in Threads, d \in Slots : frame'[u][d].pc = "run" /\ frame'[u][d].entry = g
    <3>1. PICK u \in Threads, d \in Slots : frame[u][d].pc = "run" /\ frame[u][d].entry = g
      BY <1>u DEF IActive
    <3>2. frame'[u][d] = frame[u][d]
      BY <1>b, <1>c, <3>1
    <3> QED
      BY <3>1, <3>2
  <2> QED
    BY <2>1, <2>2 DEF IActive
<1>9. OneOperationAtATime'
  <2> SUFFICES ASSUME NEW u \in Threads, NEW v \in Threads, NEW c \in Slots, NEW d \in Slots,
                      frame'[u][c].pc \in Locked, frame'[v][d].pc \in Locked,
                      frame'[u][c].entry = frame'[v][d].entry
               PROVE  u = v /\ c = d
    BY DEF OneOperationAtATime
  <2>1. p \notin Locked
    BY <1>a DEF Locked
  <2>2. frame'[u][c] = frame[u][c] /\ frame'[v][d] = frame[v][d]
    BY <1>b, <2>1
  <2> QED
    BY <2>2 DEF OneOperationAtATime
<1>10. OperationsOnOpenCards'
  BY <1>a, <1>b, <1>u DEF OperationsOnOpenCards
<1>11. NoLeakedContext'
  <2> SUFFICES ASSUME NEW f \in Entries, lease'[f] = "retained",
                      ~ \E g \in Handles : <<g, f>> \in registry'
               PROVE  \E u \in Threads, d \in Slots : frame'[u][d].entry = f
    BY DEF NoLeakedContext
  <2>1. CASE f = e
    BY <1>b, <2>1
  <2>2. CASE f # e
    <3>1. PICK u \in Threads, d \in Slots : frame[u][d].entry = f
      BY <1>u, <2>2 DEF NoLeakedContext
    <3>2. frame'[u][d] = frame[u][d]
      BY <1>b, <1>c, <3>1, ConstantsAssumption
    <3> QED
      BY <3>1, <3>2
  <2> QED
    BY <2>1, <2>2
<1> QED
  BY <1>t, <1>1, <1>2, <1>3, <1>4, <1>5, <1>6, <1>7, <1>8, <1>9, <1>10, <1>11

LEMMA LookupStep ==
    ASSUME IInv, NEW t \in Threads, NEW h \in Handles,
           NEW p \in {"lock_invoke", "lock_close", "cancel", "notify"}, Lookup(t, h, p)
    PROVE  IInv'
<1> USE DEF IInv, IParts
<1>p. PICK e \in Entries : <<h, e>> \in registry /\ Enter(t, p, h, e)
  BY DEF Lookup
<1>a. MayCall(t) /\ p \in {"lock_invoke", "lock_close", "cancel", "notify"} /\ Enter(t, p, h, e)
  BY <1>p DEF Lookup
<1>q. p \in PCs \ {"idle"} /\ h \in 0..MaxHandle
  BY <1>a, ConstantsAssumption DEF PCs, Callbacks, Handles
<1>b. Pushed(t, p, h, e)
  BY <1>a, <1>q, EnterFacts
<1>s. IStack'
  BY <1>a, <1>q, EnterStack
<1> USE DEF Pushed
<1>d. depth \in [Threads -> 0..MaxDepth]
  BY DEF TypeOK
<1>c. frame[t][depth[t] + 1].pc = "idle" /\ frame[t][depth[t] + 1].entry = NoEntry
  BY <1>b, <1>d DEF IStack
<1>m. h \in Handles /\ <<h, e>> \in issued /\ lease[e] = "retained"
  BY <1>p DEF IRegistry
<1>k. \A u \in Threads, d \in Slots :
        frame[u][d].pc \in {"retain", "connect", "release"} => frame[u][d].entry # e
  BY <1>m DEF IHandle, ILease
<1>u. lease[e] = "retained" /\ UNCHANGED <<registry, next_handle, active, closed, lease, issued, closes, releases>>
  BY <1>m DEF Lookup
<1>l. lease' = lease
  BY <1>u
<1>t. TypeOK'
  BY <1>b, <1>u DEF TypeOK
<1>1. IStack'
  BY <1>s DEF IStack, Callbacks
<1>2. ILease'
  <2> SUFFICES ASSUME NEW u \in Threads, NEW d \in Slots
               PROVE  /\ frame'[u][d].pc \notin {"idle", "release"} =>
                            lease'[frame'[u][d].entry] = "retained"
                      /\ frame'[u][d].pc = "release" => lease'[frame'[u][d].entry] = "releasing"
    BY DEF ILease
  <2>1. CASE u = t /\ d = depth[t] + 1
    BY <1>a, <1>b, <1>u, <2>1
  <2>2. CASE ~ (u = t /\ d = depth[t] + 1)
    BY <1>b, <1>l, <2>2 DEF ILease
  <2> QED
    BY <2>1, <2>2
<1>3. IAlone'
  <2> SUFFICES ASSUME NEW u \in Threads, NEW v \in Threads, NEW c \in Slots, NEW d \in Slots,
                      frame'[u][c].pc \in {"retain", "connect", "release"},
                      frame'[v][d].entry = frame'[u][c].entry
               PROVE  u = v /\ c = d
    BY DEF IAlone
  <2>1. CASE u = t /\ c = depth[t] + 1
    BY <1>a, <1>b, <1>k, <2>1
  <2>2. CASE v = t /\ d = depth[t] + 1 /\ ~ (u = t /\ c = depth[t] + 1)
    <3>1. frame'[u][c] = frame[u][c] /\ frame'[v][d].entry = e
      BY <1>b, <2>2
    <3>2. frame[u][c].entry # e
      BY <1>k, <3>1
    <3> QED
      BY <3>1, <3>2
  <2>3. CASE ~ (u = t /\ c = depth[t] + 1) /\ ~ (v = t /\ d = depth[t] + 1)
    <3>1. frame'[u][c] = frame[u][c] /\ frame'[v][d] = frame[v][d]
      BY <1>b, <2>3
    <3> QED
      BY <3>1 DEF IAlone
  <2> QED
    BY <2>1, <2>2, <2>3
<1>4. IHandle'
  <2> SUFFICES ASSUME NEW u \in Threads, NEW d \in Slots
               PROVE  /\ frame'[u][d].pc \in {"retain", "connect"} =>
                            \A g \in Handles : <<g, frame'[u][d].entry>> \notin issued'
                      /\ frame'[u][d].pc \notin {"idle", "retain", "connect", "release", "drop"} =>
                            /\ frame'[u][d].handle \in Handles
                            /\ <<frame'[u][d].handle, frame'[u][d].entry>> \in issued'
    BY DEF IHandle
  <2>1. CASE u = t /\ d = depth[t] + 1
    BY <1>a, <1>b, <1>m, <1>u, <2>1
  <2>2. CASE ~ (u = t /\ d = depth[t] + 1)
    BY <1>b, <1>u, <2>2 DEF IHandle
  <2> QED
    BY <2>1, <2>2
<1>5. IRegistry'
  BY <1>u DEF IRegistry
<1>6. IIssued'
  BY <1>u DEF IIssued
<1>7. IClosed'
  BY <1>u DEF IClosed
<1>8. IActive'
  <2>1. \A u \in Threads, d \in Slots : frame'[u][d].pc = "run" => frame'[u][d].entry \in active'
    BY <1>a, <1>b, <1>u DEF IActive
  <2>2. ASSUME NEW g \in active'
        PROVE  \E u \in Threads, d \in Slots : frame'[u][d].pc = "run" /\ frame'[u][d].entry = g
    <3>1. PICK u \in Threads, d \in Slots : frame[u][d].pc = "run" /\ frame[u][d].entry = g
      BY <1>u DEF IActive
    <3>2. frame'[u][d] = frame[u][d]
      BY <1>b, <1>c, <3>1
    <3> QED
      BY <3>1, <3>2
  <2> QED
    BY <2>1, <2>2 DEF IActive
<1>9. OneOperationAtATime'
  <2> SUFFICES ASSUME NEW u \in Threads, NEW v \in Threads, NEW c \in Slots, NEW d \in Slots,
                      frame'[u][c].pc \in Locked, frame'[v][d].pc \in Locked,
                      frame'[u][c].entry = frame'[v][d].entry
               PROVE  u = v /\ c = d
    BY DEF OneOperationAtATime
  <2>1. p \notin Locked
    BY <1>a DEF Locked
  <2>2. frame'[u][c] = frame[u][c] /\ frame'[v][d] = frame[v][d]
    BY <1>b, <2>1
  <2> QED
    BY <2>2 DEF OneOperationAtATime
<1>10. OperationsOnOpenCards'
  BY <1>a, <1>b, <1>u DEF OperationsOnOpenCards
<1>11. NoLeakedContext'
  <2> SUFFICES ASSUME NEW f \in Entries, lease'[f] = "retained",
                      ~ \E g \in Handles : <<g, f>> \in registry'
               PROVE  \E u \in Threads, d \in Slots : frame'[u][d].entry = f
    BY DEF NoLeakedContext
  <2>1. CASE f = e
    BY <1>b, <2>1
  <2>2. CASE f # e
    <3>1. PICK u \in Threads, d \in Slots : frame[u][d].entry = f
      BY <1>u, <2>2 DEF NoLeakedContext
    <3>2. frame'[u][d] = frame[u][d]
      BY <1>b, <1>c, <3>1, ConstantsAssumption
    <3> QED
      BY <3>1, <3>2
  <2> QED
    BY <2>1, <2>2
<1> QED
  BY <1>t, <1>1, <1>2, <1>3, <1>4, <1>5, <1>6, <1>7, <1>8, <1>9, <1>10, <1>11

-----------------------------------------------------------------------------
(* The theorems.                                                           *)

LEMMA InitHolds ==
    ASSUME Init
    PROVE  IInv
<1>1. NoCall \in Frame /\ NoCall.pc = "idle" /\ NoCall.entry = NoEntry
  BY ConstantsAssumption DEF NoCall, Frame, PCs
<1>2. /\ \A t \in Threads, d \in Slots : frame[t][d] = NoCall
      /\ \A t \in Threads : depth[t] = 0
      /\ \A e \in Entries : lease[e] = "none" /\ closes[e] = 0 /\ releases[e] = 0
      /\ registry = {} /\ active = {} /\ closed = {} /\ issued = {}
  BY DEF Init
<1>3. \A t \in Threads, d \in Slots :
        frame[t][d].pc = "idle" /\ frame[t][d].entry = NoEntry /\ d > depth[t]
  BY <1>1, <1>2, ConstantsAssumption DEF Slots
<1>4. TypeOK
  BY <1>1, ConstantsAssumption DEF Init, TypeOK, Handles, Leases
<1>5. IStack /\ ILease /\ IAlone /\ IHandle
  BY <1>2, <1>3, ConstantsAssumption DEF IStack, ILease, IAlone, IHandle, Slots
<1>6. IRegistry /\ IIssued /\ IClosed /\ IActive
  BY <1>2, <1>3 DEF IRegistry, IIssued, IClosed, IActive
<1>7. OneOperationAtATime /\ OperationsOnOpenCards /\ NoLeakedContext
  BY <1>2, <1>3 DEF OneOperationAtATime, OperationsOnOpenCards, NoLeakedContext, Locked
<1> QED
  BY <1>4, <1>5, <1>6, <1>7 DEF IInv, IParts

LEMMA NextPreserves ==
    ASSUME IInv, [Next]_vars
    PROVE  IInv'
<1>1. CASE UNCHANGED vars
  <2> USE <1>1 DEF vars, IInv, IParts
  <2>1. TypeOK'
    BY DEF TypeOK
  <2>6. IRegistry' /\ IIssued'
    BY DEF IRegistry, IIssued
  <2>7. IClosed'
    BY DEF IClosed
  <2>2. IStack' /\ ILease' /\ IAlone' /\ IHandle'
    BY DEF IStack, ILease, IAlone, IHandle
  <2>3. IActive'
    BY DEF IActive
  <2>4. OneOperationAtATime' /\ OperationsOnOpenCards'
    BY DEF OneOperationAtATime, OperationsOnOpenCards
  <2>5. NoLeakedContext'
    BY DEF NoLeakedContext
  <2> QED
    BY <2>1, <2>2, <2>3, <2>4, <2>5, <2>6, <2>7
<1>2. ASSUME NEW t \in Threads, HostCalls(t)
      PROVE  IInv'
  <2>1. ASSUME NEW e \in Entries, Open(t, e)
        PROVE  IInv'
    BY <2>1, OpenStep
  <2>2. ASSUME NEW h \in Handles,
               Invoke(t, h) \/ Close(t, h) \/ Cancel(t, h) \/ NotifyStateChange(t, h)
        PROVE  IInv'
    BY <2>2, LookupStep DEF Invoke, Close, Cancel, NotifyStateChange
  <2> QED
    BY <1>2, <2>1, <2>2 DEF HostCalls
<1>3. ASSUME NEW t \in Threads, HostReturns(t)
      PROVE  IInv'
  <2>1. CASE RetainReturns(t)
    BY <2>1, QuietStep DEF RetainReturns, At
  <2>2. CASE OperationReturns(t)
    BY <2>2, OperationReturnsStep
  <2>3. CASE CancelReturns(t)
    BY <2>3, QuietStep DEF CancelReturns, At
  <2>4. CASE ReleaseReturns(t)
    BY <2>4, ReleaseReturnsStep
  <2> QED
    BY <1>3, <2>1, <2>2, <2>3, <2>4 DEF HostReturns
<1>4. ASSUME NEW t \in Threads, SdkStep(t)
      PROVE  IInv'
  <2>1. CASE OpenFails(t)
    BY <2>1, QuietStep DEF OpenFails, At
  <2>2. CASE Exhausted(t)
    BY <2>2, QuietStep DEF Exhausted, At
  <2>3. CASE Publish(t)
    BY <2>3, PublishStep
  <2>4. CASE InvokeRuns(t)
    BY <2>4, InvokeRunsStep
  <2>5. CASE InvokeRefused(t)
    BY <2>5, QuietStep DEF InvokeRefused, At
  <2>6. CASE CloseLocks(t)
    BY <2>6, CloseLocksStep
  <2>7. CASE CloseRefused(t)
    BY <2>7, QuietStep DEF CloseRefused, At
  <2>8. CASE Erase(t)
    BY <2>8, EraseStep
  <2>9. CASE CloseUnlocks(t)
    BY <2>9, QuietStep DEF CloseUnlocks, At
  <2>10. CASE Notified(t)
    BY <2>10, QuietStep DEF Notified, At
  <2>11. CASE DropShared(t)
    BY <2>11, DropSharedStep
  <2>12. CASE DropLast(t)
    BY <2>12, DropLastStep
  <2> QED
    BY <1>4, <2>1, <2>2, <2>3, <2>4, <2>5, <2>6, <2>7, <2>8, <2>9, <2>10, <2>11, <2>12
       DEF SdkStep
<1> QED
  BY <1>1, <1>2, <1>3, <1>4 DEF Next

\* The invariant behind the theorems below holds throughout.
THEOREM Invariance == Spec => []IInv
<1>1. Init => IInv
  BY InitHolds
<1>2. IInv /\ [Next]_vars => IInv'
  BY NextPreserves
<1> QED
  BY <1>1, <1>2, PTL DEF Spec

\* Every variable of the registry keeps its type; next_handle stays within the
\* handle space.
THEOREM TypeCorrect == Spec => []TypeOK
<1>1. IInv => TypeOK
  BY DEF IInv
<1> QED
  BY <1>1, Invariance, PTL

\* No call uses an entry whose context df_close() has let go of.
THEOREM ContextsOutliveCalls == Spec => []ContextOutlivesCalls
<1>1. IInv => ContextOutlivesCalls
  BY DEF IInv, IParts, ILease, ContextOutlivesCalls
<1> QED
  BY <1>1, Invariance, PTL

\* The release callback runs at most once for each df_open().
THEOREM ReleasesAreUnique == Spec => []ReleasedOnce
<1>1. IInv => ReleasedOnce
  BY DEF IInv, IParts, IClosed, ReleasedOnce
<1> QED
  BY <1>1, Invariance, PTL

\* A retained context always has an owner that will let go of it.
THEOREM NothingLeaks == Spec => []NoLeakedContext
<1>1. IInv => NoLeakedContext
  BY DEF IInv, IParts
<1> QED
  BY <1>1, Invariance, PTL

\* Operations and closes of one card exclude each other, across threads and
\* across callbacks that call in again.
THEOREM MutualExclusion == Spec => []OneOperationAtATime
<1>1. IInv => OneOperationAtATime
  BY DEF IInv, IParts
<1> QED
  BY <1>1, Invariance, PTL

\* No operation runs on a card after df_close() has taken its handle.
THEOREM NoOperationAfterClose == Spec => []OperationsOnOpenCards
<1>1. IInv => OperationsOnOpenCards
  BY DEF IInv, IParts
<1> QED
  BY <1>1, Invariance, PTL

\* At most one df_close() of a card reports success.
THEOREM OneCloseSucceeds == Spec => []ClosedAtMostOnce
<1>1. IInv => ClosedAtMostOnce
  BY DEF IInv, IParts, IClosed, ClosedAtMostOnce
<1> QED
  BY <1>1, Invariance, PTL

\* df_open() never issues a handle twice.
THEOREM HandlesAreUnique == Spec => []HandlesNeverReused
<1>1. ASSUME IInv, NEW p \in issued, NEW q \in issued, p[1] = q[1]
      PROVE  p[2] = q[2]
  <2>1. PICK g \in Handles, e \in Entries : p = <<g, e>>
    BY <1>1 DEF IInv, TypeOK
  <2>2. PICK h \in Handles, f \in Entries : q = <<h, f>>
    BY <1>1 DEF IInv, TypeOK
  <2> QED
    BY <1>1, <2>1, <2>2 DEF IInv, IParts, IIssued
<1>2. IInv => HandlesNeverReused
  BY <1>1 DEF HandlesNeverReused
<1> QED
  BY <1>2, Invariance, PTL

=============================================================================
