-------------------------- MODULE ProcSignalProofs --------------------------
(***************************************************************************)
(* Proofs about ProcSignal, for every set of signals above SIGHUP, every   *)
(* choice of watched signals and of handlers: the inductive invariant IInv *)
(* and the safety properties that follow from it.  One lemma for each      *)
(* action; in each, one step for each group of conjuncts of IInv.          *)
(***************************************************************************)
EXTENDS ProcSignal, TLAPS

USE ProcSignalAssumption DEF table, calls, hist

LEMMA SigsInSlot ==
  /\ Sigs \subseteq Slot /\ Slot \subseteq Nat
  /\ \A s \in Sigs : 0 .. s \subseteq Slot
BY DEF Slot

LEMMA Names ==
  "NULL" \notin Apps /\ "IGN" \notin Apps /\ "DFL" \notin Apps /\ "junk" \notin Apps
OBVIOUS

LEMMA InitIInv == Init => IInv
<1> SUFFICES ASSUME Init PROVE IInv
  OBVIOUS
<1> USE DEF Init
<1>1. TypeOK
  <2>1. careful \in BOOLEAN /\ alive \in {"yes", "killed", "crashed"}
    OBVIOUS
  <2>2. os \in [Sigs -> Disposition]
    BY DEF Disposition
  <2>3. blocked \subseteq Sigs /\ pending \subseteq Sigs
    OBVIOUS
  <2>4. count \in Nat /\ nalloc \in Nat /\ moving \in BOOLEAN
    OBVIOUS
  <2>5. IF Growing THEN nalloc < count ELSE nalloc = count
    BY DEF Growing
  <2>6. \A i \in Slot : i < nalloc => el[i].handler # "junk"
    BY SigsInSlot
  <2>7. arg.sig \in Sigs /\ arg.handler \in {"NULL"} \cup Registration
    BY DEF NoArg, Registration
  <2>8. todo \subseteq Sigs /\ served \in BOOLEAN
    OBVIOUS
  <2>9. want \in [Sigs -> {"DFL"} \cup Registration] /\ flag \in [Sigs -> BOOLEAN]
    OBVIOUS
  <2>10. QED
  BY <2>1, <2>2, <2>3, <2>4, <2>5, <2>6, <2>7, <2>8, <2>9 DEF TypeOK, Registration
<1>2. Types
  BY DEF Types, Junk, NoArg, Registration, Element
<1>3. PcOfJob /\ ArgOfJob
  BY DEF PcOfJob, ArgOfJob, Setting, Deleting, Changing
<1>4. Sized
  BY DEF Sized, Growing, Deleting
<1>5. AllAgreed
  <2>1. ~Changing
    BY DEF Changing, Setting, Deleting
  <2>2. ASSUME NEW s \in Sigs PROVE Agreed(s)
    <3>1. ~Held(s)
      BY DEF Held
    <3>2. QED
      BY <3>1, Names DEF Agreed
  <2>3. QED
    BY <2>1, <2>2 DEF AllAgreed
<1>6. Masked /\ Keeping /\ Dropping /\ Daemonized
  BY DEF Masked, Keeping, Dropping, Daemonized, Changing, Setting, Deleting
<1>7. HandledRight /\ HarmOnlyInRestore
  BY DEF HandledRight, OwnHandler, AcceptOnly, HarmOnlyInRestore
<1>8. QED
  BY <1>1, <1>2, <1>3, <1>4, <1>5, <1>6, <1>7 DEF IInv

(* A step of the process runs while no handler does. *)
LEMMA ProcessStep ==
  ASSUME alive = "yes", inside = NoCall, UNCHANGED <<alive, inside>>
  PROVE  HandledRight' /\ HarmOnlyInRestore'
BY DEF HandledRight, OwnHandler, AcceptOnly, HarmOnlyInRestore, NoCall

(* What the helpers of the actions do *)
LEMMA SetActionEffect ==
  ASSUME TypeOK, NEW s \in Sigs, NEW h \in Registration, NEW restart \in BOOLEAN,
         SetAction(s, h, restart)
  PROVE  /\ os' \in [Sigs -> Disposition]
         /\ os'[s] = [disp |-> IF h = "IGN" THEN "IGN" ELSE "CATCH", restart |-> restart]
         /\ \A t \in Sigs \ {s} : os'[t] = os[t]
         /\ pending' \subseteq Sigs
         /\ arg' = [sig |-> s, handler |-> h, restart |-> restart]
         /\ arg' \in [sig : Sigs, handler : {"NULL"} \cup Registration, restart : BOOLEAN]
         /\ pc' = IF s >= count THEN "count" ELSE "used"
BY DEF SetAction, TypeOK, Disposition

LEMMA DelActionEffect ==
  ASSUME TypeOK, NEW s \in Sigs, DelAction(s)
  PROVE  /\ os' \in [Sigs -> Disposition]
         /\ os'[s] = [disp |-> "DFL", restart |-> FALSE]
         /\ \A t \in Sigs \ {s} : os'[t] = os[t]
         /\ arg' = [sig |-> s, handler |-> "NULL", restart |-> FALSE]
         /\ arg' \in [sig : Sigs, handler : {"NULL"} \cup Registration, restart : BOOLEAN]
BY DEF DelAction, TypeOK, Disposition, NoArg

LEMMA DelZeroEffect ==
  ASSUME TypeOK, Types, NEW s \in Sigs, DelZero(s)
  PROVE  /\ el' \in [Slot -> Element]
         /\ el'[s] = Free
         /\ \A i \in Slot \ {s} : el'[i] = el[i]
         /\ want' \in [Sigs -> {"DFL"} \cup Registration]
         /\ flag' \in [Sigs -> BOOLEAN]
         /\ want'[s] = "DFL" /\ flag'[s] = FALSE
         /\ \A t \in Sigs \ {s} : want'[t] = want[t] /\ flag'[t] = flag[t]
<1>1. Free \in Element
  BY DEF Free, Element
<1>2. QED
  BY <1>1, SigsInSlot DEF DelZero, TypeOK, Types, Element

(* The kernel is told of s, and nothing else has changed. *)
LEMMA TellKernel ==
  ASSUME IInv, ~Changing, Changing', Told', NEW s \in Sigs, arg'.sig = s,
         \A t \in Sigs \ {s} : os'[t] = os[t],
         UNCHANGED <<nalloc, el, want, flag>>
  PROVE  AllAgreed'
<1>1. \A t \in Sigs : Agreed(t)
  BY DEF IInv, AllAgreed
<1>2. ASSUME NEW t \in Sigs, t # s PROVE Agreed(t)'
  BY <1>1, <1>2 DEF Agreed, Held
<1>3. QED
  BY <1>2 DEF AllAgreed

LEMMA SetCallStep ==
  ASSUME IInv, NEW s \in Sigs, NEW h \in Registration, NEW restart \in BOOLEAN,
         NEW force \in BOOLEAN, SetCall(s, h, restart, force)
  PROVE  IInv'
<1> USE DEF IInv, SetCall, SetAction, At
<1>0. /\ os' \in [Sigs -> Disposition]
      /\ os'[s] = [disp |-> IF h = "IGN" THEN "IGN" ELSE "CATCH", restart |-> restart]
      /\ \A t \in Sigs \ {s} : os'[t] = os[t]
      /\ pending' \subseteq Sigs
      /\ arg' = [sig |-> s, handler |-> h, restart |-> restart]
      /\ arg' \in [sig : Sigs, handler : {"NULL"} \cup Registration, restart : BOOLEAN]
      /\ pc' = IF s >= count THEN "count" ELSE "used"
  BY SetActionEffect
<1> HIDE DEF SetAction
<1>1. TypeOK' /\ Types'
  BY <1>0 DEF TypeOK, Types, Growing
<1>2. PcOfJob' /\ ArgOfJob'
  BY <1>0 DEF PcOfJob, ArgOfJob, Setting, Deleting, Changing
<1>3. Sized'
  <2>1. s \in Nat /\ count \in Nat /\ pc' \in {"count", "used"} /\ ~moving
    BY <1>0 DEF TypeOK, Sized
  <2>2. pc' = "count" => count' <= arg'.sig
    BY <1>0, <2>1
  <2>3. pc' = "used" => arg'.sig < count'
    BY <1>0, <2>1
  <2>4. QED
    BY <2>1, <2>2, <2>3 DEF Sized, Growing, Deleting
<1>4. AllAgreed'
  <2>1. ~Changing /\ Changing' /\ Told'
    BY <1>0 DEF Changing, Setting, Deleting, Told
  <2>2. QED
    BY <1>0, <2>1, TellKernel
<1>5. Masked'
  BY <1>0 DEF Masked, Changing, Setting, Deleting, PcOfJob, TypeOK
<1>6. Keeping' /\ Dropping' /\ Daemonized'
  BY <1>0 DEF Keeping, Dropping, Daemonized, Changing, Setting, Deleting, PcOfJob, ArgOfJob
<1>7. HandledRight' /\ HarmOnlyInRestore'
  BY ProcessStep
<1>8. QED
  BY <1>1, <1>2, <1>3, <1>4, <1>5, <1>6, <1>7

LEMMA SetHandlerStep == ASSUME IInv, SetHandler PROVE IInv'
<1> USE DEF IInv, SetHandler, At
<1>0. /\ arg.sig \in Sigs /\ arg.sig \in Slot /\ arg.handler \in Registration
      /\ arg.handler # "junk" /\ pc = "handler" /\ arg.restart \in BOOLEAN
  BY SigsInSlot, Names DEF TypeOK, Types, ArgOfJob, Setting, Registration
<1>00. /\ el' \in [Slot -> Element]
       /\ el'[arg.sig].used = el[arg.sig].used /\ el'[arg.sig].data = el[arg.sig].data
       /\ el'[arg.sig].handler = arg.handler
       /\ \A i \in Slot \ {arg.sig} : el'[i] = el[i]
  <2> DEFINE x == el[arg.sig]
             h == arg.handler
             e == [x EXCEPT !.handler = h]
  <2>1. x \in Element /\ h \in {"NULL"} \cup Registration
    BY <1>0 DEF Types
  <2>2. el' = [el EXCEPT ![arg.sig] = e]
    OBVIOUS
  <2> HIDE DEF x, h, SetHandler
  <2>3. e \in Element /\ e.used = x.used /\ e.data = x.data /\ e.handler = h
    BY <2>1 DEF Element
  <2> HIDE DEF e
  <2>4. /\ el' \in [Slot -> Element] /\ el'[arg.sig] = e
        /\ \A i \in Slot \ {arg.sig} : el'[i] = el[i]
    BY <1>0, <2>2, <2>3 DEF Types
  <2>5. QED
    BY <2>3, <2>4 DEF x, h
<1>01. /\ pc' \in {"idle", "fork", "daemon"} /\ job' \in {"app", "fork2"}
      /\ arg' = NoArg
  BY <1>0 DEF Return, PcOfJob, Setting
<1>1. TypeOK' /\ Types'
  <2>1. Types'
    BY <1>0, <1>00, <1>01 DEF Types, TypeOK, NoArg, Registration
  <2>2. \A i \in Slot : i < nalloc' => el'[i].handler # "junk"
    BY <1>0, <1>00 DEF TypeOK
  <2>3. want' \in [Sigs -> {"DFL"} \cup Registration] /\ flag' \in [Sigs -> BOOLEAN]
    BY <1>0 DEF TypeOK
  <2>4. ~Growing /\ ~Growing' /\ arg'.sig \in Sigs /\ arg'.handler = "NULL"
    BY <1>0, <1>01 DEF Growing, NoArg
  <2>5. QED
    BY <2>1, <2>2, <2>3, <2>4, <1>01 DEF TypeOK
<1>2. PcOfJob' /\ ArgOfJob'
  BY DEF PcOfJob, ArgOfJob, Setting, Deleting, Changing, NoArg, Return
<1>3. Sized'
  BY <1>0, <1>01 DEF Sized, Growing, Deleting
<1>4. AllAgreed'
  <2>1. arg.sig < nalloc /\ el[arg.sig].used /\ Told
    BY <1>0 DEF Sized, Growing, TypeOK, AllAgreed, Changing, Setting
  <2>2. /\ \A s \in Sigs : want'[s] = IF s = arg.sig THEN arg.handler ELSE want[s]
        /\ \A s \in Sigs : flag'[s] = IF s = arg.sig THEN arg.restart ELSE flag[s]
    BY DEF TypeOK
  <2>3. ASSUME NEW s \in Sigs, s = arg.sig PROVE Agreed(s)'
    BY <1>0, <1>00, <2>1, <2>2, <2>3, SigsInSlot, Names DEF Agreed, Held, Told, Sized, Deleting, Registration
  <2>4. ASSUME NEW s \in Sigs, s # arg.sig PROVE Agreed(s)'
    BY <1>0, <1>00, <2>2, <2>4, SigsInSlot DEF Agreed, Held, AllAgreed
  <2>5. QED
    BY <1>01, <2>3, <2>4 DEF AllAgreed, Changing, Setting, Deleting
<1>5. Masked'
  BY DEF Masked, Changing, Setting, Deleting, PcOfJob, Return, TypeOK
<1>6. Keeping' /\ Dropping' /\ Daemonized'
  <2> USE DEF TypeOK, Types
  <2>1. /\ \A s \in Sigs : want'[s] = IF s = arg.sig THEN arg.handler ELSE want[s]
        /\ \A s \in Sigs : flag'[s] = IF s = arg.sig THEN arg.restart ELSE flag[s]
    OBVIOUS
  <2>2. CASE job = "app"
    BY <2>2 DEF Keeping, Dropping, Daemonized, Return
  <2>3. CASE job = "ignore"
    <3>1. arg.sig = SIGHUP /\ arg.handler = "IGN" /\ pc' = "fork" /\ job' = "fork2"
      BY <2>3 DEF Return, ArgOfJob, Setting, NoArg
    <3>2. QED
      BY <1>1, <2>1, <2>3, <3>1 DEF Keeping, Dropping, Daemonized, Kept, Others, Ignored, SavedRight
  <2>4. CASE job = "restore"
    <3>1. arg.sig = SIGHUP /\ arg.handler = saved /\ pc' = "daemon" /\ job' = "app"
      BY <2>4 DEF Return, ArgOfJob, Changing, Setting, NoArg
    <3>2. sigsave /\ saved # "NULL" /\ saved = before.want[SIGHUP]
      BY <2>4, <3>1 DEF Dropping, Keeping, SavedRight, ArgOfJob, Setting, Registration
    <3>3. \A s \in Sigs : want'[s] = before.want[s]
      BY <2>1, <2>4, <3>1, <3>2 DEF Keeping, Kept, Others
    <3>4. want' = before.want
      BY <1>1, <3>3
    <3>5. QED
      BY <2>1, <2>4, <3>1, <3>2, <3>4 DEF Keeping, Dropping, Daemonized, Kept, Others, Masked
  <2>5. QED
    BY <2>2, <2>3, <2>4 DEF PcOfJob, Setting
<1>7. HandledRight' /\ HarmOnlyInRestore'
  BY ProcessStep
<1>8. QED
  BY <1>1, <1>2, <1>3, <1>4, <1>5, <1>6, <1>7

LEMMA AddCountStep ==
  ASSUME IInv, AddCount
  PROVE  IInv'
<1> USE DEF IInv, AddCount, At
<1>1. TypeOK' /\ Types'
  <2>1. arg.sig \in Nat /\ count \in Nat /\ count = nalloc /\ count <= arg.sig
    BY DEF TypeOK, Sized, Growing
  <2>2. count' \in Nat /\ nalloc' < count' /\ Growing' /\ ~Growing
    BY <2>1 DEF Growing
  <2>3. QED
    BY <2>2 DEF TypeOK, Types
<1>2. PcOfJob' /\ ArgOfJob'
  BY DEF PcOfJob, ArgOfJob, Setting, Deleting, Changing, NoArg
<1>3. Sized'
  BY SigsInSlot DEF Sized, Growing, Deleting, TypeOK, Types
<1>4. AllAgreed'
  BY SigsInSlot DEF AllAgreed, Agreed, Held, Changing, Setting, Deleting, Told, Sized, Growing, TypeOK, Types
<1>5. Masked'
  BY DEF Masked, Changing, Setting, Deleting, PcOfJob, TypeOK
<1>6. Keeping' /\ Dropping' /\ Daemonized'
  BY DEF Keeping, Dropping, Daemonized, Changing, Setting, Deleting, PcOfJob, Kept, Others, Ignored, SavedRight
<1>7. HandledRight' /\ HarmOnlyInRestore'
  BY ProcessStep
<1>8. QED
  BY <1>1, <1>2, <1>3, <1>4, <1>5, <1>6, <1>7

LEMMA AddReallocStep ==
  ASSUME IInv, AddRealloc
  PROVE  IInv'
<1> USE DEF IInv, AddRealloc, At
<1>1. TypeOK' /\ Types'
  BY SigsInSlot DEF TypeOK, Types, Growing
<1>2. PcOfJob' /\ ArgOfJob'
  BY DEF PcOfJob, ArgOfJob, Setting, Deleting, Changing, NoArg
<1>3. Sized'
  BY SigsInSlot DEF Sized, Growing, Deleting, TypeOK, Types
<1>4. AllAgreed'
  BY SigsInSlot DEF AllAgreed, Agreed, Held, Changing, Setting, Deleting, Told, Sized, Growing, TypeOK, Types
<1>5. Masked'
  BY DEF Masked, Changing, Setting, Deleting, PcOfJob, TypeOK
<1>6. Keeping' /\ Dropping' /\ Daemonized'
  BY DEF Keeping, Dropping, Daemonized, Changing, Setting, Deleting, PcOfJob, Kept, Others, Ignored, SavedRight
<1>7. HandledRight' /\ HarmOnlyInRestore'
  BY ProcessStep
<1>8. QED
  BY <1>1, <1>2, <1>3, <1>4, <1>5, <1>6, <1>7

LEMMA AddZeroStep ==
  ASSUME IInv, AddZero
  PROVE  IInv'
<1> USE DEF IInv, AddZero, At
<1>0. /\ count = arg.sig + 1 /\ nalloc < count /\ nalloc \in Nat /\ count \in Nat
      /\ arg.sig \in Sigs /\ arg.sig \in Nat
      /\ pc = "zero" /\ pc' = "used" /\ nalloc' = count /\ ~moving'
  BY DEF TypeOK, Sized, Growing
<1>00. /\ el' \in [Slot -> Element]
       /\ \A i \in Slot : el'[i] = IF i \in nalloc .. count - 1 THEN Free ELSE el[i]
  <2>1. Free \in Element
    BY DEF Free, Element
  <2>2. QED
    BY <2>1 DEF Types
<1>1. TypeOK' /\ Types'
  <2>1. Types'
    BY <1>00 DEF Types
  <2>2. \A i \in Slot : i < nalloc' => el'[i].handler # "junk"
    BY <1>0, <1>00, SigsInSlot DEF TypeOK, Free
  <2>3. ~Growing'
    BY <1>0 DEF Growing
  <2>4. QED
    BY <1>0, <2>1, <2>2, <2>3 DEF TypeOK
<1>2. PcOfJob' /\ ArgOfJob'
  BY DEF PcOfJob, ArgOfJob, Setting, Deleting, Changing, NoArg
<1>3. Sized'
  BY <1>0 DEF Sized, Growing, Deleting
<1>4. AllAgreed'
  <2>1. \A s \in Sigs : Held(s)' <=> Held(s)
    BY <1>0, <1>00, SigsInSlot DEF Held, Free
  <2>2. \A s \in Sigs : Held(s) => el'[s] = el[s]
    BY <1>0, <1>00, SigsInSlot DEF Held
  <2>3. ASSUME NEW s \in Sigs, Agreed(s) PROVE Agreed(s)'
    <3>1. CASE Held(s)
      BY <2>1, <2>2, <2>3, <3>1 DEF Agreed
    <3>2. CASE ~Held(s)
      BY <2>1, <2>3, <3>2, Names DEF Agreed
    <3>3. QED
      BY <3>1, <3>2
  <2>4. QED
    BY <2>3 DEF AllAgreed, Told, Changing, Setting, Deleting
<1>5. Masked'
  BY DEF Masked, Changing, Setting, Deleting, PcOfJob, TypeOK
<1>6. Keeping' /\ Dropping' /\ Daemonized'
  BY DEF Keeping, Dropping, Daemonized, Changing, Setting, Deleting, PcOfJob, Kept, Others, Ignored, SavedRight
<1>7. HandledRight' /\ HarmOnlyInRestore'
  BY ProcessStep
<1>8. QED
  BY <1>1, <1>2, <1>3, <1>4, <1>5, <1>6, <1>7

LEMMA SetUsedStep ==
  ASSUME IInv, SetUsed
  PROVE  IInv'
<1> USE DEF IInv, SetUsed, Store, At
<1>1. TypeOK' /\ Types'
  <2> DEFINE x == el[arg.sig]
             v == TRUE
             e == [x EXCEPT !.used = v]
  <2>1. arg.sig \in Slot /\ x \in Element /\ v \in BOOLEAN
    BY SigsInSlot DEF TypeOK, Types
  <2>2. /\ el' = [el EXCEPT ![arg.sig] = e]
        /\ UNCHANGED <<careful, alive, os, blocked, pending, count, nalloc, moving, arg,
                      job, sigsave, saved, todo, want, flag, before, served>>
        /\ ~Growing /\ ~Growing'
    BY DEF Growing
  <2> HIDE DEF x, v, SetUsed, Store
  <2>3. e \in Element /\ e.handler = x.handler
    BY <2>1 DEF Element
  <2> HIDE DEF e
  <2>4. e.handler = el[arg.sig].handler
    BY <2>3 DEF x
  <2>5. \A i \in Slot : el'[i].handler = el[i].handler
    BY <2>1, <2>2, <2>4 DEF Types
  <2>6. Types'
    BY <2>1, <2>2, <2>3 DEF Types
  <2>7. QED
    BY <2>2, <2>5, <2>6 DEF TypeOK
<1>2. PcOfJob' /\ ArgOfJob'
  BY DEF PcOfJob, ArgOfJob, Setting, Deleting, Changing, NoArg
<1>3. Sized'
  BY SigsInSlot DEF Sized, Growing, Deleting, TypeOK, Types
<1>4. AllAgreed'
  BY SigsInSlot DEF AllAgreed, Agreed, Held, Changing, Setting, Deleting, Told, Sized, Growing, TypeOK, Types
<1>5. Masked'
  BY DEF Masked, Changing, Setting, Deleting, PcOfJob, TypeOK
<1>6. Keeping' /\ Dropping' /\ Daemonized'
  BY DEF Keeping, Dropping, Daemonized, Changing, Setting, Deleting, PcOfJob, Kept, Others, Ignored, SavedRight
<1>7. HandledRight' /\ HarmOnlyInRestore'
  BY ProcessStep
<1>8. QED
  BY <1>1, <1>2, <1>3, <1>4, <1>5, <1>6, <1>7

LEMMA SetDataStep ==
  ASSUME IInv, SetData
  PROVE  IInv'
<1> USE DEF IInv, SetData, Store, At
<1>1. TypeOK' /\ Types'
  <2> DEFINE x == el[arg.sig]
             v == IF arg.handler = "IGN" THEN "NULL" ELSE arg.handler
             e == [x EXCEPT !.data = v]
  <2>1. arg.sig \in Slot /\ x \in Element /\ v \in Registration \cup {"NULL"}
    BY SigsInSlot DEF TypeOK, Types, ArgOfJob, Setting
  <2>2. /\ el' = [el EXCEPT ![arg.sig] = e]
        /\ UNCHANGED <<careful, alive, os, blocked, pending, count, nalloc, moving, arg,
                      job, sigsave, saved, todo, want, flag, before, served>>
        /\ ~Growing /\ ~Growing'
    BY DEF Growing
  <2> HIDE DEF x, v, SetData, Store
  <2>3. e \in Element /\ e.handler = x.handler
    BY <2>1 DEF Element
  <2> HIDE DEF e
  <2>4. e.handler = el[arg.sig].handler
    BY <2>3 DEF x
  <2>5. \A i \in Slot : el'[i].handler = el[i].handler
    BY <2>1, <2>2, <2>4 DEF Types
  <2>6. Types'
    BY <2>1, <2>2, <2>3 DEF Types
  <2>7. QED
    BY <2>2, <2>5, <2>6 DEF TypeOK
<1>2. PcOfJob' /\ ArgOfJob'
  BY DEF PcOfJob, ArgOfJob, Setting, Deleting, Changing, NoArg
<1>3. Sized'
  BY SigsInSlot DEF Sized, Growing, Deleting, TypeOK, Types
<1>4. AllAgreed'
  BY SigsInSlot DEF AllAgreed, Agreed, Held, Changing, Setting, Deleting, Told, Sized, Growing, TypeOK, Types
<1>5. Masked'
  BY DEF Masked, Changing, Setting, Deleting, PcOfJob, TypeOK
<1>6. Keeping' /\ Dropping' /\ Daemonized'
  BY DEF Keeping, Dropping, Daemonized, Changing, Setting, Deleting, PcOfJob, Kept, Others, Ignored, SavedRight
<1>7. HandledRight' /\ HarmOnlyInRestore'
  BY ProcessStep
<1>8. QED
  BY <1>1, <1>2, <1>3, <1>4, <1>5, <1>6, <1>7

LEMMA DelCallStep ==
  ASSUME IInv, NEW s \in Sigs, DelCall(s)
  PROVE  IInv'
<1> USE DEF IInv, DelCall, DelAction, Used, At
<1>0. /\ os' \in [Sigs -> Disposition]
      /\ os'[s] = [disp |-> "DFL", restart |-> FALSE]
      /\ \A t \in Sigs \ {s} : os'[t] = os[t]
      /\ arg' = [sig |-> s, handler |-> "NULL", restart |-> FALSE]
      /\ arg' \in [sig : Sigs, handler : {"NULL"} \cup Registration, restart : BOOLEAN]
  BY DelActionEffect
<1> HIDE DEF DelAction
<1>1. TypeOK' /\ Types'
  BY <1>0 DEF TypeOK, Types, Growing
<1>2. PcOfJob' /\ ArgOfJob'
  BY <1>0 DEF PcOfJob, ArgOfJob, Setting, Deleting, Changing
<1>3. Sized'
  BY <1>0 DEF Sized, Growing, Deleting, TypeOK
<1>4. AllAgreed'
  <2>1. ~Changing /\ Changing' /\ Told'
    BY <1>0 DEF Changing, Setting, Deleting, Told
  <2>2. QED
    BY <1>0, <2>1, TellKernel
<1>5. Masked'
  BY DEF Masked, Changing, Setting, Deleting, PcOfJob, TypeOK
<1>6. Keeping' /\ Dropping' /\ Daemonized'
  BY DEF Keeping, Dropping, Daemonized, Changing, Setting, Deleting, PcOfJob, Kept, Others, Ignored, SavedRight
<1>7. HandledRight' /\ HarmOnlyInRestore'
  BY ProcessStep
<1>8. QED
  BY <1>1, <1>2, <1>3, <1>4, <1>5, <1>6, <1>7

LEMMA DeleteStep ==
  ASSUME IInv, Delete
  PROVE  IInv'
<1> USE DEF IInv, Delete, DelZero, Return, At
<1>0. /\ el' \in [Slot -> Element]
      /\ el'[arg.sig] = Free
      /\ \A i \in Slot \ {arg.sig} : el'[i] = el[i]
      /\ want' \in [Sigs -> {"DFL"} \cup Registration]
      /\ flag' \in [Sigs -> BOOLEAN]
      /\ want'[arg.sig] = "DFL" /\ flag'[arg.sig] = FALSE
      /\ \A t \in Sigs \ {arg.sig} : want'[t] = want[t] /\ flag'[t] = flag[t]
      /\ arg.sig \in Sigs
  BY DelZeroEffect DEF TypeOK
<1> HIDE DEF DelZero
<1>00. /\ arg' = NoArg /\ arg'.sig \in Sigs /\ arg'.handler = "NULL"
       /\ arg' \in [sig : Sigs, handler : {"NULL"} \cup Registration, restart : BOOLEAN]
  BY DEF NoArg, Return
<1>1. TypeOK' /\ Types'
  <2>1. Types'
    BY <1>0, <1>00 DEF Types
  <2>2. \A i \in Slot : i < nalloc' => el'[i].handler # "junk"
    BY <1>0 DEF TypeOK, Free
  <2>3. job' \in {"app", "fork1", "ignore", "fork2", "restore"} /\ ~Growing /\ ~Growing'
    BY DEF TypeOK, Growing, Return, PcOfJob
  <2>4. QED
    BY <1>0, <1>00, <2>1, <2>2, <2>3 DEF TypeOK
<1>2. PcOfJob' /\ ArgOfJob'
  BY DEF PcOfJob, ArgOfJob, Setting, Deleting, Changing, NoArg
<1>3. Sized'
  BY DEF Sized, Growing, Deleting, Return, PcOfJob
<1>4. AllAgreed'
  <2>1. \A t \in Sigs \ {arg.sig} : Agreed(t)'
    BY <1>0, SigsInSlot DEF AllAgreed, Agreed, Held
  <2>2. ASSUME NEW t \in Sigs, t = arg.sig PROVE Agreed(t)'
    <3>1. os[arg.sig].disp = "DFL" /\ os[arg.sig].restart = FALSE
      BY DEF AllAgreed, Told, Changing, Deleting, ArgOfJob, Types
    <3>2. ~Held(t)'
      BY <1>0, <2>2 DEF Held, Free
    <3>3. QED
      BY <1>0, <2>2, <3>1, <3>2, Names DEF Agreed
  <2>3. QED
    BY <2>1, <2>2 DEF AllAgreed, Changing, Setting, Deleting, Return, PcOfJob
<1>5. Masked'
  BY DEF Masked, Changing, Setting, Deleting, PcOfJob, TypeOK
<1>6. Keeping' /\ Dropping' /\ Daemonized'
  <2>1. CASE job = "app"
    BY <2>1 DEF Keeping, Dropping, Daemonized, Return, ArgOfJob, Setting, Deleting
  <2>2. CASE job = "restore"
    <3>1. arg.sig = SIGHUP /\ pc' = "daemon" /\ job' = "app"
      BY <2>2 DEF Return, ArgOfJob, Changing, Deleting, NoArg
    <3>2. sigsave /\ saved = "NULL" /\ before.want[SIGHUP] = "DFL"
      BY <2>2 DEF Dropping, Keeping, SavedRight, Types, TypeOK, Registration
    <3>3. \A s \in Sigs : want'[s] = before.want[s]
      BY <1>0, <2>2, <3>1, <3>2 DEF Keeping, Kept, Others
    <3>4. want' = before.want
      BY <1>0, <3>3 DEF Types
    <3>5. QED
      BY <1>0, <2>2, <3>1, <3>2, <3>4 DEF Keeping, Dropping, Daemonized, Kept, Others, Masked
  <2>3. QED
    BY <2>1, <2>2 DEF PcOfJob, Setting
<1>7. HandledRight' /\ HarmOnlyInRestore'
  BY ProcessStep
<1>8. QED
  BY <1>1, <1>2, <1>3, <1>4, <1>5, <1>6, <1>7

(* The loop of nxs_proc_signal_clear: one more, or none in use *)
LEMMA ClearStep ==
  ASSUME IInv, Clear
  PROVE  IInv'
<1> USE DEF IInv, At
<1>0. /\ pc = "clear" /\ ~sigsave /\ job \in {"fork1", "fork2"} /\ ~Growing
      /\ alive = "yes" /\ inside = NoCall /\ ~Changing
      /\ UNCHANGED <<careful, alive, blocked, pending, table, job, sigsave, saved,
                    inside, hist>>
  BY DEF Clear, Keeping, PcOfJob, Growing, Changing, Setting, Deleting
<1>1. HandledRight' /\ HarmOnlyInRestore'
  BY <1>0, ProcessStep
<1>2. CASE /\ {s \in todo : Used(s)} = {}
           /\ todo' = {} /\ pc' = "unmask" /\ UNCHANGED <<os, arg>>
  <2>1. TypeOK' /\ Types' /\ PcOfJob' /\ ArgOfJob' /\ Sized'
    BY <1>0, <1>2 DEF TypeOK, Types, PcOfJob, ArgOfJob, Sized, Growing, Changing, Setting, Deleting
  <2>2. AllAgreed' /\ Masked'
    BY <1>0, <1>2 DEF AllAgreed, Agreed, Held, Masked, Changing, Setting, Deleting
  <2>3. \A s \in Sigs : want[s] = "DFL"
    <3>1. ASSUME NEW s \in todo PROVE want[s] = "DFL"
      <4>1. s \in Sigs /\ ~Held(s)
        BY <1>0, <1>2 DEF TypeOK, Used, Held
      <4>2. QED
        BY <1>0, <4>1 DEF AllAgreed, Agreed
    <3>2. QED
      BY <1>0, <3>1 DEF Dropping
  <2>4. Keeping' /\ Dropping' /\ Daemonized'
    BY <1>0, <1>2, <2>3 DEF Keeping, Dropping, Daemonized
  <2>5. QED
    BY <1>1, <2>1, <2>2, <2>4
<1>3. ASSUME NEW s \in todo, Used(s), DelAction(s), todo' = todo \ {s}, pc' = "clearing"
      PROVE  IInv'
  <2>1. s \in Sigs
    BY <1>3 DEF TypeOK
  <2>2. /\ os' \in [Sigs -> Disposition]
        /\ os'[s] = [disp |-> "DFL", restart |-> FALSE]
        /\ \A t \in Sigs \ {s} : os'[t] = os[t]
        /\ arg' = [sig |-> s, handler |-> "NULL", restart |-> FALSE]
        /\ arg' \in [sig : Sigs, handler : {"NULL"} \cup Registration, restart : BOOLEAN]
    BY <1>3, <2>1, DelActionEffect
  <2>3. TypeOK' /\ Types'
    BY <1>0, <1>3, <2>2 DEF TypeOK, Types, Growing
  <2>4. PcOfJob' /\ ArgOfJob'
    BY <1>0, <1>3, <2>2 DEF PcOfJob, ArgOfJob, Changing, Setting, Deleting
  <2>5. Sized'
    BY <1>0, <1>3, <2>2 DEF Sized, Growing, Deleting, Used
  <2>6. AllAgreed'
    <3>1. Changing' /\ Told'
      BY <1>3, <2>2 DEF Changing, Setting, Deleting, Told
    <3>2. QED
      BY <1>0, <2>1, <2>2, <3>1, TellKernel
  <2>7. Masked'
    BY <1>0, <1>3 DEF Masked, Changing, Setting, Deleting
  <2>8. Keeping' /\ Dropping' /\ Daemonized'
    BY <1>0, <1>3, <2>2 DEF Keeping, Dropping, Daemonized
  <2>9. QED
    BY <1>1, <2>3, <2>4, <2>5, <2>6, <2>7, <2>8
<1>4. QED
  BY <1>2, <1>3 DEF Clear

LEMMA ClearingStep ==
  ASSUME IInv, Clearing
  PROVE  IInv'
<1> USE DEF IInv, Clearing, DelZero, At
<1>0. /\ el' \in [Slot -> Element]
      /\ el'[arg.sig] = Free
      /\ \A i \in Slot \ {arg.sig} : el'[i] = el[i]
      /\ want' \in [Sigs -> {"DFL"} \cup Registration]
      /\ flag' \in [Sigs -> BOOLEAN]
      /\ want'[arg.sig] = "DFL" /\ flag'[arg.sig] = FALSE
      /\ \A t \in Sigs \ {arg.sig} : want'[t] = want[t] /\ flag'[t] = flag[t]
      /\ arg.sig \in Sigs
  BY DelZeroEffect DEF TypeOK
<1> HIDE DEF DelZero
<1>00. /\ arg' = NoArg /\ arg'.sig \in Sigs /\ arg'.handler = "NULL"
       /\ arg' \in [sig : Sigs, handler : {"NULL"} \cup Registration, restart : BOOLEAN]
  BY DEF NoArg
<1>1. TypeOK' /\ Types'
  <2>1. Types'
    BY <1>0, <1>00 DEF Types
  <2>2. \A i \in Slot : i < nalloc' => el'[i].handler # "junk"
    BY <1>0 DEF TypeOK, Free
  <2>3. job' \in {"app", "fork1", "ignore", "fork2", "restore"} /\ ~Growing /\ ~Growing'
    BY DEF TypeOK, Growing
  <2>4. QED
    BY <1>0, <1>00, <2>1, <2>2, <2>3 DEF TypeOK
<1>2. PcOfJob' /\ ArgOfJob'
  BY DEF PcOfJob, ArgOfJob, Setting, Deleting, Changing, NoArg
<1>3. Sized'
  BY SigsInSlot DEF Sized, Growing, Deleting, TypeOK, Types
<1>4. AllAgreed'
  <2>1. \A t \in Sigs \ {arg.sig} : Agreed(t)'
    BY <1>0, SigsInSlot DEF AllAgreed, Agreed, Held
  <2>2. ASSUME NEW t \in Sigs, t = arg.sig PROVE Agreed(t)'
    <3>1. os[arg.sig].disp = "DFL" /\ os[arg.sig].restart = FALSE
      BY DEF AllAgreed, Told, Changing, Deleting, ArgOfJob, Types
    <3>2. ~Held(t)'
      BY <1>0, <2>2 DEF Held, Free
    <3>3. QED
      BY <1>0, <2>2, <3>1, <3>2, Names DEF Agreed
  <2>3. QED
    BY <2>1, <2>2 DEF AllAgreed, Changing, Setting, Deleting
<1>5. Masked'
  BY DEF Masked, Changing, Setting, Deleting, PcOfJob, TypeOK
<1>6. Keeping' /\ Dropping' /\ Daemonized'
  <2>1. ~sigsave /\ job \in {"fork1", "fork2"}
    BY DEF Keeping, PcOfJob
  <2>2. \A s \in Sigs \ todo : want'[s] = "DFL"
    BY <1>0, <2>1 DEF Dropping
  <2>3. QED
    BY <2>1, <2>2 DEF Keeping, Dropping, Daemonized
<1>7. HandledRight' /\ HarmOnlyInRestore'
  BY ProcessStep
<1>8. QED
  BY <1>1, <1>2, <1>3, <1>4, <1>5, <1>6, <1>7

LEMMA DaemonCallStep ==
  ASSUME IInv, NEW save \in BOOLEAN, DaemonCall(save)
  PROVE  IInv'
<1> USE DEF IInv, DaemonCall, At
<1>1. TypeOK' /\ Types'
  BY SigsInSlot DEF TypeOK, Types, Growing
<1>2. PcOfJob' /\ ArgOfJob'
  BY DEF PcOfJob, ArgOfJob, Setting, Deleting, Changing, NoArg
<1>3. Sized'
  BY SigsInSlot DEF Sized, Growing, Deleting, TypeOK, Types
<1>4. AllAgreed'
  BY SigsInSlot DEF AllAgreed, Agreed, Held, Changing, Setting, Deleting, Told, Sized, Growing, TypeOK, Types
<1>5. Masked'
  BY DEF Masked, Changing, Setting, Deleting, PcOfJob, TypeOK
<1>6. Keeping' /\ Dropping' /\ Daemonized'
  BY DEF Keeping, Dropping, Daemonized, PcOfJob, ArgOfJob, Kept
<1>7. HandledRight' /\ HarmOnlyInRestore'
  BY ProcessStep
<1>8. QED
  BY <1>1, <1>2, <1>3, <1>4, <1>5, <1>6, <1>7

(* nxs_proc_daemonize returns, at its end or early. *)
LEMMA DaemonEndStep ==
  ASSUME IInv, alive = "yes", inside = NoCall, pc \in {"fork", "save", "daemon"},
         DaemonEnd,
         UNCHANGED <<careful, alive, os, blocked, pending, table, arg, todo, inside,
                     want, flag, served>>
  PROVE  IInv'
<1> USE DEF IInv, DaemonEnd
<1>1. before' \in [want : [Sigs -> {"DFL"} \cup Registration], flag : [Sigs -> BOOLEAN]]
  BY DEF NotDaemon
<1>2. TypeOK' /\ Types'
  BY <1>1 DEF TypeOK, Types, Growing
<1>3. PcOfJob' /\ ArgOfJob' /\ Sized'
  BY DEF PcOfJob, ArgOfJob, Sized, Growing, Changing, Setting, Deleting
<1>4. AllAgreed' /\ Masked'
  BY DEF AllAgreed, Agreed, Held, Masked, Changing, Setting, Deleting
<1>5. Keeping' /\ Dropping' /\ Daemonized'
  BY DEF Keeping, Dropping, Daemonized
<1>6. HandledRight' /\ HarmOnlyInRestore'
  BY ProcessStep
<1>7. QED
  BY <1>2, <1>3, <1>4, <1>5, <1>6

LEMMA ForkStep ==
  ASSUME IInv, Fork
  PROVE  IInv'
<1> USE DEF IInv, At
<1>0. /\ pc = "fork" /\ alive = "yes" /\ inside = NoCall
      /\ UNCHANGED <<careful, alive, os, blocked, table, arg, inside, want, flag, served>>
  BY DEF Fork
<1>1. CASE DaemonEnd /\ UNCHANGED <<pending, todo>>
  BY <1>0, <1>1, DaemonEndStep
<1>2. CASE /\ pending' = {}
           /\ IF sigsave THEN pc' = "unmask" /\ todo' = {} ELSE pc' = "clear" /\ todo' = Sigs
           /\ UNCHANGED <<job, sigsave, saved, before>>
  <2>1. TypeOK' /\ Types'
    BY <1>0, <1>2 DEF TypeOK, Types, Growing
  <2>2. PcOfJob' /\ ArgOfJob' /\ Sized'
    BY <1>0, <1>2 DEF PcOfJob, ArgOfJob, Sized, Growing, Changing, Setting, Deleting
  <2>3. AllAgreed' /\ Masked'
    BY <1>0, <1>2 DEF AllAgreed, Agreed, Held, Masked, Changing, Setting, Deleting
  <2>4. Keeping' /\ Dropping' /\ Daemonized'
    BY <1>0, <1>2 DEF Keeping, Dropping, Daemonized, Kept, Ignored, SavedRight, PcOfJob
  <2>5. QED
    BY <1>0, <2>1, <2>2, <2>3, <2>4, ProcessStep
<1>3. QED
  BY <1>1, <1>2 DEF Fork

LEMMA UnmaskStep ==
  ASSUME IInv, Unmask
  PROVE  IInv'
<1> USE DEF IInv, Unmask, At
<1>1. TypeOK' /\ Types'
  BY SigsInSlot DEF TypeOK, Types, Growing
<1>2. PcOfJob' /\ ArgOfJob'
  BY DEF PcOfJob, ArgOfJob, Setting, Deleting, Changing, NoArg
<1>3. Sized'
  BY SigsInSlot DEF Sized, Growing, Deleting, TypeOK, Types
<1>4. AllAgreed'
  BY SigsInSlot DEF AllAgreed, Agreed, Held, Changing, Setting, Deleting, Told, Sized, Growing, TypeOK, Types
<1>5. Masked'
  BY DEF Masked, Changing, Setting, Deleting, PcOfJob, TypeOK
<1>6. Keeping' /\ Dropping' /\ Daemonized'
  BY DEF Keeping, Dropping, Daemonized, Changing, Setting, Deleting, PcOfJob, Kept, Others, Ignored, SavedRight
<1>7. HandledRight' /\ HarmOnlyInRestore'
  BY ProcessStep
<1>8. QED
  BY <1>1, <1>2, <1>3, <1>4, <1>5, <1>6, <1>7

LEMMA IgnoreHupStep ==
  ASSUME IInv, IgnoreHup
  PROVE  IInv'
<1> USE DEF IInv, At
<1>0. /\ pc = "save" /\ job = "fork1" /\ alive = "yes" /\ inside = NoCall
      /\ ~Growing /\ ~Changing
      /\ UNCHANGED <<careful, alive, blocked, table, todo, inside, want, flag, served>>
  BY DEF IgnoreHup, PcOfJob, Growing, Changing, Setting, Deleting
<1>1. CASE DaemonEnd /\ UNCHANGED <<os, pending, arg>>
  BY <1>0, <1>1, DaemonEndStep
<1>2. CASE /\ saved' = IF sigsave /\ Used(SIGHUP) THEN el[SIGHUP].handler ELSE "NULL"
           /\ job' = "ignore"
           /\ SetAction(SIGHUP, "IGN", FALSE)
           /\ UNCHANGED <<sigsave, before>>
  <2>0. /\ os' \in [Sigs -> Disposition]
        /\ os'[SIGHUP] = [disp |-> IF "IGN" = "IGN" THEN "IGN" ELSE "CATCH", restart |-> FALSE]
        /\ \A t \in Sigs \ {SIGHUP} : os'[t] = os[t]
        /\ pending' \subseteq Sigs
        /\ arg' = [sig |-> SIGHUP, handler |-> "IGN", restart |-> FALSE]
        /\ arg' \in [sig : Sigs, handler : {"NULL"} \cup Registration, restart : BOOLEAN]
        /\ pc' = IF SIGHUP >= count THEN "count" ELSE "used"
    BY <1>2, SetActionEffect DEF Registration
  <2>1. saved' = IF sigsave /\ want[SIGHUP] # "DFL" THEN want[SIGHUP] ELSE "NULL"
    <3>1. Agreed(SIGHUP) /\ (Held(SIGHUP) <=> Used(SIGHUP))
      BY <1>0 DEF AllAgreed, Held, Used, TypeOK
    <3>2. want[SIGHUP] \in {"DFL"} \cup Registration
      BY DEF TypeOK
    <3>3. CASE Used(SIGHUP)
      <4>1. want[SIGHUP] = el[SIGHUP].handler /\ el[SIGHUP] \in Element
        BY <3>1, <3>3, SigsInSlot DEF Agreed, Types
      <4>2. el[SIGHUP].handler # "DFL"
        BY <4>1, Names DEF Element, Registration
      <4>3. QED
        BY <1>2, <3>3, <4>1, <4>2
    <3>4. CASE ~Used(SIGHUP)
      BY <1>2, <3>1, <3>4 DEF Agreed
    <3>5. QED
      BY <3>3, <3>4
  <2>2. saved' \in {"NULL"} \cup Registration
    BY <2>1 DEF TypeOK
  <2>3. TypeOK' /\ Types'
    BY <1>0, <1>2, <2>0, <2>2 DEF TypeOK, Types, Growing
  <2>4. PcOfJob' /\ ArgOfJob'
    BY <1>0, <1>2, <2>0 DEF PcOfJob, ArgOfJob, Changing, Setting, Deleting, Registration, NoArg
  <2>5. Sized'
    <3>1. SIGHUP \in Nat /\ count \in Nat /\ pc' \in {"count", "used"} /\ ~moving
      BY <1>0, <2>0 DEF TypeOK, Sized
    <3>2. pc' = "count" => count' <= arg'.sig
      BY <1>0, <2>0, <3>1
    <3>3. pc' = "used" => arg'.sig < count'
      BY <1>0, <2>0, <3>1
    <3>4. QED
      BY <1>0, <3>1, <3>2, <3>3 DEF Sized, Growing, Deleting
  <2>6. AllAgreed'
    <3>1. Changing' /\ Told'
      BY <2>0 DEF Changing, Setting, Deleting, Told
    <3>2. QED
      BY <1>0, <2>0, <3>1, TellKernel
  <2>7. Masked'
    BY <1>0, <1>2, <2>0 DEF Masked, Changing, Setting, Deleting
  <2>8. Keeping' /\ Dropping' /\ Daemonized'
    BY <1>0, <1>2, <2>0, <2>1 DEF Keeping, Dropping, Daemonized, Kept, SavedRight
  <2>9. QED
    BY <1>0, <2>3, <2>4, <2>5, <2>6, <2>7, <2>8, ProcessStep
<1>3. QED
  BY <1>1, <1>2 DEF IgnoreHup

(* In a daemon that keeps its handlers SIGHUP is ignored up to here. *)
LEMMA RestoreHupStep ==
  ASSUME IInv, RestoreHup
  PROVE  IInv'
<1> USE DEF IInv, At
<1>0. /\ pc = "restore" /\ job = "fork2" /\ alive = "yes" /\ inside = NoCall
      /\ ~Growing /\ ~Changing /\ blocked = {}
      /\ UNCHANGED <<careful, alive, blocked, table, sigsave, saved, todo, inside, hist>>
  BY DEF RestoreHup, PcOfJob, Growing, Changing, Setting, Deleting, Masked
<1>1. /\ Used(SIGHUP) => want[SIGHUP] = el[SIGHUP].handler /\ want[SIGHUP] # "DFL"
      /\ ~Used(SIGHUP) => want[SIGHUP] = "DFL"
  <2>1. Agreed(SIGHUP) /\ (Held(SIGHUP) <=> Used(SIGHUP))
    BY <1>0 DEF AllAgreed, Held, Used, TypeOK
  <2>2. el[SIGHUP] \in Element
    BY SigsInSlot DEF Types
  <2>3. QED
    BY <2>1, <2>2, Names DEF Agreed, Element, Registration
<1>2. (sigsave <=> Used(SIGHUP)) /\ (sigsave => el[SIGHUP].handler = "IGN")
  BY <1>0, <1>1 DEF Keeping, Dropping, Ignored
<1>3. HandledRight' /\ HarmOnlyInRestore'
  BY <1>0, ProcessStep
<1>4. CASE saved # "NULL" /\ SetAction(SIGHUP, saved, FALSE) /\ job' = "restore"
  <2>0. sigsave /\ saved \in Registration /\ Used(SIGHUP)
    BY <1>2, <1>4 DEF Dropping, TypeOK
  <2>1. /\ os' \in [Sigs -> Disposition]
        /\ os'[SIGHUP] = [disp |-> IF saved = "IGN" THEN "IGN" ELSE "CATCH", restart |-> FALSE]
        /\ \A t \in Sigs \ {SIGHUP} : os'[t] = os[t]
        /\ pending' \subseteq Sigs
        /\ arg' = [sig |-> SIGHUP, handler |-> saved, restart |-> FALSE]
        /\ arg' \in [sig : Sigs, handler : {"NULL"} \cup Registration, restart : BOOLEAN]
        /\ pc' = IF SIGHUP >= count THEN "count" ELSE "used"
    BY <1>4, <2>0, SetActionEffect
  <2>2. pc' = "used"
    BY <2>0, <2>1 DEF Used, TypeOK
  <2>3. TypeOK' /\ Types'
    BY <1>0, <1>4, <2>1, <2>2 DEF TypeOK, Types, Growing
  <2>4. PcOfJob' /\ ArgOfJob'
    BY <1>0, <1>4, <2>0, <2>1, <2>2 DEF PcOfJob, ArgOfJob, Changing, Setting, Deleting, NoArg
  <2>5. Sized'
    BY <1>0, <2>0, <2>1, <2>2 DEF Sized, Growing, Deleting, Used
  <2>6. AllAgreed'
    <3>1. Changing' /\ Told'
      BY <2>1, <2>2 DEF Changing, Setting, Deleting, Told
    <3>2. QED
      BY <1>0, <2>1, <3>1, TellKernel
  <2>7. Masked'
    BY <1>0, <1>4, <2>2 DEF Masked, Changing, Setting, Deleting
  <2>8. Keeping' /\ Dropping' /\ Daemonized'
    BY <1>0, <1>2, <1>4, <2>0, <2>2 DEF Keeping, Dropping, Daemonized, Kept, SavedRight, Setting, Used, Ignored
  <2>9. QED
    BY <1>3, <2>3, <2>4, <2>5, <2>6, <2>7, <2>8
<1>5. CASE /\ saved = "NULL" /\ Used(SIGHUP) /\ DelAction(SIGHUP)
           /\ pc' = "delete" /\ job' = "restore" /\ UNCHANGED pending
  <2>1. /\ os' \in [Sigs -> Disposition]
        /\ os'[SIGHUP] = [disp |-> "DFL", restart |-> FALSE]
        /\ \A t \in Sigs \ {SIGHUP} : os'[t] = os[t]
        /\ arg' = [sig |-> SIGHUP, handler |-> "NULL", restart |-> FALSE]
        /\ arg' \in [sig : Sigs, handler : {"NULL"} \cup Registration, restart : BOOLEAN]
    BY <1>5, DelActionEffect
  <2>3. TypeOK' /\ Types'
    BY <1>0, <1>5, <2>1 DEF TypeOK, Types, Growing
  <2>4. PcOfJob' /\ ArgOfJob'
    BY <1>0, <1>5, <2>1 DEF PcOfJob, ArgOfJob, Changing, Setting, Deleting, NoArg
  <2>5. Sized'
    BY <1>0, <1>5, <2>1 DEF Sized, Growing, Deleting, Used
  <2>6. AllAgreed'
    <3>1. Changing' /\ Told'
      BY <1>5, <2>1 DEF Changing, Setting, Deleting, Told
    <3>2. QED
      BY <1>0, <2>1, <3>1, TellKernel
  <2>7. Masked'
    BY <1>0, <1>5 DEF Masked, Changing, Setting, Deleting
  <2>8. Keeping' /\ Dropping' /\ Daemonized'
    BY <1>0, <1>2, <1>5 DEF Keeping, Dropping, Daemonized, Kept, SavedRight, Setting, Ignored
  <2>9. QED
    BY <1>3, <2>3, <2>4, <2>5, <2>6, <2>7, <2>8
<1>6. CASE /\ saved = "NULL" /\ ~Used(SIGHUP)
           /\ pc' = "daemon" /\ job' = "app" /\ UNCHANGED <<os, pending, arg>>
  <2>1. TypeOK' /\ Types'
    BY <1>0, <1>6 DEF TypeOK, Types, Growing
  <2>2. PcOfJob' /\ ArgOfJob' /\ Sized'
    BY <1>0, <1>6 DEF PcOfJob, ArgOfJob, Sized, Growing, Changing, Setting, Deleting
  <2>3. AllAgreed' /\ Masked'
    BY <1>0, <1>6 DEF AllAgreed, Agreed, Held, Masked, Changing, Setting, Deleting
  <2>4. Keeping' /\ Dropping' /\ Daemonized'
    <3>1. ~sigsave /\ \A s \in Sigs : want[s] = "DFL"
      BY <1>0, <1>2, <1>6 DEF Dropping
    <3>2. want = [s \in Sigs |-> "DFL"]
      BY <3>1 DEF TypeOK
    <3>3. QED
      BY <1>0, <1>6, <3>1, <3>2 DEF Keeping, Dropping, Daemonized
  <2>5. QED
    BY <1>3, <2>1, <2>2, <2>3, <2>4
<1>7. QED
  BY <1>4, <1>5, <1>6 DEF RestoreHup

LEMMA DaemonReturnStep ==
  ASSUME IInv, DaemonReturn
  PROVE  IInv'
BY DaemonEndStep DEF DaemonReturn, At

LEMMA BlockStep ==
  ASSUME IInv, Block
  PROVE  IInv'
<1> USE DEF IInv, Block, At
<1>1. TypeOK' /\ Types'
  BY SigsInSlot DEF TypeOK, Types, Growing
<1>2. PcOfJob' /\ ArgOfJob'
  BY DEF PcOfJob, ArgOfJob, Setting, Deleting, Changing, NoArg
<1>3. Sized'
  BY SigsInSlot DEF Sized, Growing, Deleting, TypeOK, Types
<1>4. AllAgreed'
  BY SigsInSlot DEF AllAgreed, Agreed, Held, Changing, Setting, Deleting, Told, Sized, Growing, TypeOK, Types
<1>5. Masked'
  BY DEF Masked, Changing, Setting, Deleting, PcOfJob, TypeOK
<1>6. Keeping' /\ Dropping' /\ Daemonized'
  BY DEF Keeping, Dropping, Daemonized, Changing, Setting, Deleting, PcOfJob, Kept, Others, Ignored, SavedRight
<1>7. HandledRight' /\ HarmOnlyInRestore'
  BY ProcessStep
<1>8. QED
  BY <1>1, <1>2, <1>3, <1>4, <1>5, <1>6, <1>7

LEMMA UnblockStep ==
  ASSUME IInv, Unblock
  PROVE  IInv'
<1> USE DEF IInv, Unblock, At
<1>1. TypeOK' /\ Types'
  BY SigsInSlot DEF TypeOK, Types, Growing
<1>2. PcOfJob' /\ ArgOfJob'
  BY DEF PcOfJob, ArgOfJob, Setting, Deleting, Changing, NoArg
<1>3. Sized'
  BY SigsInSlot DEF Sized, Growing, Deleting, TypeOK, Types
<1>4. AllAgreed'
  BY SigsInSlot DEF AllAgreed, Agreed, Held, Changing, Setting, Deleting, Told, Sized, Growing, TypeOK, Types
<1>5. Masked'
  BY DEF Masked, Changing, Setting, Deleting, PcOfJob, TypeOK
<1>6. Keeping' /\ Dropping' /\ Daemonized'
  BY DEF Keeping, Dropping, Daemonized, Changing, Setting, Deleting, PcOfJob, Kept, Others, Ignored, SavedRight
<1>7. HandledRight' /\ HarmOnlyInRestore'
  BY ProcessStep
<1>8. QED
  BY <1>1, <1>2, <1>3, <1>4, <1>5, <1>6, <1>7

LEMMA AcceptCallStep ==
  ASSUME IInv, AcceptCall
  PROVE  IInv'
<1> USE DEF IInv, AcceptCall, At
<1>1. TypeOK' /\ Types'
  BY SigsInSlot DEF TypeOK, Types, Growing
<1>2. PcOfJob' /\ ArgOfJob'
  BY DEF PcOfJob, ArgOfJob, Setting, Deleting, Changing, NoArg
<1>3. Sized'
  BY SigsInSlot DEF Sized, Growing, Deleting, TypeOK, Types
<1>4. AllAgreed'
  BY SigsInSlot DEF AllAgreed, Agreed, Held, Changing, Setting, Deleting, Told, Sized, Growing, TypeOK, Types
<1>5. Masked'
  BY DEF Masked, Changing, Setting, Deleting, PcOfJob, TypeOK
<1>6. Keeping' /\ Dropping' /\ Daemonized'
  BY DEF Keeping, Dropping, Daemonized, Changing, Setting, Deleting, PcOfJob, Kept, Others, Ignored, SavedRight
<1>7. HandledRight' /\ HarmOnlyInRestore'
  BY ProcessStep
<1>8. QED
  BY <1>1, <1>2, <1>3, <1>4, <1>5, <1>6, <1>7

LEMMA AcceptUnblockStep ==
  ASSUME IInv, AcceptUnblock
  PROVE  IInv'
<1> USE DEF IInv, AcceptUnblock, At
<1>1. TypeOK' /\ Types'
  BY SigsInSlot DEF TypeOK, Types, Growing
<1>2. PcOfJob' /\ ArgOfJob'
  BY DEF PcOfJob, ArgOfJob, Setting, Deleting, Changing, NoArg
<1>3. Sized'
  BY SigsInSlot DEF Sized, Growing, Deleting, TypeOK, Types
<1>4. AllAgreed'
  BY SigsInSlot DEF AllAgreed, Agreed, Held, Changing, Setting, Deleting, Told, Sized, Growing, TypeOK, Types
<1>5. Masked'
  BY DEF Masked, Changing, Setting, Deleting, PcOfJob, TypeOK
<1>6. Keeping' /\ Dropping' /\ Daemonized'
  BY DEF Keeping, Dropping, Daemonized, Changing, Setting, Deleting, PcOfJob, Kept, Others, Ignored, SavedRight
<1>7. HandledRight' /\ HarmOnlyInRestore'
  BY ProcessStep
<1>8. QED
  BY <1>1, <1>2, <1>3, <1>4, <1>5, <1>6, <1>7

LEMMA AcceptedStep ==
  ASSUME IInv, Accepted
  PROVE  IInv'
<1> USE DEF IInv, Accepted, At
<1>1. TypeOK' /\ Types'
  BY SigsInSlot DEF TypeOK, Types, Growing
<1>2. PcOfJob' /\ ArgOfJob'
  BY DEF PcOfJob, ArgOfJob, Setting, Deleting, Changing, NoArg
<1>3. Sized'
  BY SigsInSlot DEF Sized, Growing, Deleting, TypeOK, Types
<1>4. AllAgreed'
  BY SigsInSlot DEF AllAgreed, Agreed, Held, Changing, Setting, Deleting, Told, Sized, Growing, TypeOK, Types
<1>5. Masked'
  BY DEF Masked, Changing, Setting, Deleting, PcOfJob, TypeOK
<1>6. Keeping' /\ Dropping' /\ Daemonized'
  BY DEF Keeping, Dropping, Daemonized, Changing, Setting, Deleting, PcOfJob, Kept, Others, Ignored, SavedRight
<1>7. HandledRight' /\ HarmOnlyInRestore'
  BY ProcessStep
<1>8. QED
  BY <1>1, <1>2, <1>3, <1>4, <1>5, <1>6, <1>7

LEMMA AcceptBlockStep ==
  ASSUME IInv, AcceptBlock
  PROVE  IInv'
<1> USE DEF IInv, AcceptBlock, At
<1>1. TypeOK' /\ Types'
  BY SigsInSlot DEF TypeOK, Types, Growing
<1>2. PcOfJob' /\ ArgOfJob'
  BY DEF PcOfJob, ArgOfJob, Setting, Deleting, Changing, NoArg
<1>3. Sized'
  BY SigsInSlot DEF Sized, Growing, Deleting, TypeOK, Types
<1>4. AllAgreed'
  BY SigsInSlot DEF AllAgreed, Agreed, Held, Changing, Setting, Deleting, Told, Sized, Growing, TypeOK, Types
<1>5. Masked'
  BY DEF Masked, Changing, Setting, Deleting, PcOfJob, TypeOK
<1>6. Keeping' /\ Dropping' /\ Daemonized'
  BY DEF Keeping, Dropping, Daemonized, Changing, Setting, Deleting, PcOfJob, Kept, Others, Ignored, SavedRight
<1>7. HandledRight' /\ HarmOnlyInRestore'
  BY ProcessStep
<1>8. QED
  BY <1>1, <1>2, <1>3, <1>4, <1>5, <1>6, <1>7

LEMMA RaiseStep ==
  ASSUME IInv, NEW s \in Sigs, Raise(s)
  PROVE  IInv'
<1> USE DEF IInv, Raise
<1>1. TypeOK' /\ Types'
  BY SigsInSlot DEF TypeOK, Types, Growing
<1>2. PcOfJob' /\ ArgOfJob'
  BY DEF PcOfJob, ArgOfJob, Setting, Deleting, Changing, NoArg
<1>3. Sized'
  BY SigsInSlot DEF Sized, Growing, Deleting, TypeOK, Types
<1>4. AllAgreed'
  BY SigsInSlot DEF AllAgreed, Agreed, Held, Changing, Setting, Deleting, Told, Sized, Growing, TypeOK, Types
<1>5. Masked'
  BY DEF Masked, Changing, Setting, Deleting, PcOfJob, TypeOK
<1>6. Keeping' /\ Dropping' /\ Daemonized'
  BY DEF Keeping, Dropping, Daemonized, Changing, Setting, Deleting, PcOfJob, Kept, Others, Ignored, SavedRight
<1>7. HandledRight' /\ HarmOnlyInRestore'
  BY DEF HandledRight, OwnHandler, AcceptOnly, HarmOnlyInRestore
<1>8. QED
  BY <1>1, <1>2, <1>3, <1>4, <1>5, <1>6, <1>7

LEMMA HandlerReturnStep ==
  ASSUME IInv, HandlerReturn
  PROVE  IInv'
<1> USE DEF IInv, HandlerReturn
<1>1. TypeOK' /\ Types'
  BY DEF TypeOK, Types, Growing
<1>2. PcOfJob' /\ ArgOfJob' /\ Sized'
  BY DEF PcOfJob, ArgOfJob, Sized, Growing, Changing, Setting, Deleting
<1>3. AllAgreed'
  BY DEF AllAgreed, Agreed, Held, Told, Changing, Setting, Deleting
<1>4. Masked'
  BY DEF Masked, Changing, Setting, Deleting
<1>5. Keeping' /\ Dropping' /\ Daemonized'
  BY DEF Keeping, Dropping, Daemonized, Kept, SavedRight, Ignored, Others, Setting
<1>6. HandledRight' /\ HarmOnlyInRestore'
  BY DEF HandledRight, OwnHandler, AcceptOnly, HarmOnlyInRestore
<1>7. QED
  BY <1>1, <1>2, <1>3, <1>4, <1>5, <1>6

(* What a signal that is caught finds, under a careful application: the    *)
(* handler asked for last, or, while SIGHUP gets its handler back, "IGN".  *)
LEMMA FindsRight ==
  ASSUME IInv, careful, NEW s \in Sigs, s \notin blocked, os[s].disp = "CATCH"
  PROVE  /\ Found(s) = {el[s]} /\ el[s].used
         /\ \/ el[s].handler = want[s] /\ want[s] \in Apps /\ el[s].data = want[s]
            \/ job = "restore" /\ el[s].handler = "IGN"
<1> USE DEF IInv
<1>1. s \in Nat /\ count \in Nat /\ nalloc \in Nat /\ SIGHUP \in Nat /\ SIGHUP <= s
  BY DEF TypeOK
<1>2. ~(Changing /\ job = "app")
  BY DEF Masked
<1>3. ASSUME Held(s), ~Growing PROVE Found(s) = {el[s]} /\ el[s].used
  <2>1. count = nalloc /\ s < nalloc /\ ~moving /\ el[s].used
    BY <1>3 DEF TypeOK, Held, Sized, Growing
  <2>2. QED
    BY <1>1, <2>1 DEF Found
<1>4. CASE Changing /\ s = arg.sig
  <2>1. ~Deleting /\ arg.handler # "IGN"
    BY <1>4 DEF AllAgreed, Told
  <2>2. Setting /\ job = "restore"
    BY <1>2, <1>4, <2>1 DEF Changing, PcOfJob, ArgOfJob
  <2>3. /\ sigsave /\ s = SIGHUP /\ ~Growing /\ s < count
        /\ el[s].used /\ el[s].handler = "IGN"
    BY <1>4, <2>2 DEF Dropping, Keeping, ArgOfJob, Growing, Sized, Deleting
  <2>4. Held(s)
    BY <2>3 DEF Held, TypeOK
  <2>5. QED
    BY <1>3, <2>2, <2>3, <2>4
<1>5. CASE ~(Changing /\ s = arg.sig)
  <2>1. Agreed(s)
    BY <1>5 DEF AllAgreed
  <2>2. want[s] \in Apps /\ Held(s) /\ el[s].handler = want[s] /\ el[s].data = want[s]
    BY <2>1, Names DEF Agreed, TypeOK, Registration
  <2>3. ~Growing
    <3>1. SUFFICES ASSUME Growing PROVE FALSE
      OBVIOUS
    <3>2. Setting /\ nalloc < count /\ count = arg.sig + 1
      BY <3>1 DEF Growing, Setting, TypeOK, Sized
    <3>3. arg.sig = SIGHUP
      BY <1>2, <3>2 DEF PcOfJob, ArgOfJob, Changing
    <3>4. QED
      BY <1>1, <2>2, <3>2, <3>3 DEF Held
  <2>4. QED
    BY <1>3, <2>2, <2>3
<1>6. QED
  BY <1>4, <1>5

LEMMA DeliverStep ==
  ASSUME IInv, NEW s \in Sigs, Deliver(s)
  PROVE  IInv'
<1> USE DEF IInv
<1>0. /\ alive = "yes" /\ inside = NoCall /\ s \in pending \ blocked
      /\ pending' = pending \ {s}
      /\ UNCHANGED <<careful, os, blocked, table, calls, hist>>
      /\ alive' \in {"yes", "killed", "crashed"}
  BY DEF Deliver
<1>1. TypeOK' /\ Types'
  BY <1>0 DEF TypeOK, Types, Growing
<1>2. PcOfJob' /\ ArgOfJob' /\ Sized'
  BY <1>0 DEF PcOfJob, ArgOfJob, Sized, Growing, Changing, Setting, Deleting
<1>3. AllAgreed'
  BY <1>0 DEF AllAgreed, Agreed, Held, Told, Changing, Setting, Deleting
<1>4. Masked'
  BY <1>0 DEF Masked, Changing, Setting, Deleting
<1>5. Keeping' /\ Dropping' /\ Daemonized'
  BY <1>0 DEF Keeping, Dropping, Daemonized, Kept, SavedRight, Ignored, Others, Setting
<1>6. AcceptOnly'
  <2>1. inside' # NoCall => inside'.sig = s
    BY <1>0 DEF Deliver
  <2>2. QED
    BY <1>0, <2>1 DEF AcceptOnly, Masked
<1>7. OwnHandler' /\ HarmOnlyInRestore'
  <2>1. CASE os[s].disp \in {"IGN", "DFL"}
    BY <1>0, <2>1 DEF Deliver, OwnHandler, HarmOnlyInRestore
  <2>2. CASE os[s].disp = "CATCH" /\ careful
    <3>1. PICK e \in Found(s) :
             \/ /\ e = Junk \/ ~e.used
                /\ inside' = [sig |-> s, handler |-> "none", data |-> "none"]
                /\ UNCHANGED alive
             \/ /\ e.used /\ e.handler \in Apps
                /\ inside' = [sig |-> s, handler |-> e.handler, data |-> e.data]
                /\ UNCHANGED alive
             \/ /\ e.used /\ e.handler \notin Apps
                /\ alive' = "crashed" /\ UNCHANGED inside
      BY <2>2 DEF Deliver
    <3>2. /\ e.used
          /\ \/ e.handler = want[s] /\ want[s] \in Apps /\ e.data = want[s]
             \/ job = "restore" /\ e.handler = "IGN"
      BY <1>0, <2>2, <3>1, FindsRight
    <3>3. e # Junk
      BY <3>2, Names DEF Junk
    <3>4. QED
      BY <1>0, <3>1, <3>2, <3>3, Names DEF OwnHandler, HarmOnlyInRestore
  <2>3. CASE ~careful
    BY <1>0, <2>3 DEF OwnHandler, HarmOnlyInRestore
  <2>4. os[s].disp \in {"DFL", "IGN", "CATCH"}
    BY DEF TypeOK, Disposition
  <2>5. QED
    BY <2>1, <2>2, <2>3, <2>4
<1>8. QED
  BY <1>1, <1>2, <1>3, <1>4, <1>5, <1>6, <1>7 DEF HandledRight
-----------------------------------------------------------------------------
THEOREM Invariance == Spec => []IInv
<1>1. ASSUME IInv, [Next]_vars PROVE IInv'
  <2>1. CASE Next
    <3>1. ASSUME NEW s \in Sigs, Raise(s) \/ DelCall(s) PROVE IInv'
      BY <1>1, <3>1, RaiseStep, DelCallStep
    <3>2. ASSUME NEW s \in Sigs, NEW h \in Registration, NEW restart \in BOOLEAN,
                 NEW force \in BOOLEAN, SetCall(s, h, restart, force)
          PROVE  IInv'
      BY <1>1, <3>2, SetCallStep
    <3>3. ASSUME NEW save \in BOOLEAN, DaemonCall(save) PROVE IInv'
      BY <1>1, <3>3, DaemonCallStep
    <3>4. CASE Block \/ Unblock \/ AcceptCall \/ Accepted
      BY <1>1, <3>4, BlockStep, UnblockStep, AcceptCallStep, AcceptedStep
    <3>5. CASE Code
      BY <1>1, <3>5, AddCountStep, AddReallocStep, AddZeroStep, SetUsedStep,
         SetDataStep, SetHandlerStep, DeleteStep, ClearStep, ClearingStep, ForkStep,
         UnmaskStep, IgnoreHupStep, RestoreHupStep, DaemonReturnStep,
         AcceptUnblockStep, AcceptBlockStep DEF Code
    <3>6. CASE Kernel
      BY <1>1, <3>6, HandlerReturnStep, DeliverStep DEF Kernel
    <3>7. QED
      BY <2>1, <3>1, <3>2, <3>3, <3>4, <3>5, <3>6 DEF Next
  <2>2. CASE UNCHANGED vars
    <3>1. UNCHANGED <<careful, alive, os, blocked, pending, count, nalloc, moving, el,
                      pc, arg, job, sigsave, saved, todo, inside, want, flag, before,
                      served>>
      BY <2>2 DEF vars
    <3>2. TypeOK' /\ Types' /\ PcOfJob' /\ ArgOfJob' /\ Sized'
      BY <1>1, <3>1 DEF IInv, TypeOK, Types, PcOfJob, ArgOfJob, Sized, Growing, Changing,
         Setting, Deleting
    <3>3. AllAgreed' /\ Masked'
      BY <1>1, <3>1 DEF IInv, AllAgreed, Agreed, Held, Told, Masked, Changing, Setting,
         Deleting
    <3>4. Keeping' /\ Dropping' /\ Daemonized'
      BY <1>1, <3>1 DEF IInv, Keeping, Dropping, Daemonized, Kept, SavedRight, Ignored,
         Others, Setting
    <3>5. HandledRight' /\ HarmOnlyInRestore'
      BY <1>1, <3>1 DEF IInv, HandledRight, OwnHandler, AcceptOnly, HarmOnlyInRestore
    <3>6. QED
      BY <3>2, <3>3, <3>4, <3>5 DEF IInv
  <2>3. QED
    BY <1>1, <2>1, <2>2
<1>2. QED
  BY InitIInv, <1>1, PTL DEF Spec

(* The variables keep their types, and sig_ctx has memory for as many      *)
(* elements as it counts, and initialised ones, except inside              *)
(* nxs_array_add_i (ProcSignal!TypeOK).                                    *)
THEOREM TypeCorrect == Spec => []TypeOK
BY Invariance, PTL DEF IInv

(* Between two calls of nxs_proc_signal_set, _del and _clear, by the       *)
(* application or inside nxs_proc_daemonize, the kernel's disposition of   *)
(* every signal, its element and the last request agree.                   *)
THEOREM SettledAlways == Spec => []Settled
<1>1. IInv => Settled
  <2> SUFFICES ASSUME IInv, ~Changing PROVE Settled
    BY DEF Settled, Changing, Setting, Deleting, Growing
  <2>1. \A s \in Sigs : Agreed(s) /\ (Used(s) <=> Held(s))
    BY DEF IInv, AllAgreed, Used, Held, TypeOK, Growing, Changing, Setting
  <2>2. QED
    BY <2>1 DEF Settled, Agreed
<1>2. QED
  BY <1>1, Invariance, PTL

(* An application that blocks the signals around every change gets each    *)
(* delivery in the handler registered last, with its own data; and once    *)
(* nxs_net_accept2 has returned, the handlers of its signals run inside    *)
(* nxs_net_accept2 only.                                                   *)
THEOREM HandledRightAlways == Spec => []HandledRight
BY Invariance, PTL DEF IInv

(* Such an application is called through "IGN" only while                  *)
(* nxs_proc_daemonize gives SIGHUP its handler back in a child whose mask  *)
(* nxs_proc_fork has emptied.                                              *)
THEOREM HarmConfined == Spec => []HarmOnlyInRestore
BY Invariance, PTL DEF IInv

(* nxs_proc_daemonize returns in the daemon with every handler its starter *)
(* had, or with none when told to clear them, and with an empty mask.      *)
THEOREM DaemonizedAlways == Spec => []Daemonized
BY Invariance, PTL DEF IInv
=============================================================================
