------------------------ MODULE AndroidGadgetProofs ------------------------
(***************************************************************************)
(* Type correctness of AndroidGadget, its inductive invariant and the      *)
(* safety properties that follow from it, for every set of functions,      *)
(* lists and aliases and for both kinds of controller.                     *)
(***************************************************************************)
EXTENDS AndroidGadget, TLAPS

\* Writing the functions attribute yields one well-formed slot per name.
LEMMA ParseType ==
    ASSUME NEW l \in FunctionLists, NEW a, NEW oom
    PROVE  Parse(l, a, oom) \in Seq(Holder)
<1>1. l \in Seq(Token)
  BY ListsAssumption
<1>2. Len(l) \in Nat /\ \A i \in 1 .. Len(l) : l[i] \in Token
  BY <1>1
<1>3. \A i \in 1 .. Len(l) : Parse(l, a, oom)[i] \in Holder
  BY <1>2, FunctionsAssumption DEF Parse, MakesHolder, Holder, Token
<1>4. Parse(l, a, oom) = [i \in 1 .. Len(l) |-> Parse(l, a, oom)[i]]
  BY DEF Parse
<1> QED
  BY <1>2, <1>3, <1>4

\* The holders of a configuration are list positions holding real functions.
LEMMA HoldersOfType ==
    ASSUME TypeOK, NEW c
    PROVE  HoldersOf(c) \subseteq Nat /\ FunctionsOf(c) \subseteq Functions
BY DEF TypeOK, HoldersOf, FunctionsOf, Holder

\* android_disable and android_enable keep the control variables in their types.
LEMMA CallTypes ==
    ASSUME TypeOK, NEW r \in {"callbacks", "finish"}, CallDisable(r) \/ CallEnable(r)
    PROVE  /\ disable_depth' \in Nat
           /\ ret' \in {"callbacks", "finish"}
           /\ ci' \in Nat \ {0}
           /\ pc' \in {"add", "remove", "disconnect", r}
BY DEF TypeOK, CallDisable, CallEnable

\* Every step, of every handler and callback, preserves the types.
LEMMA TypeStep == TypeOK /\ [Next]_vars => TypeOK'
<1> SUFFICES ASSUME TypeOK, [Next]_vars PROVE TypeOK'
  OBVIOUS
<1> USE DEF lists, udc, video, ctl
<1>1. CASE functions_store_fill
  <2>1. PICK l \in FunctionLists :
          /\ \E oom \in AllocFailures(l) : holders' = Parse(l, ffs_aliases, oom)
          /\ configs_num' = l[Len(l)].conf
    BY <1>1 DEF functions_store_fill
  <2>2. holders' \in Seq(Holder)
    BY <2>1, ParseType
  <2>3. configs_num' \in Nat
    <3>1. l \in Seq(Token) /\ Len(l) \in 1 .. Len(l)
      BY ListsAssumption
    <3>2. l[Len(l)] \in Token
      BY <3>1
    <3> QED
      BY <2>1, <3>2 DEF Token
  <2> QED
    BY <1>1, <2>2, <2>3 DEF functions_store_fill, TypeOK, Ops, Pcs
<1>2. CASE FfsCallback
  <2>1. /\ ret' \in {"callbacks", "finish"} /\ ci' \in Nat \ {0} /\ disable_depth' \in Nat
        /\ pc' \in {"add", "remove", "disconnect", "callbacks"}
    BY <1>2, CallTypes DEF FfsCallback, TypeOK
  <2>2. ffs' \in [opened : BOOLEAN, enabled : BOOLEAN, func : {"none", "live", "err"}]
    BY <1>2 DEF FfsCallback, TypeOK
  <2>3. op \notin {"none", "functions"} /\ op' = op /\ idx' \in Nat \ {0}
    BY <1>2 DEF FfsCallback, TypeOK
  <2> QED
    BY <1>2, <2>1, <2>2, <2>3 DEF FfsCallback, TypeOK, Pcs
<1>3. CASE OtherCallback
  <2>1. video_enabled' \in BOOLEAN
    <3>1. CASE holders[idx].f = VIDEO
      BY <1>3, <3>1 DEF OtherCallback
    <3>2. CASE holders[idx].f # VIDEO
      BY <1>3, <3>2 DEF OtherCallback, TypeOK
    <3> QED
      BY <3>1, <3>2
  <2>2. idx' \in Nat \ {0}
    BY <1>3 DEF OtherCallback, TypeOK
  <2> QED
    BY <1>3, <2>1, <2>2 DEF OtherCallback, TypeOK
<1>4. CASE CallbacksDone
  BY <1>4, CallTypes DEF CallbacksDone, TypeOK, Ops, Pcs
<1>5. CASE enable_store_return
  BY <1>5 DEF enable_store_return, TypeOK, Ops, Pcs
<1>6. CASE AddConfig
  BY <1>6, HoldersOfType DEF AddConfig, TypeOK
<1>7. CASE AddConfigFails
  <2>1. bound' \subseteq Functions /\ live' \subseteq Nat
    BY <1>7, HoldersOfType DEF AddConfigFails, BindFails, FfsFuncAfter, UnbindHolders, TypeOK, HoldersOf, FunctionsOf
  <2>2. ffs' \in [opened : BOOLEAN, enabled : BOOLEAN, func : {"none", "live", "err"}]
    BY <1>7 DEF AddConfigFails, BindFails, FfsFuncAfter, TypeOK
  <2> QED
    BY <1>7, <2>1, <2>2 DEF AddConfigFails, TypeOK, Pcs
<1>8. CASE GadgetConnect
  <2>1. pullup' \in BOOLEAN
    BY <1>8, Zenon DEF GadgetConnect, TypeOK
  <2> QED
    BY <1>8, <2>1 DEF GadgetConnect, TypeOK, Pcs
<1>9. CASE RemoveConfig
  <2>1. bound' \subseteq Functions /\ live' \subseteq Nat
    BY <1>9 DEF RemoveConfig, TypeOK, UnbindHolders
  <2>2. added' \subseteq Nat /\ ci' \in Nat \ {0}
    BY <1>9 DEF RemoveConfig, TypeOK
  <2> QED
    BY <1>9, <2>1, <2>2 DEF RemoveConfig, TypeOK
<1>10. CASE RemoveDone
  BY <1>10 DEF RemoveDone, TypeOK, Pcs
<1>11. CASE GadgetDisconnect
  BY <1>11 DEF GadgetDisconnect, TypeOK, Pcs
<1>12. CASE ReadyReturn
  BY <1>12 DEF ReadyReturn, TypeOK, Ops, Pcs, FfsPcs
<1>13. CASE ClosedReturn
  BY <1>13 DEF ClosedReturn, FfsClosed, TypeOK, Ops, Pcs, FfsPcs
<1>14. CASE ffs_aliases_store
  BY <1>14 DEF ffs_aliases_store, TypeOK
<1>15. CASE functions_store
  BY <1>15 DEF functions_store, Unlocked, TypeOK, Ops, Pcs
<1>16. CASE enable_store_on
  BY <1>16 DEF enable_store_on, Unlocked, TypeOK, Ops, Pcs, NoDuplicates
<1>17. CASE enable_store_off
  BY <1>17, CallTypes DEF enable_store_off, Unlocked, TypeOK, Ops, Pcs
<1>18. CASE ReadyReadsDev
  BY <1>18 DEF ReadyReadsDev, TypeOK, FfsPcs
<1>19. CASE ReadyLocked
  BY <1>19, CallTypes DEF ReadyLocked, Unlocked, TypeOK, Ops, Pcs, FfsPcs
<1>20. CASE ClosedReadsDev
  BY <1>20 DEF ClosedReadsDev, TypeOK, FfsPcs
<1>21. CASE ClosedLocked
  BY <1>21, CallTypes DEF ClosedLocked, Unlocked, TypeOK, Ops, Pcs, FfsPcs
<1>22. CASE ClosedUnlocked
  BY <1>22 DEF ClosedUnlocked, FfsClosed, TypeOK, FfsPcs
<1>23. CASE VideoStep
  BY <1>23 DEF VideoStep, VideoReadyReadsDev, video_ready_callback, VideoClosedReadsDev,
               video_closed_callback, TypeOK
<1>24. CASE UNCHANGED vars
  BY <1>24 DEF vars, TypeOK
<1> QED
  BY <1>1, <1>2, <1>3, <1>4, <1>5, <1>6, <1>7, <1>8, <1>9, <1>10, <1>11, <1>12, <1>13,
     <1>14, <1>15, <1>16, <1>17, <1>18, <1>19, <1>20, <1>21, <1>22, <1>23, <1>24
  DEF Next, HolderStep, Store, FfsStep

\* Every variable keeps its type, whatever userspace writes and in whatever
\* order the handlers and callbacks run.
THEOREM TypeCorrect == Spec => []TypeOK
<1>1. ASSUME Init PROVE TypeOK
  <2>1. holders \in Seq(Holder) /\ added \subseteq Nat /\ live \subseteq Nat
    BY <1>1 DEF Init
  <2>2. ffs \in [opened : BOOLEAN, enabled : BOOLEAN, func : {"none", "live", "err"}]
    BY <1>1 DEF Init
  <2>3. /\ enabled \in BOOLEAN /\ video_enabled \in BOOLEAN
        /\ pullup \in BOOLEAN /\ anomaly \in BOOLEAN
    BY <1>1, Zenon DEF Init
  <2>4. /\ op \in Ops /\ pc \in Pcs /\ ret \in {"callbacks", "finish"} /\ ffsPc \in FfsPcs
        /\ videoPc \in {"closed", "opening", "open", "closing"}
        /\ op = "none" <=> pc = "idle"
        /\ op = "functions" <=> pc = "fill"
    BY <1>1 DEF Init, Ops, Pcs, FfsPcs
  <2>5. /\ idx \in Nat \ {0} /\ ci \in Nat \ {0} /\ configs_num \in Nat
        /\ disable_depth \in Nat /\ bound \subseteq Functions
    BY <1>1 DEF Init
  <2> QED
    BY <2>1, <2>2, <2>3, <2>4, <2>5 DEF TypeOK
<1> QED
  BY <1>1, TypeStep, PTL DEF Spec

\* Every step preserves the inductive invariant; one case per action, one step
\* per part of the invariant.
LEMMA CoreStep == TypeOK /\ CoreInv /\ [Next]_vars => CoreInv'
<1> SUFFICES ASSUME TypeOK, CoreInv, [Next]_vars PROVE CoreInv'
  OBVIOUS
<1> USE DEF lists, udc, video, ctl
<1>1. CASE functions_store_fill
  <2>1. ControlInv'
    BY <1>1 DEF functions_store_fill, CoreInv, ControlInv, TypeOK
  <2>2. ASSUME ~ anomaly' PROVE FfsInv'
    BY <1>1, <2>2 DEF functions_store_fill, CoreInv, ControlInv, FfsInv, NoDuplicates, AndroidDev, TypeOK
  <2>3. ASSUME ~ anomaly' PROVE DepthInv'
    BY <1>1, <2>3 DEF functions_store_fill, CoreInv, ControlInv, FfsInv, DepthInv, DevHold, FfsHold, TypeOK
  <2>4. ASSUME ~ anomaly' PROVE AttachInv'
    BY <1>1, <2>4, OptionsAssumption DEF functions_store_fill, CoreInv, ControlInv, DepthInv, AttachInv, DevHold, FfsHold, TypeOK
  <2> QED
    BY <2>1, <2>2, <2>3, <2>4 DEF CoreInv
<1>2. CASE FfsCallback
  <2>1. ControlInv'
    BY <1>2 DEF FfsCallback, CallDisable, CallEnable, CoreInv, ControlInv, TypeOK
  <2>a. /\ op \in {"enable", "disable"} /\ op' = op /\ holders' = holders /\ idx' = idx + 1
        /\ idx \in DOMAIN holders /\ holders[idx].f = FFS /\ FFS # NoFunction
        /\ ffs'.opened = ffs.opened /\ enabled' = enabled
        /\ idx \in Nat /\ Len(holders) \in Nat
    BY <1>2, FunctionsAssumption DEF FfsCallback, CoreInv, ControlInv, TypeOK
  <2>b. ASSUME ~ anomaly'
        PROVE /\ FfsInv /\ DepthInv /\ NoDuplicates
              /\ op = "enable" => ~ ffs.enabled
              /\ op = "disable" => ffs.enabled
    <3>1. FfsInv /\ DepthInv /\ NoDuplicates
      BY <1>2, <2>a, <2>b DEF FfsCallback, CoreInv, ControlInv, FfsInv
    <3>2. \A i \in DOMAIN holders : holders[i].f = FFS => i = idx
      BY <2>a, <3>1 DEF NoDuplicates
    <3>3. op = "enable" => ~ ffs.enabled
      BY <2>a, <3>1, <3>2 DEF FfsInv
    <3>4. op = "disable" => ffs.enabled
      BY <2>a, <3>1 DEF FfsInv
    <3> QED
      BY <3>1, <3>3, <3>4
  <2>c. /\ op = "enable" => ffs'.enabled = TRUE
        /\ op = "disable" => ffs'.enabled = FALSE
    BY <1>2 DEF FfsCallback, TypeOK
  <2>3. ASSUME ~ anomaly' PROVE DepthInv' /\ pc' = "callbacks"
    <3>1. CASE ffs.opened
      BY <1>2, <2>a, <2>b, <2>c, <2>3, <3>1
      DEF FfsCallback, DepthInv, DevHold, FfsHold, TypeOK
    <3>2. CASE ~ ffs.opened /\ op = "enable"
      <4>1. disable_depth = 1 /\ CallDisable("callbacks")
        BY <1>2, <2>a, <2>b, <2>3, <3>2 DEF FfsCallback, DepthInv, FfsHold
      <4> QED
        BY <2>a, <2>c, <3>2, <4>1 DEF CallDisable, DepthInv, DevHold, FfsHold
    <3>3. CASE ~ ffs.opened /\ op = "disable"
      <4>1. disable_depth = 2 /\ CallEnable("callbacks")
        BY <1>2, <2>a, <2>b, <2>3, <3>3 DEF FfsCallback, DepthInv, FfsHold
      <4> QED
        BY <2>a, <2>c, <3>3, <4>1 DEF CallEnable, DepthInv, DevHold, FfsHold
    <3> QED
      BY <2>a, <3>1, <3>2, <3>3
  <2>2. ASSUME ~ anomaly' PROVE FfsInv'
    <3>1. NoDuplicates'
      BY <2>a, <2>b, <2>2 DEF NoDuplicates
    <3>2. \A i \in DOMAIN holders : holders[i].f = FFS => i = idx
      BY <2>a, <2>b, <2>2 DEF NoDuplicates
    <3> QED
      BY <2>a, <2>b, <2>c, <2>2, <2>3, <3>1, <3>2 DEF FfsInv
  <2>4. ASSUME ~ anomaly' PROVE AttachInv'
    BY <1>2, <2>4, OptionsAssumption DEF FfsCallback, CallDisable, CallEnable, CoreInv, ControlInv, DepthInv, AttachInv, DevHold, FfsHold, TypeOK
  <2> QED
    BY <2>1, <2>2, <2>3, <2>4 DEF CoreInv
<1>3. CASE OtherCallback
  <2>1. ControlInv'
    BY <1>3 DEF OtherCallback, CoreInv, ControlInv, TypeOK
  <2>2. ASSUME ~ anomaly' PROVE FfsInv'
    BY <1>3, <2>2 DEF OtherCallback, CoreInv, ControlInv, FfsInv, NoDuplicates, AndroidDev, TypeOK
  <2>3. ASSUME ~ anomaly' PROVE DepthInv'
    BY <1>3, <2>3 DEF OtherCallback, CoreInv, ControlInv, FfsInv, DepthInv, DevHold, FfsHold, TypeOK
  <2>4. ASSUME ~ anomaly' PROVE AttachInv'
    BY <1>3, <2>4, OptionsAssumption DEF OtherCallback, CoreInv, ControlInv, DepthInv, AttachInv, DevHold, FfsHold, TypeOK
  <2> QED
    BY <2>1, <2>2, <2>3, <2>4 DEF CoreInv
<1>4. CASE CallbacksDone
  <2>1. ControlInv'
    BY <1>4 DEF CallbacksDone, CallEnable, CoreInv, ControlInv, TypeOK
  <2>2. ASSUME ~ anomaly' PROVE FfsInv'
    BY <1>4, <2>2 DEF CallbacksDone, CallEnable, CoreInv, ControlInv, FfsInv, NoDuplicates, AndroidDev, TypeOK
  <2>3. ASSUME ~ anomaly' PROVE DepthInv'
    BY <1>4, <2>3 DEF CallbacksDone, CallEnable, CoreInv, ControlInv, FfsInv, DepthInv, DevHold, FfsHold, TypeOK
  <2>4. ASSUME ~ anomaly' PROVE AttachInv'
    BY <1>4, <2>4, OptionsAssumption DEF CallbacksDone, CallEnable, CoreInv, ControlInv, DepthInv, AttachInv, DevHold, FfsHold, TypeOK
  <2> QED
    BY <2>1, <2>2, <2>3, <2>4 DEF CoreInv
<1>5. CASE enable_store_return
  <2>1. ControlInv'
    BY <1>5 DEF enable_store_return, CoreInv, ControlInv, TypeOK
  <2>2. ASSUME ~ anomaly' PROVE FfsInv'
    BY <1>5, <2>2 DEF enable_store_return, CoreInv, ControlInv, FfsInv, NoDuplicates, AndroidDev, TypeOK
  <2>3. ASSUME ~ anomaly' PROVE DepthInv'
    <3>1. FfsInv /\ DepthInv /\ ffs' = ffs /\ disable_depth' = disable_depth
      BY <1>5, <2>3 DEF enable_store_return, CoreInv
    <3>2. CASE op = "enable"
      <4>1. enabled' = TRUE
        BY <1>5, <3>2 DEF enable_store_return
      <4> QED
        BY <1>5, <3>1, <3>2, <4>1 DEF enable_store_return, DepthInv, DevHold, FfsHold, TypeOK
    <3>3. CASE op = "disable"
      <4>1. enabled' = FALSE
        BY <1>5, <3>3 DEF enable_store_return
      <4> QED
        BY <1>5, <3>1, <3>3, <4>1 DEF enable_store_return, DepthInv, DevHold, FfsHold, TypeOK
    <3> QED
      BY <1>5, <3>2, <3>3 DEF enable_store_return
  <2>4. ASSUME ~ anomaly' PROVE AttachInv'
    BY <1>5, <2>4, OptionsAssumption DEF enable_store_return, CoreInv, ControlInv, DepthInv, AttachInv, DevHold, FfsHold, TypeOK
  <2> QED
    BY <2>1, <2>2, <2>3, <2>4 DEF CoreInv
<1>6. CASE AddConfig
  <2>1. ControlInv'
    BY <1>6 DEF AddConfig, CoreInv, ControlInv, TypeOK
  <2>2. ASSUME ~ anomaly' PROVE FfsInv'
    BY <1>6, <2>2 DEF AddConfig, CoreInv, ControlInv, FfsInv, NoDuplicates, AndroidDev, TypeOK
  <2>3. ASSUME ~ anomaly' PROVE DepthInv'
    BY <1>6, <2>3 DEF AddConfig, CoreInv, ControlInv, FfsInv, DepthInv, DevHold, FfsHold, TypeOK
  <2>4. ASSUME ~ anomaly' PROVE AttachInv'
    BY <1>6, <2>4, OptionsAssumption DEF AddConfig, CoreInv, ControlInv, DepthInv, AttachInv, DevHold, FfsHold, TypeOK
  <2> QED
    BY <2>1, <2>2, <2>3, <2>4 DEF CoreInv
<1>7. CASE AddConfigFails
  <2>1. ControlInv'
    BY <1>7 DEF AddConfigFails, BindFails, FfsFuncAfter, CoreInv, ControlInv, TypeOK
  <2>2. ASSUME ~ anomaly' PROVE FfsInv'
    BY <1>7, <2>2 DEF AddConfigFails, BindFails, FfsFuncAfter, CoreInv, ControlInv, FfsInv, DepthInv, NoDuplicates, AndroidDev, TypeOK
  <2>3. ASSUME ~ anomaly' PROVE DepthInv'
    BY <1>7, <2>3 DEF AddConfigFails, BindFails, FfsFuncAfter, CoreInv, ControlInv, FfsInv, DepthInv, DevHold, FfsHold, TypeOK
  <2>4. ASSUME ~ anomaly' PROVE AttachInv'
    BY <1>7, <2>4, OptionsAssumption DEF AddConfigFails, BindFails, FfsFuncAfter, CoreInv, ControlInv, DepthInv, AttachInv, DevHold, FfsHold, TypeOK
  <2> QED
    BY <2>1, <2>2, <2>3, <2>4 DEF CoreInv
<1>8. CASE GadgetConnect
  <2>1. ControlInv'
    BY <1>8 DEF GadgetConnect, CoreInv, ControlInv, TypeOK
  <2>2. ASSUME ~ anomaly' PROVE FfsInv'
    BY <1>8, <2>2 DEF GadgetConnect, CoreInv, ControlInv, FfsInv, DepthInv, NoDuplicates, AndroidDev, TypeOK
  <2>3. ASSUME ~ anomaly' PROVE DepthInv'
    BY <1>8, <2>3 DEF GadgetConnect, CoreInv, ControlInv, FfsInv, DepthInv, DevHold, FfsHold, TypeOK
  <2>4. ASSUME ~ anomaly' PROVE AttachInv'
    BY <1>8, <2>4, OptionsAssumption DEF GadgetConnect, CoreInv, ControlInv, DepthInv, AttachInv, DevHold, FfsHold, TypeOK
  <2> QED
    BY <2>1, <2>2, <2>3, <2>4 DEF CoreInv
<1>9. CASE RemoveConfig
  <2>1. ControlInv'
    BY <1>9 DEF RemoveConfig, CoreInv, ControlInv, TypeOK
  <2>2. ASSUME ~ anomaly' PROVE FfsInv'
    BY <1>9, <2>2 DEF RemoveConfig, CoreInv, ControlInv, FfsInv, NoDuplicates, AndroidDev, TypeOK
  <2>3. ASSUME ~ anomaly' PROVE DepthInv'
    BY <1>9, <2>3 DEF RemoveConfig, CoreInv, ControlInv, FfsInv, DepthInv, DevHold, FfsHold, TypeOK
  <2>4. ASSUME ~ anomaly' PROVE AttachInv'
    BY <1>9, <2>4, OptionsAssumption DEF RemoveConfig, CoreInv, ControlInv, DepthInv, AttachInv, DevHold, FfsHold, TypeOK
  <2> QED
    BY <2>1, <2>2, <2>3, <2>4 DEF CoreInv
<1>10. CASE RemoveDone
  <2>1. ControlInv'
    BY <1>10 DEF RemoveDone, CoreInv, ControlInv, TypeOK
  <2>2. ASSUME ~ anomaly' PROVE FfsInv'
    BY <1>10, <2>2 DEF RemoveDone, CoreInv, ControlInv, FfsInv, DepthInv, NoDuplicates, AndroidDev, TypeOK
  <2>3. ASSUME ~ anomaly' PROVE DepthInv'
    BY <1>10, <2>3 DEF RemoveDone, CoreInv, ControlInv, FfsInv, DepthInv, DevHold, FfsHold, TypeOK
  <2>4. ASSUME ~ anomaly' PROVE AttachInv'
    BY <1>10, <2>4, OptionsAssumption DEF RemoveDone, CoreInv, ControlInv, DepthInv, AttachInv, DevHold, FfsHold, TypeOK
  <2> QED
    BY <2>1, <2>2, <2>3, <2>4 DEF CoreInv
<1>11. CASE GadgetDisconnect
  <2>1. ControlInv'
    BY <1>11 DEF GadgetDisconnect, CoreInv, ControlInv, TypeOK
  <2>2. ASSUME ~ anomaly' PROVE FfsInv'
    BY <1>11, <2>2 DEF GadgetDisconnect, CoreInv, ControlInv, FfsInv, DepthInv, NoDuplicates, AndroidDev, TypeOK
  <2>3. ASSUME ~ anomaly' PROVE DepthInv'
    BY <1>11, <2>3 DEF GadgetDisconnect, CoreInv, ControlInv, FfsInv, DepthInv, DevHold, FfsHold, TypeOK
  <2>4. ASSUME ~ anomaly' PROVE AttachInv'
    BY <1>11, <2>4, OptionsAssumption DEF GadgetDisconnect, CoreInv, ControlInv, DepthInv, AttachInv, DevHold, FfsHold, TypeOK
  <2> QED
    BY <2>1, <2>2, <2>3, <2>4 DEF CoreInv
<1>12. CASE ReadyReturn
  <2>1. ControlInv'
    BY <1>12 DEF ReadyReturn, CoreInv, ControlInv, TypeOK
  <2>2. ASSUME ~ anomaly' PROVE FfsInv'
    BY <1>12, <2>2 DEF ReadyReturn, CoreInv, ControlInv, FfsInv, NoDuplicates, AndroidDev, TypeOK
  <2>3. ASSUME ~ anomaly' PROVE DepthInv'
    BY <1>12, <2>3 DEF ReadyReturn, CoreInv, ControlInv, FfsInv, DepthInv, DevHold, FfsHold, TypeOK
  <2>4. ASSUME ~ anomaly' PROVE AttachInv'
    BY <1>12, <2>4, OptionsAssumption DEF ReadyReturn, CoreInv, ControlInv, DepthInv, AttachInv, DevHold, FfsHold, TypeOK
  <2> QED
    BY <2>1, <2>2, <2>3, <2>4 DEF CoreInv
<1>13. CASE ClosedReturn
  <2>1. ControlInv'
    BY <1>13 DEF ClosedReturn, FfsClosed, CoreInv, ControlInv, TypeOK
  <2>2. ASSUME ~ anomaly' PROVE FfsInv'
    BY <1>13, <2>2 DEF ClosedReturn, FfsClosed, CoreInv, ControlInv, FfsInv, NoDuplicates, AndroidDev, TypeOK
  <2>3. ASSUME ~ anomaly' PROVE DepthInv'
    BY <1>13, <2>3 DEF ClosedReturn, FfsClosed, CoreInv, ControlInv, FfsInv, DepthInv, DevHold, FfsHold, TypeOK
  <2>4. ASSUME ~ anomaly' PROVE AttachInv'
    BY <1>13, <2>4, OptionsAssumption DEF ClosedReturn, FfsClosed, CoreInv, ControlInv, DepthInv, AttachInv, DevHold, FfsHold, TypeOK
  <2> QED
    BY <2>1, <2>2, <2>3, <2>4 DEF CoreInv
<1>14. CASE ffs_aliases_store
  <2>1. ControlInv'
    BY <1>14 DEF ffs_aliases_store, Unlocked, CoreInv, ControlInv, TypeOK
  <2>2. ASSUME ~ anomaly' PROVE FfsInv'
    BY <1>14, <2>2 DEF ffs_aliases_store, Unlocked, CoreInv, ControlInv, FfsInv, NoDuplicates, AndroidDev, TypeOK
  <2>3. ASSUME ~ anomaly' PROVE DepthInv'
    BY <1>14, <2>3 DEF ffs_aliases_store, Unlocked, CoreInv, ControlInv, FfsInv, DepthInv, DevHold, FfsHold, TypeOK
  <2>4. ASSUME ~ anomaly' PROVE AttachInv'
    BY <1>14, <2>4, OptionsAssumption DEF ffs_aliases_store, Unlocked, CoreInv, ControlInv, DepthInv, AttachInv, DevHold, FfsHold, TypeOK
  <2> QED
    BY <2>1, <2>2, <2>3, <2>4 DEF CoreInv
<1>15. CASE functions_store
  <2>1. ControlInv'
    BY <1>15 DEF functions_store, Unlocked, CoreInv, ControlInv, TypeOK
  <2>2. ASSUME ~ anomaly' PROVE FfsInv'
    BY <1>15, <2>2 DEF functions_store, Unlocked, CoreInv, ControlInv, FfsInv, NoDuplicates, AndroidDev, TypeOK
  <2>3. ASSUME ~ anomaly' PROVE DepthInv'
    BY <1>15, <2>3 DEF functions_store, Unlocked, CoreInv, ControlInv, FfsInv, DepthInv, DevHold, FfsHold, TypeOK
  <2>4. ASSUME ~ anomaly' PROVE AttachInv'
    BY <1>15, <2>4, OptionsAssumption DEF functions_store, Unlocked, CoreInv, ControlInv, DepthInv, AttachInv, DevHold, FfsHold, TypeOK
  <2> QED
    BY <2>1, <2>2, <2>3, <2>4 DEF CoreInv
<1>16. CASE enable_store_on
  <2>1. ControlInv'
    BY <1>16 DEF enable_store_on, Unlocked, CoreInv, ControlInv, TypeOK
  <2>2. ASSUME ~ anomaly' PROVE FfsInv'
    <3>1. FfsInv /\ ~ enabled /\ op = "none" /\ op' = "enable" /\ pc' = "callbacks"
      BY <1>16, <2>2 DEF enable_store_on, Unlocked, CoreInv
    <3>2. NoDuplicates /\ holders' = holders
      BY <1>16, <2>2 DEF enable_store_on
    <3>3. NoDuplicates'
      BY <3>2 DEF NoDuplicates
    <3>4. ~ ffs'.enabled /\ idx' = 1
      BY <1>16, <3>1 DEF enable_store_on, FfsInv
    <3> QED
      BY <3>1, <3>2, <3>3, <3>4 DEF FfsInv, TypeOK
  <2>3. ASSUME ~ anomaly' PROVE DepthInv'
    BY <1>16, <2>3 DEF enable_store_on, Unlocked, CoreInv, ControlInv, FfsInv, DepthInv, DevHold, FfsHold, TypeOK
  <2>4. ASSUME ~ anomaly' PROVE AttachInv'
    BY <1>16, <2>4, OptionsAssumption DEF enable_store_on, Unlocked, CoreInv, ControlInv, DepthInv, AttachInv, DevHold, FfsHold, TypeOK
  <2> QED
    BY <2>1, <2>2, <2>3, <2>4 DEF CoreInv
<1>17. CASE enable_store_off
  <2>1. ControlInv'
    BY <1>17 DEF enable_store_off, Unlocked, CallDisable, CoreInv, ControlInv, TypeOK
  <2>2. ASSUME ~ anomaly' PROVE FfsInv'
    BY <1>17, <2>2 DEF enable_store_off, Unlocked, CallDisable, CoreInv, ControlInv, FfsInv, NoDuplicates, AndroidDev, TypeOK
  <2>3. ASSUME ~ anomaly' PROVE DepthInv'
    BY <1>17, <2>3 DEF enable_store_off, Unlocked, CallDisable, CoreInv, ControlInv, FfsInv, DepthInv, DevHold, FfsHold, TypeOK
  <2>4. ASSUME ~ anomaly' PROVE AttachInv'
    BY <1>17, <2>4, OptionsAssumption DEF enable_store_off, Unlocked, CallDisable, CoreInv, ControlInv, DepthInv, AttachInv, DevHold, FfsHold, TypeOK
  <2> QED
    BY <2>1, <2>2, <2>3, <2>4 DEF CoreInv
<1>18. CASE ReadyReadsDev
  <2>1. ControlInv'
    BY <1>18 DEF ReadyReadsDev, CoreInv, ControlInv, TypeOK
  <2>2. ASSUME ~ anomaly' PROVE FfsInv'
    BY <1>18, <2>2 DEF ReadyReadsDev, CoreInv, ControlInv, FfsInv, NoDuplicates, AndroidDev, TypeOK
  <2>3. ASSUME ~ anomaly' PROVE DepthInv'
    BY <1>18, <2>3 DEF ReadyReadsDev, CoreInv, ControlInv, FfsInv, DepthInv, DevHold, FfsHold, TypeOK
  <2>4. ASSUME ~ anomaly' PROVE AttachInv'
    BY <1>18, <2>4, OptionsAssumption DEF ReadyReadsDev, CoreInv, ControlInv, DepthInv, AttachInv, DevHold, FfsHold, TypeOK
  <2> QED
    BY <2>1, <2>2, <2>3, <2>4 DEF CoreInv
<1>19. CASE ReadyLocked
  <2>1. ControlInv'
    BY <1>19 DEF ReadyLocked, Unlocked, CallEnable, CoreInv, ControlInv, TypeOK
  <2>2. ASSUME ~ anomaly' PROVE FfsInv'
    BY <1>19, <2>2 DEF ReadyLocked, Unlocked, CallEnable, CoreInv, ControlInv, FfsInv, NoDuplicates, AndroidDev, TypeOK
  <2>3. ASSUME ~ anomaly' PROVE DepthInv'
    BY <1>19, <2>3 DEF ReadyLocked, Unlocked, CallEnable, CoreInv, ControlInv, FfsInv, DepthInv, DevHold, FfsHold, TypeOK
  <2>4. ASSUME ~ anomaly' PROVE AttachInv'
    BY <1>19, <2>4, OptionsAssumption DEF ReadyLocked, Unlocked, CallEnable, CoreInv, ControlInv, DepthInv, AttachInv, DevHold, FfsHold, TypeOK
  <2> QED
    BY <2>1, <2>2, <2>3, <2>4 DEF CoreInv
<1>20. CASE ClosedReadsDev
  <2>1. ControlInv'
    BY <1>20 DEF ClosedReadsDev, CoreInv, ControlInv, TypeOK
  <2>2. ASSUME ~ anomaly' PROVE FfsInv'
    BY <1>20, <2>2 DEF ClosedReadsDev, CoreInv, ControlInv, FfsInv, NoDuplicates, AndroidDev, TypeOK
  <2>3. ASSUME ~ anomaly' PROVE DepthInv'
    BY <1>20, <2>3 DEF ClosedReadsDev, CoreInv, ControlInv, FfsInv, DepthInv, DevHold, FfsHold, TypeOK
  <2>4. ASSUME ~ anomaly' PROVE AttachInv'
    BY <1>20, <2>4, OptionsAssumption DEF ClosedReadsDev, CoreInv, ControlInv, DepthInv, AttachInv, DevHold, FfsHold, TypeOK
  <2> QED
    BY <2>1, <2>2, <2>3, <2>4 DEF CoreInv
<1>21. CASE ClosedLocked
  <2>1. ControlInv'
    BY <1>21 DEF ClosedLocked, Unlocked, CallDisable, CoreInv, ControlInv, TypeOK
  <2>2. ASSUME ~ anomaly' PROVE FfsInv'
    BY <1>21, <2>2 DEF ClosedLocked, Unlocked, CallDisable, CoreInv, ControlInv, FfsInv, NoDuplicates, AndroidDev, TypeOK
  <2>3. ASSUME ~ anomaly' PROVE DepthInv'
    BY <1>21, <2>3 DEF ClosedLocked, Unlocked, CallDisable, CoreInv, ControlInv, FfsInv, DepthInv, DevHold, FfsHold, TypeOK
  <2>4. ASSUME ~ anomaly' PROVE AttachInv'
    BY <1>21, <2>4, OptionsAssumption DEF ClosedLocked, Unlocked, CallDisable, CoreInv, ControlInv, DepthInv, AttachInv, DevHold, FfsHold, TypeOK
  <2> QED
    BY <2>1, <2>2, <2>3, <2>4 DEF CoreInv
<1>22. CASE ClosedUnlocked
  <2>1. ControlInv'
    BY <1>22 DEF ClosedUnlocked, FfsClosed, CoreInv, ControlInv, TypeOK
  <2>2. ASSUME ~ anomaly' PROVE FfsInv'
    BY <1>22, <2>2 DEF ClosedUnlocked, FfsClosed, CoreInv, ControlInv, FfsInv, NoDuplicates, AndroidDev, TypeOK
  <2>3. ASSUME ~ anomaly' PROVE DepthInv'
    BY <1>22, <2>3 DEF ClosedUnlocked, FfsClosed, CoreInv, ControlInv, FfsInv, DepthInv, DevHold, FfsHold, TypeOK
  <2>4. ASSUME ~ anomaly' PROVE AttachInv'
    BY <1>22, <2>4, OptionsAssumption DEF ClosedUnlocked, FfsClosed, CoreInv, ControlInv, DepthInv, AttachInv, DevHold, FfsHold, TypeOK
  <2> QED
    BY <2>1, <2>2, <2>3, <2>4 DEF CoreInv
<1>23. CASE VideoReadyReadsDev
  <2>1. ControlInv'
    BY <1>23 DEF VideoReadyReadsDev, CoreInv, ControlInv, TypeOK
  <2>2. ASSUME ~ anomaly' PROVE FfsInv'
    BY <1>23, <2>2 DEF VideoReadyReadsDev, CoreInv, ControlInv, FfsInv, NoDuplicates, AndroidDev, TypeOK
  <2>3. ASSUME ~ anomaly' PROVE DepthInv'
    BY <1>23, <2>3 DEF VideoReadyReadsDev, CoreInv, ControlInv, FfsInv, DepthInv, DevHold, FfsHold, TypeOK
  <2>4. ASSUME ~ anomaly' PROVE AttachInv'
    BY <1>23, <2>4, OptionsAssumption DEF VideoReadyReadsDev, CoreInv, ControlInv, DepthInv, AttachInv, DevHold, FfsHold, TypeOK
  <2> QED
    BY <2>1, <2>2, <2>3, <2>4 DEF CoreInv
<1>24. CASE video_ready_callback
  <2>1. ControlInv'
    BY <1>24 DEF video_ready_callback, CoreInv, ControlInv, TypeOK
  <2>2. ASSUME ~ anomaly' PROVE FfsInv'
    BY <1>24, <2>2 DEF video_ready_callback, CoreInv, ControlInv, FfsInv, NoDuplicates, AndroidDev, TypeOK
  <2>3. ASSUME ~ anomaly' PROVE DepthInv'
    BY <1>24, <2>3 DEF video_ready_callback, CoreInv, ControlInv, FfsInv, DepthInv, DevHold, FfsHold, TypeOK
  <2>4. ASSUME ~ anomaly' PROVE AttachInv'
    BY <1>24, <2>4, OptionsAssumption DEF video_ready_callback, CoreInv, ControlInv, DepthInv, AttachInv, DevHold, FfsHold, TypeOK
  <2> QED
    BY <2>1, <2>2, <2>3, <2>4 DEF CoreInv
<1>25. CASE VideoClosedReadsDev
  <2>1. ControlInv'
    BY <1>25 DEF VideoClosedReadsDev, CoreInv, ControlInv, TypeOK
  <2>2. ASSUME ~ anomaly' PROVE FfsInv'
    BY <1>25, <2>2 DEF VideoClosedReadsDev, CoreInv, ControlInv, FfsInv, NoDuplicates, AndroidDev, TypeOK
  <2>3. ASSUME ~ anomaly' PROVE DepthInv'
    BY <1>25, <2>3 DEF VideoClosedReadsDev, CoreInv, ControlInv, FfsInv, DepthInv, DevHold, FfsHold, TypeOK
  <2>4. ASSUME ~ anomaly' PROVE AttachInv'
    BY <1>25, <2>4, OptionsAssumption DEF VideoClosedReadsDev, CoreInv, ControlInv, DepthInv, AttachInv, DevHold, FfsHold, TypeOK
  <2> QED
    BY <2>1, <2>2, <2>3, <2>4 DEF CoreInv
<1>26. CASE video_closed_callback
  <2>1. ControlInv'
    BY <1>26 DEF video_closed_callback, CoreInv, ControlInv, TypeOK
  <2>2. ASSUME ~ anomaly' PROVE FfsInv'
    BY <1>26, <2>2 DEF video_closed_callback, CoreInv, ControlInv, FfsInv, NoDuplicates, AndroidDev, TypeOK
  <2>3. ASSUME ~ anomaly' PROVE DepthInv'
    BY <1>26, <2>3 DEF video_closed_callback, CoreInv, ControlInv, FfsInv, DepthInv, DevHold, FfsHold, TypeOK
  <2>4. ASSUME ~ anomaly' PROVE AttachInv'
    BY <1>26, <2>4, OptionsAssumption DEF video_closed_callback, CoreInv, ControlInv, DepthInv, AttachInv, DevHold, FfsHold, TypeOK
  <2> QED
    BY <2>1, <2>2, <2>3, <2>4 DEF CoreInv
<1>27. CASE UNCHANGED vars
  <2>1. ControlInv'
    BY <1>27 DEF vars, CoreInv, ControlInv, TypeOK
  <2>2. ASSUME ~ anomaly' PROVE FfsInv'
    BY <1>27, <2>2 DEF vars, CoreInv, ControlInv, FfsInv, NoDuplicates, AndroidDev, TypeOK
  <2>3. ASSUME ~ anomaly' PROVE DepthInv'
    BY <1>27, <2>3 DEF vars, CoreInv, ControlInv, FfsInv, DepthInv, DevHold, FfsHold, TypeOK
  <2>4. ASSUME ~ anomaly' PROVE AttachInv'
    BY <1>27, <2>4, OptionsAssumption DEF vars, CoreInv, ControlInv, DepthInv, AttachInv, DevHold, FfsHold, TypeOK
  <2> QED
    BY <2>1, <2>2, <2>3, <2>4 DEF CoreInv
<1> QED
  BY <1>1, <1>2, <1>3, <1>4, <1>5, <1>6, <1>7, <1>8, <1>9, <1>10, <1>11, <1>12, <1>13, <1>14, <1>15, <1>16, <1>17, <1>18, <1>19, <1>20, <1>21, <1>22, <1>23, <1>24, <1>25, <1>26, <1>27
  DEF Next, HolderStep, Store, FfsStep, VideoStep

\* What is bound belongs to an added configuration, and the ffs object outlives
\* it: binding, its failures, removal and both closed callbacks keep that.
LEMMA BindStep == TypeOK /\ CoreInv /\ CoreInv' /\ (~ anomaly => BindInv) /\ [Next]_vars => (~ anomaly' => BindInv')
<1> SUFFICES ASSUME TypeOK, CoreInv, CoreInv', ~ anomaly => BindInv, [Next]_vars, ~ anomaly' PROVE BindInv'
  OBVIOUS
<1> USE DEF lists, udc, video, ctl
<1>0. FfsInv /\ DepthInv /\ AttachInv /\ BindInv /\ ControlInv
  BY DEF Next, HolderStep, Store, FfsStep, VideoStep, vars, CoreInv, functions_store_fill, FfsCallback, OtherCallback, CallbacksDone, enable_store_return, AddConfig, AddConfigFails, GadgetConnect, RemoveConfig, RemoveDone, GadgetDisconnect, ReadyReturn, ClosedReturn, ffs_aliases_store, functions_store, enable_store_on, enable_store_off, ReadyReadsDev, ReadyLocked, ClosedReadsDev, ClosedLocked, ClosedUnlocked, VideoReadyReadsDev, video_ready_callback, VideoClosedReadsDev, video_closed_callback
<1>1. CASE functions_store_fill
  BY <1>0, <1>1 DEF functions_store_fill, BindInv, ControlInv, FfsInv, DepthInv, AttachInv, DevHold, FfsHold, FunctionsOf, HoldersOf, AndroidDev, NoDuplicates, TypeOK
<1>2. CASE FfsCallback
  BY <1>0, <1>2 DEF FfsCallback, CallDisable, CallEnable, BindInv, ControlInv, FfsInv, DepthInv, AttachInv, DevHold, FfsHold, FunctionsOf, HoldersOf, AndroidDev, NoDuplicates, TypeOK
<1>3. CASE OtherCallback
  BY <1>0, <1>3 DEF OtherCallback, BindInv, ControlInv, FfsInv, DepthInv, AttachInv, DevHold, FfsHold, FunctionsOf, HoldersOf, AndroidDev, NoDuplicates, TypeOK
<1>4. CASE CallbacksDone
  BY <1>0, <1>4 DEF CallbacksDone, CallEnable, BindInv, ControlInv, FfsInv, DepthInv, AttachInv, DevHold, FfsHold, FunctionsOf, HoldersOf, AndroidDev, NoDuplicates, TypeOK
<1>5. CASE enable_store_return
  <2>1. CASE op = "enable"
    <3>1. enabled' = TRUE
      BY <1>5, <2>1 DEF enable_store_return
    <3> QED
      BY <1>0, <1>5, <2>1, <3>1 DEF enable_store_return, BindInv, FunctionsOf, HoldersOf
  <2>2. CASE op = "disable"
    <3>1. added = {}
      BY <1>0, <1>5, <2>2 DEF enable_store_return, DepthInv, AttachInv, FfsHold
    <3> QED
      BY <1>0, <1>5, <2>2, <3>1 DEF enable_store_return, BindInv
  <2> QED
    BY <1>5, <2>1, <2>2 DEF enable_store_return
<1>6. CASE AddConfig
  <2>1. enabled \/ op = "enable"
    BY <1>0, <1>6 DEF AddConfig, ControlInv, DepthInv, DevHold, FfsHold, TypeOK, Ops
  <2>2. /\ added' = added \cup {ci} /\ live' = live \cup HoldersOf(ci)
        /\ bound' = bound \cup FunctionsOf(ci) /\ holders' = holders
        /\ op' = op /\ pc' = "add" /\ enabled' = enabled
    BY <1>6 DEF AddConfig
  <2>3. \A i \in live' : /\ i \in DOMAIN holders /\ holders[i].f \in Functions \cap bound'
                         /\ holders[i].conf \in added'
    BY <1>0, <2>2 DEF BindInv, HoldersOf, FunctionsOf
  <2>4. ASSUME NEW c \in added', FFS \in FunctionsOf(c) PROVE ffs'.func = "live"
    <3>1. CASE FFS \in FunctionsOf(ci)
      BY <1>6, <3>1 DEF AddConfig, TypeOK
    <3>2. CASE FFS \notin FunctionsOf(ci)
      BY <1>0, <1>6, <2>2, <2>4, <3>2 DEF AddConfig, BindInv
    <3> QED
      BY <3>1, <3>2
  <2>5. \A c : FunctionsOf(c)' = FunctionsOf(c)
    BY <2>2 DEF FunctionsOf, HoldersOf
  <2> QED
    BY <2>1, <2>2, <2>3, <2>4, <2>5 DEF BindInv
<1>7. CASE AddConfigFails
  <2>1. /\ added' = added /\ holders' = holders /\ op' = op /\ enabled' = enabled
        /\ pc' = ret /\ ret \in {"callbacks", "finish"}
    BY <1>7 DEF AddConfigFails, TypeOK
  <2>2. \A c : FunctionsOf(c)' = FunctionsOf(c)
    BY <2>1 DEF FunctionsOf, HoldersOf
  <2>3. CASE ci \in added
    BY <1>0, <1>7, <2>1, <2>2, <2>3 DEF AddConfigFails, BindInv
  <2>4. CASE ci \notin added
    <3>1. PICK k \in HoldersOf(ci) : BindFails(k)
      BY <1>7, <2>4 DEF AddConfigFails
    <3> DEFINE before == {i \in HoldersOf(ci) : i < k}
               bnd == bound \cup {holders[i].f : i \in before}
    <3>2. /\ live' = UnbindHolders(ci, bnd, live \cup before)
          /\ bound' = bnd \ FunctionsOf(ci)
          /\ \E func \in FfsFuncAfter(k) : ffs' = [ffs EXCEPT !.func = func]
      BY <3>1 DEF BindFails
    <3>3. NoDuplicates
      BY <1>0, <1>7 DEF AddConfigFails, ControlInv, FfsInv, DepthInv, DevHold, FfsHold, TypeOK, Ops
    <3>4. ASSUME NEW i \in live'
          PROVE  /\ i \in DOMAIN holders /\ holders[i].f \in Functions \cap bound'
                 /\ holders[i].conf \in added
      <4>1. i \in live \cup before
        BY <3>2 DEF UnbindHolders
      <4>2. i \notin before
        <5>1. ASSUME i \in before PROVE FALSE
          <6>1. i \in HoldersOf(ci) /\ holders[i].f \in bnd
            BY <5>1
          <6>2. \A j \in HoldersOf(ci) : holders[j].f = holders[i].f => i <= j
            BY <3>3, <6>1, FunctionsAssumption DEF NoDuplicates, HoldersOf, TypeOK
          <6> QED
            BY <3>2, <6>1, <6>2 DEF UnbindHolders
        <5> QED
          BY <5>1
      <4>3. i \in live /\ i \in DOMAIN holders /\ holders[i].f \in Functions \cap bound
            /\ holders[i].conf \in added
        BY <1>0, <4>1, <4>2 DEF BindInv
      <4>4. holders[i].f \notin FunctionsOf(ci)
        BY <2>4, <3>3, <4>3, FunctionsAssumption DEF NoDuplicates, FunctionsOf, HoldersOf
      <4> QED
        BY <3>2, <4>3, <4>4
    <3>5. ASSUME NEW c \in added, FFS \in FunctionsOf(c) PROVE ffs'.func = "live"
      <4>1. holders[k].f # FFS
        <5>1. PICK i \in HoldersOf(c) : holders[i].f = FFS
          BY <3>5 DEF FunctionsOf
        <5> QED
          BY <2>4, <3>3, <5>1, FunctionsAssumption DEF NoDuplicates, HoldersOf
      <4>2. ffs.func = "live"
        BY <1>0, <3>5 DEF BindInv
      <4> QED
        BY <3>2, <4>1, <4>2 DEF FfsFuncAfter, TypeOK
    <3> QED
      BY <1>0, <2>1, <2>2, <3>4, <3>5 DEF BindInv
  <2> QED
    BY <2>3, <2>4
<1>8. CASE GadgetConnect
  BY <1>0, <1>8 DEF GadgetConnect, BindInv, ControlInv, FfsInv, DepthInv, AttachInv, DevHold, FfsHold, FunctionsOf, HoldersOf, AndroidDev, NoDuplicates, TypeOK
<1>9. CASE RemoveConfig
  <2>1. /\ added' = added \ {ci} /\ holders' = holders /\ op' = op /\ enabled' = enabled
        /\ pc' = pc /\ idx' = idx /\ ffs' = ffs
    BY <1>9 DEF RemoveConfig
  <2>2. \A c : FunctionsOf(c)' = FunctionsOf(c)
    BY <2>1 DEF FunctionsOf, HoldersOf
  <2>3. CASE ci \notin added
    BY <1>0, <1>9, <2>1, <2>2, <2>3 DEF RemoveConfig, BindInv
  <2>4. CASE ci \in added
    <3>1. live' = UnbindHolders(ci, bound, live) /\ bound' = bound \ FunctionsOf(ci)
      BY <1>9, <2>4 DEF RemoveConfig
    <3>2. NoDuplicates
      BY <1>0, <2>4 DEF BindInv, FfsInv
    <3>3. ASSUME NEW i \in live'
          PROVE  /\ i \in DOMAIN holders /\ holders[i].f \in Functions \cap bound'
                 /\ holders[i].conf \in added'
      <4>1. /\ i \in live /\ i \in DOMAIN holders /\ holders[i].f \in Functions \cap bound
            /\ holders[i].conf \in added
        BY <1>0, <3>1 DEF UnbindHolders, BindInv
      <4>2. holders[i].conf # ci
        <5>1. ASSUME holders[i].conf = ci PROVE FALSE
          <6>1. i \in HoldersOf(ci)
            BY <4>1, <5>1 DEF HoldersOf
          <6>2. \A j \in HoldersOf(ci) : holders[j].f = holders[i].f => i <= j
            BY <3>2, <4>1, <6>1, FunctionsAssumption DEF NoDuplicates, HoldersOf, TypeOK
          <6> QED
            BY <3>1, <4>1, <6>1, <6>2 DEF UnbindHolders
        <5> QED
          BY <5>1
      <4>3. holders[i].f \notin FunctionsOf(ci)
        BY <3>2, <4>1, <4>2, FunctionsAssumption DEF NoDuplicates, FunctionsOf, HoldersOf
      <4> QED
        BY <2>1, <3>1, <4>1, <4>2, <4>3
    <3> QED
      BY <1>0, <2>1, <2>2, <3>3 DEF BindInv
  <2> QED
    BY <2>3, <2>4
<1>10. CASE RemoveDone
  BY <1>0, <1>10 DEF RemoveDone, BindInv, ControlInv, FfsInv, DepthInv, AttachInv, DevHold, FfsHold, FunctionsOf, HoldersOf, AndroidDev, NoDuplicates, TypeOK
<1>11. CASE GadgetDisconnect
  BY <1>0, <1>11 DEF GadgetDisconnect, BindInv, ControlInv, FfsInv, DepthInv, AttachInv, DevHold, FfsHold, FunctionsOf, HoldersOf, AndroidDev, NoDuplicates, TypeOK
<1>12. CASE ReadyReturn
  BY <1>0, <1>12 DEF ReadyReturn, BindInv, ControlInv, FfsInv, DepthInv, AttachInv, DevHold, FfsHold, FunctionsOf, HoldersOf, AndroidDev, NoDuplicates, TypeOK
<1>13. CASE ClosedReturn
  BY <1>0, <1>13 DEF ClosedReturn, FfsClosed, BindInv, ControlInv, FfsInv, DepthInv, AttachInv, DevHold, FfsHold, FunctionsOf, HoldersOf, AndroidDev, NoDuplicates, TypeOK
<1>14. CASE ffs_aliases_store
  BY <1>0, <1>14 DEF ffs_aliases_store, Unlocked, BindInv, ControlInv, FfsInv, DepthInv, AttachInv, DevHold, FfsHold, FunctionsOf, HoldersOf, AndroidDev, NoDuplicates, TypeOK
<1>15. CASE functions_store
  BY <1>0, <1>15 DEF functions_store, Unlocked, BindInv, ControlInv, FfsInv, DepthInv, AttachInv, DevHold, FfsHold, FunctionsOf, HoldersOf, AndroidDev, NoDuplicates, TypeOK
<1>16. CASE enable_store_on
  BY <1>0, <1>16 DEF enable_store_on, Unlocked, BindInv, ControlInv, FfsInv, DepthInv, AttachInv, DevHold, FfsHold, FunctionsOf, HoldersOf, AndroidDev, NoDuplicates, TypeOK
<1>17. CASE enable_store_off
  BY <1>0, <1>17 DEF enable_store_off, Unlocked, CallDisable, BindInv, ControlInv, FfsInv, DepthInv, AttachInv, DevHold, FfsHold, FunctionsOf, HoldersOf, AndroidDev, NoDuplicates, TypeOK
<1>18. CASE ReadyReadsDev
  BY <1>0, <1>18 DEF ReadyReadsDev, BindInv, ControlInv, FfsInv, DepthInv, AttachInv, DevHold, FfsHold, FunctionsOf, HoldersOf, AndroidDev, NoDuplicates, TypeOK
<1>19. CASE ReadyLocked
  BY <1>0, <1>19 DEF ReadyLocked, Unlocked, CallEnable, BindInv, ControlInv, FfsInv, DepthInv, AttachInv, DevHold, FfsHold, FunctionsOf, HoldersOf, AndroidDev, NoDuplicates, TypeOK
<1>20. CASE ClosedReadsDev
  BY <1>0, <1>20 DEF ClosedReadsDev, BindInv, ControlInv, FfsInv, DepthInv, AttachInv, DevHold, FfsHold, FunctionsOf, HoldersOf, AndroidDev, NoDuplicates, TypeOK
<1>21. CASE ClosedLocked
  BY <1>0, <1>21 DEF ClosedLocked, Unlocked, CallDisable, BindInv, ControlInv, FfsInv, DepthInv, AttachInv, DevHold, FfsHold, FunctionsOf, HoldersOf, AndroidDev, NoDuplicates, TypeOK
<1>22. CASE ClosedUnlocked
  <2>1. ~ ffs.enabled
    BY <1>22 DEF ClosedUnlocked
  <2>2. added = {} \/ ~ AndroidDev(FFS)
    <3>1. CASE op \in {"none", "functions", "ready"}
      BY <1>0, <2>1, <3>1 DEF FfsInv, DepthInv, AttachInv, BindInv
    <3>2. CASE op = "closed"
      BY <1>0, <2>1, <3>2 DEF FfsInv, BindInv
    <3>3. CASE op = "enable"
      <4>1. CASE pc = "callbacks"
        BY <1>0, <3>3, <4>1 DEF DepthInv, AttachInv, FfsHold
      <4>2. CASE pc # "callbacks"
        BY <1>0, <2>1, <3>3, <4>2 DEF FfsInv, AndroidDev, TypeOK
      <4> QED
        BY <4>1, <4>2
    <3>4. CASE op = "disable"
      <4>1. CASE pc \in {"remove", "disconnect"}
        BY <1>0, <2>1, <3>4, <4>1 DEF FfsInv, BindInv, AndroidDev, TypeOK
      <4>2. CASE pc \notin {"remove", "disconnect"}
        BY <1>0, <3>4, <4>2 DEF DepthInv, AttachInv, FfsHold
      <4> QED
        BY <4>1, <4>2
    <3> QED
      BY <3>1, <3>2, <3>3, <3>4 DEF TypeOK, Ops
  <2>3. \A c \in added : FFS \notin FunctionsOf(c)
    BY <2>2 DEF AndroidDev, FunctionsOf, HoldersOf
  <2>4. \A c : FunctionsOf(c)' = FunctionsOf(c)
    BY <1>22 DEF ClosedUnlocked, FunctionsOf, HoldersOf
  <2> QED
    BY <1>0, <1>22, <2>3, <2>4 DEF ClosedUnlocked, BindInv
<1>23. CASE VideoReadyReadsDev
  BY <1>0, <1>23 DEF VideoReadyReadsDev, BindInv, ControlInv, FfsInv, DepthInv, AttachInv, DevHold, FfsHold, FunctionsOf, HoldersOf, AndroidDev, NoDuplicates, TypeOK
<1>24. CASE video_ready_callback
  BY <1>0, <1>24 DEF video_ready_callback, BindInv, ControlInv, FfsInv, DepthInv, AttachInv, DevHold, FfsHold, FunctionsOf, HoldersOf, AndroidDev, NoDuplicates, TypeOK
<1>25. CASE VideoClosedReadsDev
  BY <1>0, <1>25 DEF VideoClosedReadsDev, BindInv, ControlInv, FfsInv, DepthInv, AttachInv, DevHold, FfsHold, FunctionsOf, HoldersOf, AndroidDev, NoDuplicates, TypeOK
<1>26. CASE video_closed_callback
  BY <1>0, <1>26 DEF video_closed_callback, BindInv, ControlInv, FfsInv, DepthInv, AttachInv, DevHold, FfsHold, FunctionsOf, HoldersOf, AndroidDev, NoDuplicates, TypeOK
<1>27. CASE UNCHANGED vars
  BY <1>0, <1>27 DEF vars, BindInv, ControlInv, FfsInv, DepthInv, AttachInv, DevHold, FfsHold, FunctionsOf, HoldersOf, AndroidDev, NoDuplicates, TypeOK
<1> QED
  BY <1>1, <1>2, <1>3, <1>4, <1>5, <1>6, <1>7, <1>8, <1>9, <1>10, <1>11, <1>12, <1>13, <1>14, <1>15, <1>16, <1>17, <1>18, <1>19, <1>20, <1>21, <1>22, <1>23, <1>24, <1>25, <1>26, <1>27
  DEF Next, HolderStep, Store, FfsStep, VideoStep

\* The configurations are added in order and the gadget is connected after the
\* last of them only.
LEMMA PullStep == TypeOK /\ CoreInv /\ CoreInv' /\ (~ anomaly => PullInv) /\ [Next]_vars => (~ anomaly' => PullInv')
<1> SUFFICES ASSUME TypeOK, CoreInv, CoreInv', ~ anomaly => PullInv, [Next]_vars, ~ anomaly' PROVE PullInv'
  OBVIOUS
<1> USE DEF lists, udc, video, ctl
<1>0. FfsInv /\ DepthInv /\ AttachInv /\ PullInv /\ ControlInv
  BY DEF Next, HolderStep, Store, FfsStep, VideoStep, vars, CoreInv, functions_store_fill, FfsCallback, OtherCallback, CallbacksDone, enable_store_return, AddConfig, AddConfigFails, GadgetConnect, RemoveConfig, RemoveDone, GadgetDisconnect, ReadyReturn, ClosedReturn, ffs_aliases_store, functions_store, enable_store_on, enable_store_off, ReadyReadsDev, ReadyLocked, ClosedReadsDev, ClosedLocked, ClosedUnlocked, VideoReadyReadsDev, video_ready_callback, VideoClosedReadsDev, video_closed_callback
<1>1. CASE functions_store_fill
  BY <1>0, <1>1 DEF functions_store_fill, PullInv, ControlInv, FfsInv, DepthInv, AttachInv, DevHold, FfsHold, TypeOK
<1>2. CASE FfsCallback
  BY <1>0, <1>2 DEF FfsCallback, CallDisable, CallEnable, PullInv, ControlInv, FfsInv, DepthInv, AttachInv, DevHold, FfsHold, TypeOK
<1>3. CASE OtherCallback
  <2>1. VIDEO \notin Functions => holders[idx].f # VIDEO
    <3>1. holders[idx] \in Holder
      BY <1>3 DEF OtherCallback, TypeOK
    <3> QED
      BY <3>1, FunctionsAssumption DEF Holder
  <2>2. VIDEO \notin Functions => video_enabled' = video_enabled
    BY <1>3, <2>1 DEF OtherCallback
  <2>3. UNCHANGED <<pc, added, ci, configs_num, disable_depth, pullup>>
    BY <1>3 DEF OtherCallback
  <2> QED
    BY <1>0, <2>2, <2>3 DEF PullInv
<1>4. CASE CallbacksDone
  <2>1. /\ UNCHANGED <<added, configs_num, pullup, video_enabled>>
        /\ op \in {"enable", "disable"} /\ disable_depth > 0 /\ added = {}
        /\ VIDEO \notin Functions => ~ pullup
    BY <1>0, <1>4 DEF CallbacksDone, ControlInv, DepthInv, AttachInv, FfsHold
  <2>2. CASE op = "disable"
    BY <1>0, <1>4, <2>1, <2>2 DEF CallbacksDone, PullInv
  <2>3. CASE op = "enable" /\ disable_depth = 1
    <3>1. pc' = "add" /\ ci' = 1 /\ disable_depth' = 0
      BY <1>4, <2>1, <2>3 DEF CallbacksDone, CallEnable
    <3>2. added' = 1 .. (ci' - 1) /\ ci' <= configs_num' + 1
      BY <2>1, <3>1 DEF TypeOK
    <3> QED
      BY <1>0, <2>1, <3>1, <3>2 DEF PullInv
  <2>4. CASE op = "enable" /\ disable_depth # 1
    BY <1>0, <1>4, <2>1, <2>4 DEF CallbacksDone, CallEnable, PullInv, TypeOK
  <2> QED
    BY <2>1, <2>2, <2>3, <2>4
<1>5. CASE enable_store_return
  BY <1>0, <1>5 DEF enable_store_return, PullInv, ControlInv, FfsInv, DepthInv, AttachInv, DevHold, FfsHold, TypeOK
<1>6. CASE AddConfig
  BY <1>0, <1>6 DEF AddConfig, PullInv, ControlInv, FfsInv, DepthInv, AttachInv, DevHold, FfsHold, TypeOK
<1>7. CASE AddConfigFails
  BY <1>0, <1>7 DEF AddConfigFails, BindFails, FfsFuncAfter, PullInv, ControlInv, FfsInv, DepthInv, AttachInv, DevHold, FfsHold, TypeOK
<1>8. CASE GadgetConnect
  <2>1. /\ UNCHANGED <<added, configs_num, disable_depth, video_enabled>>
        /\ pc' \in {"callbacks", "finish"}
        /\ added = 1 .. (ci - 1) /\ ci = configs_num + 1
    BY <1>0, <1>8 DEF GadgetConnect, PullInv, TypeOK
  <2>2. ASSUME VIDEO \notin Functions PROVE pullup' = TRUE
    BY <1>0, <1>8, <2>2 DEF GadgetConnect, PullInv
  <2>3. added' = 1 .. configs_num'
    BY <2>1 DEF TypeOK
  <2> QED
    BY <1>0, <2>1, <2>2, <2>3 DEF PullInv
<1>9. CASE RemoveConfig
  BY <1>0, <1>9 DEF RemoveConfig, PullInv, ControlInv, FfsInv, DepthInv, AttachInv, DevHold, FfsHold, TypeOK
<1>10. CASE RemoveDone
  BY <1>0, <1>10 DEF RemoveDone, PullInv, ControlInv, FfsInv, DepthInv, AttachInv, DevHold, FfsHold, TypeOK
<1>11. CASE GadgetDisconnect
  BY <1>0, <1>11 DEF GadgetDisconnect, PullInv, ControlInv, FfsInv, DepthInv, AttachInv, DevHold, FfsHold, TypeOK
<1>12. CASE ReadyReturn
  BY <1>0, <1>12 DEF ReadyReturn, PullInv, ControlInv, FfsInv, DepthInv, AttachInv, DevHold, FfsHold, TypeOK
<1>13. CASE ClosedReturn
  BY <1>0, <1>13 DEF ClosedReturn, FfsClosed, PullInv, ControlInv, FfsInv, DepthInv, AttachInv, DevHold, FfsHold, TypeOK
<1>14. CASE ffs_aliases_store
  BY <1>0, <1>14 DEF ffs_aliases_store, Unlocked, PullInv, ControlInv, FfsInv, DepthInv, AttachInv, DevHold, FfsHold, TypeOK
<1>15. CASE functions_store
  BY <1>0, <1>15 DEF functions_store, Unlocked, PullInv, ControlInv, FfsInv, DepthInv, AttachInv, DevHold, FfsHold, TypeOK
<1>16. CASE enable_store_on
  BY <1>0, <1>16 DEF enable_store_on, Unlocked, PullInv, ControlInv, FfsInv, DepthInv, AttachInv, DevHold, FfsHold, TypeOK
<1>17. CASE enable_store_off
  BY <1>0, <1>17 DEF enable_store_off, Unlocked, CallDisable, PullInv, ControlInv, FfsInv, DepthInv, AttachInv, DevHold, FfsHold, TypeOK
<1>18. CASE ReadyReadsDev
  BY <1>0, <1>18 DEF ReadyReadsDev, PullInv, ControlInv, FfsInv, DepthInv, AttachInv, DevHold, FfsHold, TypeOK
<1>19. CASE ReadyLocked
  <2>1. UNCHANGED <<added, configs_num, pullup, video_enabled>>
    BY <1>19 DEF ReadyLocked
  <2>2. CASE ffs.enabled /\ disable_depth = 1
    <3>1. pc' = "add" /\ ci' = 1 /\ disable_depth' = 0
      BY <1>19, <2>2 DEF ReadyLocked, CallEnable
    <3>2. added = {} /\ (VIDEO \notin Functions => ~ pullup)
      BY <1>0, <1>19, <2>2 DEF ReadyLocked, Unlocked, AttachInv, TypeOK
    <3>3. added' = 1 .. (ci' - 1) /\ ci' <= configs_num' + 1
      BY <2>1, <3>1, <3>2 DEF TypeOK
    <3> QED
      BY <1>0, <2>1, <3>1, <3>2, <3>3 DEF PullInv
  <2>3. CASE ~ (ffs.enabled /\ disable_depth = 1)
    <3>1. pc' = "finish" /\ (disable_depth' = 0 => disable_depth = 0) /\ pc = "idle"
      BY <1>19, <2>3 DEF ReadyLocked, Unlocked, CallEnable, TypeOK
    <3> QED
      BY <1>0, <2>1, <3>1 DEF PullInv
  <2> QED
    BY <2>2, <2>3
<1>20. CASE ClosedReadsDev
  BY <1>0, <1>20 DEF ClosedReadsDev, PullInv, ControlInv, FfsInv, DepthInv, AttachInv, DevHold, FfsHold, TypeOK
<1>21. CASE ClosedLocked
  BY <1>0, <1>21 DEF ClosedLocked, Unlocked, CallDisable, PullInv, ControlInv, FfsInv, DepthInv, AttachInv, DevHold, FfsHold, TypeOK
<1>22. CASE ClosedUnlocked
  BY <1>0, <1>22 DEF ClosedUnlocked, FfsClosed, PullInv, ControlInv, FfsInv, DepthInv, AttachInv, DevHold, FfsHold, TypeOK
<1>23. CASE VideoReadyReadsDev
  BY <1>0, <1>23 DEF VideoReadyReadsDev, PullInv, ControlInv, FfsInv, DepthInv, AttachInv, DevHold, FfsHold, TypeOK
<1>24. CASE video_ready_callback
  BY <1>0, <1>24 DEF video_ready_callback, PullInv, ControlInv, FfsInv, DepthInv, AttachInv, DevHold, FfsHold, TypeOK
<1>25. CASE VideoClosedReadsDev
  BY <1>0, <1>25 DEF VideoClosedReadsDev, PullInv, ControlInv, FfsInv, DepthInv, AttachInv, DevHold, FfsHold, TypeOK
<1>26. CASE video_closed_callback
  BY <1>0, <1>26 DEF video_closed_callback, PullInv, ControlInv, FfsInv, DepthInv, AttachInv, DevHold, FfsHold, TypeOK
<1>27. CASE UNCHANGED vars
  BY <1>0, <1>27 DEF vars, PullInv, ControlInv, FfsInv, DepthInv, AttachInv, DevHold, FfsHold, TypeOK
<1> QED
  BY <1>1, <1>2, <1>3, <1>4, <1>5, <1>6, <1>7, <1>8, <1>9, <1>10, <1>11, <1>12, <1>13, <1>14, <1>15, <1>16, <1>17, <1>18, <1>19, <1>20, <1>21, <1>22, <1>23, <1>24, <1>25, <1>26, <1>27
  DEF Next, HolderStep, Store, FfsStep, VideoStep

\* The inductive invariant holds in every reachable state: where every handler
\* is, how deep the device is disabled there, what is attached and bound, and
\* what the host sees.
THEOREM Inductive == Spec => []IndInv
<1>1. ASSUME Init PROVE IndInv
  <2>1. ControlInv
    BY <1>1 DEF Init, ControlInv
  <2>2. FfsInv
    BY <1>1 DEF Init, FfsInv, AndroidDev
  <2>3. DepthInv
    BY <1>1 DEF Init, DepthInv, DevHold, FfsHold
  <2>4. AttachInv
    BY <1>1 DEF Init, AttachInv
  <2>5. BindInv
    BY <1>1 DEF Init, BindInv
  <2>6. PullInv
    BY <1>1 DEF Init, PullInv
  <2> QED
    BY <2>1, <2>2, <2>3, <2>4, <2>5, <2>6 DEF IndInv, CoreInv
<1>2. TypeOK /\ IndInv /\ [Next]_vars => IndInv'
  BY CoreStep, BindStep, PullStep DEF IndInv
<1> QED
  BY <1>1, <1>2, TypeCorrect, PTL DEF Spec

\* android_enable and android_disable calls balance: with the mutex free,
\* disable_depth is exactly one for a disabled device plus one for an enabled
\* ffs that is not open.
THEOREM DepthIsBalanced == Spec => []DepthBalanced
<1>1. IndInv => DepthBalanced
  BY DEF IndInv, CoreInv, DepthInv, DevHold, FfsHold, DepthBalanced, Unlocked
<1> QED
  BY <1>1, Inductive, PTL

\* functions_store never frees a configuration that the composite device still
\* holds nor, without video, rewrites the lists while the host sees the gadget.
THEOREM FreedConfigsAreDetached == Spec => []FreedConfigsDetached
<1>1. TypeOK /\ IndInv => FreedConfigsDetached
  <2> SUFFICES ASSUME TypeOK, IndInv, pc = "fill", ~ anomaly
               PROVE  added = {} /\ (VIDEO \notin Functions => ~ pullup)
    BY DEF FreedConfigsDetached
  <2>1. op = "functions" /\ ~ enabled
    BY DEF TypeOK, IndInv, CoreInv, ControlInv
  <2>2. disable_depth > 0
    BY <2>1 DEF IndInv, CoreInv, DepthInv, DevHold, FfsHold
  <2> QED
    BY <2>2 DEF IndInv, CoreInv, AttachInv
<1> QED
  BY <1>1, TypeCorrect, Inductive, PTL

\* What enable_store and the callbacks bind they unbind: no holder stays bound
\* once its configuration is gone, whichever bind failed, and the ffs function
\* object is not put while a configuration holds it.
THEOREM BindingsAreExact == Spec => []BindingsExact
<1>1. IndInv => BindingsExact
  BY DEF IndInv, BindInv, BindingsExact, UnbindPairsBind, BoundFfsHasFunc
<1> QED
  BY <1>1, Inductive, PTL

\* Without video the host sees the gadget exactly when it is enabled, complete,
\* and ffs, if listed, is open: no failed bind and no order of the callbacks
\* leaves a half-made gadget on the bus, or a complete one off it.
THEOREM PullupIsExact == Spec => []PullupExact
<1>1. TypeOK /\ IndInv => PullupExact
  <2> SUFFICES ASSUME TypeOK, IndInv, Unlocked, ~ anomaly, VIDEO \notin Functions
               PROVE  pullup <=> /\ enabled
                                 /\ added = 1 .. configs_num
                                 /\ AndroidDev(FFS) => ffs.opened
    BY DEF PullupExact
  <2>1. /\ op = "none" /\ pc = "idle" /\ disable_depth = DevHold + FfsHold
        /\ ffs.enabled <=> enabled /\ AndroidDev(FFS)
    BY DEF TypeOK, Unlocked, IndInv, CoreInv, FfsInv, DepthInv
  <2>2. CASE disable_depth = 0
    <3>1. enabled /\ (AndroidDev(FFS) => ffs.opened)
      BY <2>1, <2>2 DEF DevHold, FfsHold
    <3> QED
      BY <2>1, <2>2, <3>1 DEF IndInv, PullInv
  <2>3. CASE disable_depth # 0
    <3>1. ~ enabled \/ (AndroidDev(FFS) /\ ~ ffs.opened)
      BY <2>1, <2>3 DEF DevHold, FfsHold
    <3>2. ~ pullup
      BY <2>1, <2>3 DEF IndInv, CoreInv, AttachInv, TypeOK
    <3> QED
      BY <3>1, <3>2
  <2> QED
    BY <2>2, <2>3
<1> QED
  BY <1>1, TypeCorrect, Inductive, PTL

=============================================================================
