--------------------------- MODULE AndroidGadget ---------------------------
(***************************************************************************)
(* The enable/disable machinery of the Android composite USB gadget        *)
(* (usb/gadget/android.c), for one android_dev.                            *)
(*                                                                         *)
(* Userspace writes the sysfs attributes `functions', `enable' and         *)
(* `f_ffs/aliases'; the FunctionFS daemon (adbd) opens and closes its      *)
(* endpoints, which calls functionfs_ready_callback/_closed_callback; the  *)
(* userspace UVC driver opens and closes its video node, which calls       *)
(* video_ready_callback/_closed_callback.  The stores and the FunctionFS   *)
(* callbacks are serialised by dev->mutex, so which thread runs a store    *)
(* does not matter: `op' is the handler inside the critical section and    *)
(* `pc' the place it has reached.  Three accesses are made without the     *)
(* mutex: both FunctionFS callbacks read ffs_function.android_dev before   *)
(* they lock, the closed callback does not lock at all when it read NULL,  *)
(* and the video callbacks never lock.                                     *)
(***************************************************************************)
EXTENDS Naturals, Sequences, FiniteSets

CONSTANTS
    Functions,      \* dev->functions, by name
    FFS,            \* the function named "ffs"
    VIDEO,          \* the function named "video"; not in Functions if not built in
    NoFunction,     \* mark of a written name for which no holder was made
    EmptyName,      \* the empty string, which strsep() yields for "" and ",,"
    FunctionLists,  \* what is written to `functions': sequences of [conf, name]
    AliasLists,     \* what is written to `f_ffs/aliases': sets of names
    IsDwc3,         \* gadget_is_dwc3(cdev->gadget)
    MaxDepth        \* bound: an `enable' that finds a deeper disable_depth is
                    \* not explored (only an anomaly makes it grow)

\* One written name: its configuration (the ':'-separated part) and itself.
Token == [conf : Nat \ {0}, name : (UNION AliasLists) \cup Functions \cup {EmptyName, NoFunction}]

ASSUME FunctionsAssumption ==
    /\ FFS \in Functions
    /\ NoFunction \notin Functions
    /\ VIDEO \notin {FFS, NoFunction}

ASSUME ListsAssumption ==
    \A l \in FunctionLists : l \in Seq(Token) /\ Len(l) > 0

ASSUME OptionsAssumption == IsDwc3 \in BOOLEAN /\ MaxDepth \in Nat \ {0}

VARIABLES
    op,             \* the handler that holds dev->mutex, "none" if it is free
    pc,             \* where that handler is
    ret,            \* where android_enable/android_disable return to
    idx,            \* the f_holder loop of enable_store
    ci,             \* the conf loop of android_enable/android_disable
    holders,        \* the enabled_functions lists, one after the other
    configs_num,    \* length of dev->configs
    ffs_aliases,    \* dev->ffs_aliases, as a set of names
    enabled,        \* dev->enabled
    disable_depth,  \* dev->disable_depth
    ffs,            \* struct functionfs_config: opened, enabled, func
    ffsPc,          \* the FunctionFS daemon
    video_enabled,  \* the static of the same name
    videoPc,        \* the userspace UVC driver
    added,          \* configurations the composite device holds
    bound,          \* functions whose bound flag is set
    live,           \* holders bound and not yet passed to unbind_config
    pullup,         \* usb_gadget_connect was called last
    anomaly         \* history: see Anomaly below

ctl == <<op, pc, ret, idx, ci>>
lists == <<holders, configs_num, ffs_aliases>>
udc == <<added, bound, live, pullup>>
video == <<video_enabled, videoPc>>
vars == <<ctl, lists, enabled, disable_depth, ffs, ffsPc, video, udc, anomaly>>

-----------------------------------------------------------------------------
(***************************************************************************)
(* The lists.                                                              *)
(***************************************************************************)
Holder == [conf : Nat \ {0}, f : Functions \cup {NoFunction}]

\* f->android_dev is set exactly while f has a holder.
AndroidDev(f) == \E i \in DOMAIN holders : holders[i].f = f

\* The holders of one configuration.
HoldersOf(c) == {i \in DOMAIN holders : holders[i].conf = c /\ holders[i].f \in Functions}

\* Does android_enable_function make a holder for the i-th written name?  An
\* alias stands for "ffs", once; oom are the names whose kzalloc fails.
MakesHolder(l, a, oom, i) ==
    /\ i \notin oom
    /\ IF l[i].name \in a
       THEN \A j \in 1 .. (i - 1) : l[j].name \in a => j \in oom
       ELSE l[i].name \in Functions

Parse(l, a, oom) ==
    [i \in 1 .. Len(l) |->
        [conf |-> l[i].conf,
         f |-> IF ~ MakesHolder(l, a, oom, i) THEN NoFunction
               ELSE IF l[i].name \in a THEN FFS ELSE l[i].name]]

\* Bound: at most one kzalloc fails in a write.
AllocFailures(l) == {{}} \cup {{i} : i \in 1 .. Len(l)}

\* No function has two holders.
NoDuplicates ==
    \A i, j \in DOMAIN holders :
        holders[i].f = holders[j].f /\ holders[i].f # NoFunction => i = j

-----------------------------------------------------------------------------
(***************************************************************************)
(* The critical section.                                                   *)
(***************************************************************************)
Unlocked == op = "none"

\* Mutants of android_disable: nested calls are not counted, or the gadget is
\* not disconnected where that comes first.
CallDisableNotNested(r) ==
    IF disable_depth = 0
    THEN /\ disable_depth' = 1
         /\ pc' = IF IsDwc3 THEN "remove" ELSE "disconnect"
         /\ ret' = r
         /\ ci' = 1
    ELSE /\ pc' = r
         /\ UNCHANGED <<disable_depth, ret, ci>>

CallDisableStaysConnected(r) ==
    /\ disable_depth' = disable_depth + 1
    /\ IF disable_depth = 0
       THEN pc' = "remove" /\ ret' = r /\ ci' = 1
       ELSE pc' = r /\ UNCHANGED <<ret, ci>>

\* android_disable: the first disable takes the gadget down; r is where the
\* caller goes on.  The autopm reference taken around it is released before
\* the call returns.
CallDisable(r) ==
    /\ disable_depth' = disable_depth + 1
    /\ IF disable_depth = 0
       THEN /\ pc' = IF IsDwc3 THEN "remove" ELSE "disconnect"
            /\ ret' = r
            /\ ci' = 1
       ELSE /\ pc' = r
            /\ UNCHANGED <<ret, ci>>

\* Mutant of android_enable: the WARN_ON does not return.
CallEnableNoReturn(r) ==
    /\ disable_depth' = disable_depth - 1
    /\ IF disable_depth = 1
       THEN pc' = "add" /\ ret' = r /\ ci' = 1
       ELSE pc' = r /\ UNCHANGED <<ret, ci>>

\* android_enable: WARN_ON and nothing else at depth 0, the last enable
\* brings the gadget up.
CallEnable(r) ==
    IF disable_depth = 0
    THEN /\ pc' = r
         /\ UNCHANGED <<disable_depth, ret, ci>>
    ELSE /\ disable_depth' = disable_depth - 1
         /\ IF disable_depth = 1
            THEN pc' = "add" /\ ret' = r /\ ci' = 1
            ELSE pc' = r /\ UNCHANGED <<ret, ci>>

\* android_unbind_enabled_functions: f->bound is one flag for all the holders
\* of f, so only the first of them reaches unbind_config.
UnbindHolders(c, bnd, lv) ==
    lv \ {i \in HoldersOf(c) :
            /\ holders[i].f \in bnd
            /\ \A j \in HoldersOf(c) : holders[j].f = holders[i].f => i <= j}

FunctionsOf(c) == {holders[i].f : i \in HoldersOf(c)}

\* usb_add_config -> android_bind_config succeeds.
AddConfig ==
    /\ pc = "add"
    /\ ci <= configs_num
    /\ ci \notin added
    /\ added' = added \cup {ci}
    /\ bound' = bound \cup FunctionsOf(ci)
    /\ live' = live \cup HoldersOf(ci)
    /\ ffs' = IF FFS \in FunctionsOf(ci) THEN [ffs EXCEPT !.func = "live"] ELSE ffs
    /\ ci' = ci + 1
    /\ UNCHANGED <<op, pc, ret, idx, lists, enabled, disable_depth, ffsPc, video, pullup, anomaly>>

\* config->func when the bind of configuration ci stops at holder k.  If that
\* is ffs itself, func is NULL or, when usb_get_function failed, an error
\* pointer; if ffs came before k, its object is there and nobody puts it.
FfsFuncAfter(k) ==
    IF holders[k].f = FFS THEN {"none", "err"}
    ELSE IF \E i \in HoldersOf(ci) : i < k /\ holders[i].f = FFS THEN {"live"}
    ELSE {ffs.func}

\* Mutant of the error path: what was bound before holder k stays bound.
BindFailsKeepsBound(k) ==
    LET before == {i \in HoldersOf(ci) : i < k}
    IN  /\ live' = live \cup before
        /\ bound' = bound \cup {holders[i].f : i \in before}
        /\ \E func \in FfsFuncAfter(k) : ffs' = [ffs EXCEPT !.func = func]

\* bind_config of holder k fails and what was bound before it is undone.
BindFails(k) ==
    LET before == {i \in HoldersOf(ci) : i < k}
        bnd == bound \cup {holders[i].f : i \in before}
    IN  /\ live' = UnbindHolders(ci, bnd, live \cup before)
        /\ bound' = bnd \ FunctionsOf(ci)
        /\ \E func \in FfsFuncAfter(k) : ffs' = [ffs EXCEPT !.func = func]

\* Mutant: android_enable goes on with the next configuration.
AddConfigFailsGoesOn ==
    /\ pc = "add"
    /\ ci <= configs_num
    /\ IF ci \in added
       THEN UNCHANGED <<ffs, bound, live>>
       ELSE \E k \in HoldersOf(ci) : BindFails(k)
    /\ ci' = ci + 1
    /\ UNCHANGED <<op, pc, ret, idx, lists, enabled, disable_depth, ffsPc, video, added, pullup, anomaly>>

\* usb_add_config fails: android_enable returns without connecting, and every
\* caller goes on as if it had not.  A configuration that is already there is
\* refused before anything is bound.
AddConfigFails ==
    /\ pc = "add"
    /\ ci <= configs_num
    /\ IF ci \in added
       THEN UNCHANGED <<ffs, bound, live>>
       ELSE \E k \in HoldersOf(ci) : BindFails(k)
    /\ pc' = ret
    /\ UNCHANGED <<op, ret, idx, ci, lists, enabled, disable_depth, ffsPc, video, added, pullup, anomaly>>

\* The end of android_enable: the UVC driver connects when video is enabled.
GadgetConnect ==
    /\ pc = "add"
    /\ ci > configs_num
    /\ pullup' = (pullup \/ ~ video_enabled)
    /\ pc' = ret
    /\ UNCHANGED <<op, ret, idx, ci, lists, enabled, disable_depth, ffs, ffsPc, video,
                   added, bound, live, anomaly>>

\* usb_remove_config -> android_unbind_config; a configuration that was never
\* added is left alone.
RemoveConfig ==
    /\ pc = "remove"
    /\ ci <= configs_num
    /\ added' = added \ {ci}
    /\ IF ci \in added
       THEN /\ live' = UnbindHolders(ci, bound, live)
            /\ bound' = bound \ FunctionsOf(ci)
       ELSE UNCHANGED <<bound, live>>
    /\ ci' = ci + 1
    /\ UNCHANGED <<op, pc, ret, idx, lists, enabled, disable_depth, ffs, ffsPc, video, pullup, anomaly>>

RemoveDone ==
    /\ pc = "remove"
    /\ ci > configs_num
    /\ pc' = IF IsDwc3 THEN "disconnect" ELSE ret
    /\ UNCHANGED <<op, ret, idx, ci, lists, enabled, disable_depth, ffs, ffsPc, video, udc, anomaly>>

GadgetDisconnect ==
    /\ pc = "disconnect"
    /\ pullup' = FALSE
    /\ pc' = IF IsDwc3 THEN ret ELSE "remove"
    /\ UNCHANGED <<op, ret, idx, ci, lists, enabled, disable_depth, ffs, ffsPc, video,
                   added, bound, live, anomaly>>

-----------------------------------------------------------------------------
(***************************************************************************)
(* The sysfs stores.                                                       *)
(***************************************************************************)
\* ffs_aliases_store: refused with -EBUSY while enabled.
ffs_aliases_store ==
    /\ Unlocked
    /\ ~ enabled
    /\ ffs_aliases' \in AliasLists
    /\ UNCHANGED <<ctl, holders, configs_num, enabled, disable_depth, ffs, ffsPc, video, udc, anomaly>>

\* Mutant: functions_store without its -EBUSY.
functions_store_unguarded ==
    /\ Unlocked
    /\ op' = "functions"
    /\ pc' = "fill"
    /\ holders' = <<>>
    /\ live' = {}
    /\ UNCHANGED <<ret, idx, ci, configs_num, ffs_aliases, enabled, disable_depth, ffs, ffsPc, video,
                   added, bound, pullup, anomaly>>

\* functions_store, first half: -EBUSY while enabled, else the old lists are
\* freed and their functions' android_dev is reset.
functions_store ==
    /\ Unlocked
    /\ ~ enabled
    /\ op' = "functions"
    /\ pc' = "fill"
    /\ holders' = <<>>
    /\ live' = {}
    /\ UNCHANGED <<ret, idx, ci, configs_num, ffs_aliases, enabled, disable_depth, ffs, ffsPc, video,
                   added, bound, pullup, anomaly>>

\* functions_store, second half: the new lists; configurations are allocated
\* or freed at the tail until there is one per ':'-separated part.
functions_store_fill ==
    /\ pc = "fill"
    /\ \E l \in FunctionLists :
          /\ \E oom \in AllocFailures(l) : holders' = Parse(l, ffs_aliases, oom)
          /\ configs_num' = l[Len(l)].conf
    /\ op' = "none"
    /\ pc' = "idle"
    /\ UNCHANGED <<ret, idx, ci, ffs_aliases, enabled, disable_depth, ffs, ffsPc, video, udc, anomaly>>

\* enable_store, "1" while disabled: first the enable callbacks run.
\* Anomaly: a function listed twice is brought up.
enable_store_on ==
    /\ Unlocked
    /\ ~ enabled
    /\ disable_depth <= MaxDepth
    /\ op' = "enable"
    /\ pc' = "callbacks"
    /\ idx' = 1
    /\ anomaly' = (anomaly \/ ~ NoDuplicates)
    /\ UNCHANGED <<ret, ci, lists, enabled, disable_depth, ffs, ffsPc, video, udc>>

\* enable_store, "0" while enabled: android_disable, then the disable callbacks.
enable_store_off ==
    /\ Unlocked
    /\ enabled
    /\ op' = "disable"
    /\ idx' = 1
    /\ CallDisable("callbacks")
    /\ UNCHANGED <<lists, enabled, ffs, ffsPc, video, udc, anomaly>>

\* ffs_function_enable / ffs_function_disable on the holder at idx.
FfsCallback ==
    /\ pc = "callbacks"
    /\ idx <= Len(holders)
    /\ holders[idx].f = FFS
    /\ ffs' = [ffs EXCEPT !.enabled = (op = "enable")]
    /\ IF ffs.opened
       THEN UNCHANGED <<pc, ret, ci, disable_depth>>
       ELSE IF op = "enable" THEN CallDisable("callbacks") ELSE CallEnable("callbacks")
    /\ idx' = idx + 1
    /\ UNCHANGED <<op, lists, enabled, ffsPc, video, udc, anomaly>>

\* The callbacks of the other functions: video_function_enable/_disable, none
\* elsewhere.
OtherCallback ==
    /\ pc = "callbacks"
    /\ idx <= Len(holders)
    /\ holders[idx].f # FFS
    /\ video_enabled' = IF holders[idx].f = VIDEO THEN op = "enable" ELSE video_enabled
    /\ idx' = idx + 1
    /\ UNCHANGED <<op, pc, ret, ci, lists, enabled, disable_depth, ffs, ffsPc, videoPc, udc, anomaly>>

\* After its callbacks enable_store("1") calls android_enable.
CallbacksDone ==
    /\ pc = "callbacks"
    /\ idx > Len(holders)
    /\ IF op = "enable"
       THEN CallEnable("finish")
       ELSE pc' = "finish" /\ UNCHANGED <<ret, ci, disable_depth>>
    /\ UNCHANGED <<op, idx, lists, enabled, ffs, ffsPc, video, udc, anomaly>>

\* dev->enabled is set whether or not android_enable succeeded.
enable_store_return ==
    /\ pc = "finish"
    /\ op \in {"enable", "disable"}
    /\ enabled' = (op = "enable")
    /\ op' = "none"
    /\ pc' = "idle"
    /\ UNCHANGED <<ret, idx, ci, lists, disable_depth, ffs, ffsPc, video, udc, anomaly>>

-----------------------------------------------------------------------------
(***************************************************************************)
(* FunctionFS: a daemon that is "down" is made ready, may be refused, is   *)
(* "up" and is closed again.  f_fs.c (external) serialises the callbacks.  *)
(***************************************************************************)
\* functionfs_ready_callback reads android_dev; -ENODEV leaves the daemon down.
ReadyReadsDev ==
    /\ ffsPc = "down"
    /\ AndroidDev(FFS)
    /\ ffsPc' = "readyWait"
    /\ UNCHANGED <<ctl, lists, enabled, disable_depth, ffs, video, udc, anomaly>>

\* Mutant: the ready callback gives up when the mutex is taken.
ReadyTriesLock ==
    /\ ffsPc = "readyWait"
    /\ IF Unlocked
       THEN /\ op' = "ready"
            /\ ffs' = [ffs EXCEPT !.opened = TRUE]
            /\ IF ffs.enabled
               THEN CallEnable("finish")
               ELSE pc' = "finish" /\ UNCHANGED <<disable_depth, ret, ci>>
            /\ ffsPc' = "inReady"
       ELSE ffsPc' = "down" /\ UNCHANGED <<op, pc, ret, ci, disable_depth, ffs>>
    /\ UNCHANGED <<idx, lists, enabled, video, udc, anomaly>>

\* Under the mutex the daemon is open and balances the disable made for it.
ReadyLocked ==
    /\ ffsPc = "readyWait"
    /\ Unlocked
    /\ op' = "ready"
    /\ ffs' = [ffs EXCEPT !.opened = TRUE]
    /\ IF ffs.enabled
       THEN CallEnable("finish")
       ELSE pc' = "finish" /\ UNCHANGED <<disable_depth, ret, ci>>
    /\ ffsPc' = "inReady"
    /\ UNCHANGED <<idx, lists, enabled, video, udc, anomaly>>

ReadyReturn ==
    /\ op = "ready"
    /\ pc = "finish"
    /\ op' = "none"
    /\ pc' = "idle"
    /\ ffsPc' = "up"
    /\ UNCHANGED <<ret, idx, ci, lists, enabled, disable_depth, ffs, video, udc, anomaly>>

\* functionfs_closed_callback reads android_dev: NULL between the two halves
\* of functions_store and while ffs is not listed.
ClosedReadsDev ==
    /\ ffsPc = "up"
    /\ ffsPc' = IF AndroidDev(FFS) THEN "closedWait" ELSE "closedNull"
    /\ UNCHANGED <<ctl, lists, enabled, disable_depth, ffs, video, udc, anomaly>>

\* Under the mutex an enabled function first takes the device down.
ClosedLocked ==
    /\ ffsPc = "closedWait"
    /\ Unlocked
    /\ op' = "closed"
    /\ IF ffs.enabled
       THEN CallDisable("finish")
       ELSE pc' = "finish" /\ UNCHANGED <<disable_depth, ret, ci>>
    /\ ffsPc' = "inClosed"
    /\ UNCHANGED <<idx, lists, enabled, ffs, video, udc, anomaly>>

\* opened is reset and the function is put.
FfsClosed == [ffs EXCEPT !.opened = FALSE, !.func = "none"]

ClosedReturn ==
    /\ op = "closed"
    /\ pc = "finish"
    /\ ffs' = FfsClosed
    /\ op' = "none"
    /\ pc' = "idle"
    /\ ffsPc' = "down"
    /\ UNCHANGED <<ret, idx, ci, lists, enabled, disable_depth, video, udc, anomaly>>

\* The same tail without the mutex and without android_disable.  Anomaly: by
\* now ffs has been listed again and enabled.
ClosedUnlocked ==
    /\ ffsPc = "closedNull"
    /\ ffs' = FfsClosed
    /\ ffsPc' = "down"
    /\ anomaly' = (anomaly \/ ffs.enabled)
    /\ UNCHANGED <<ctl, lists, enabled, disable_depth, video, udc>>

-----------------------------------------------------------------------------
(***************************************************************************)
(* UVC: f_uvc.c (external) calls back when the video node of a bound       *)
(* function is opened and when it is closed.  Both callbacks read          *)
(* android_dev, return -ENODEV on NULL, and act without the mutex.         *)
(***************************************************************************)
VideoReadyReadsDev ==
    /\ videoPc = "closed"
    /\ VIDEO \in bound
    /\ AndroidDev(VIDEO)
    /\ videoPc' = "opening"
    /\ UNCHANGED <<ctl, lists, enabled, disable_depth, ffs, ffsPc, video_enabled, udc, anomaly>>

video_ready_callback ==
    /\ videoPc = "opening"
    /\ pullup' = TRUE
    /\ videoPc' = "open"
    /\ UNCHANGED <<ctl, lists, enabled, disable_depth, ffs, ffsPc, video_enabled, added, bound, live, anomaly>>

VideoClosedReadsDev ==
    /\ videoPc = "open"
    /\ videoPc' = IF AndroidDev(VIDEO) THEN "closing" ELSE "closed"
    /\ UNCHANGED <<ctl, lists, enabled, disable_depth, ffs, ffsPc, video_enabled, udc, anomaly>>

video_closed_callback ==
    /\ videoPc = "closing"
    /\ pullup' = FALSE
    /\ videoPc' = "closed"
    /\ UNCHANGED <<ctl, lists, enabled, disable_depth, ffs, ffsPc, video_enabled, added, bound, live, anomaly>>

-----------------------------------------------------------------------------
\* android_probe and android_bind: disable_depth starts at 1, the gadget
\* disconnected, no configuration, no alias (strsep sees one empty name).
Init ==
    /\ op = "none" /\ pc = "idle" /\ ret = "finish" /\ idx = 1 /\ ci = 1
    /\ holders = <<>> /\ configs_num = 0 /\ ffs_aliases = {EmptyName}
    /\ enabled = FALSE /\ disable_depth = 1
    /\ ffs = [opened |-> FALSE, enabled |-> FALSE, func |-> "none"]
    /\ ffsPc = "down"
    /\ video_enabled = FALSE /\ videoPc = "closed"
    /\ added = {} /\ bound = {} /\ live = {} /\ pullup = FALSE
    /\ anomaly = FALSE

\* The steps of whoever is inside the critical section.
HolderStep ==
    \/ functions_store_fill
    \/ FfsCallback \/ OtherCallback \/ CallbacksDone \/ enable_store_return
    \/ AddConfig \/ AddConfigFails \/ GadgetConnect
    \/ RemoveConfig \/ RemoveDone \/ GadgetDisconnect
    \/ ReadyReturn \/ ClosedReturn

Store == ffs_aliases_store \/ functions_store \/ enable_store_on \/ enable_store_off

FfsStep == ReadyReadsDev \/ ReadyLocked \/ ClosedReadsDev \/ ClosedLocked \/ ClosedUnlocked

VideoStep == VideoReadyReadsDev \/ video_ready_callback \/ VideoClosedReadsDev \/ video_closed_callback

Next == HolderStep \/ Store \/ FfsStep \/ VideoStep

Spec == Init /\ [][Next]_vars

\* Code inside the critical section runs to its end; a callback waiting for
\* the mutex gets it (the kernel's mutexes queue their waiters) and an unlocked
\* callback returns.  Userspace need not do anything.
Fairness ==
    /\ WF_vars(HolderStep)
    /\ SF_vars(ReadyLocked)
    /\ SF_vars(ClosedLocked)
    /\ WF_vars(ClosedUnlocked)

FairSpec == Spec /\ Fairness

-----------------------------------------------------------------------------
(***************************************************************************)
(* Properties.  `anomaly' records that userspace brought up a composition  *)
(* that lists a function twice, or that a closed callback which read       *)
(* android_dev = NULL finished after ffs was enabled again: what the code  *)
(* does then is the subject of the last group.                             *)
(***************************************************************************)
Ops == {"none", "functions", "enable", "disable", "ready", "closed"}
Pcs == {"idle", "fill", "callbacks", "add", "remove", "disconnect", "finish"}
FfsPcs == {"down", "readyWait", "inReady", "up", "closedWait", "closedNull", "inClosed"}

\* The type of every variable; the mutex is free exactly when no handler runs.
TypeOK ==
    /\ op \in Ops /\ pc \in Pcs /\ ret \in {"callbacks", "finish"}
    /\ (op = "none") <=> (pc = "idle")
    /\ (op = "functions") <=> (pc = "fill")
    /\ idx \in Nat \ {0} /\ ci \in Nat \ {0}
    /\ holders \in Seq(Holder) /\ configs_num \in Nat
    /\ enabled \in BOOLEAN /\ disable_depth \in Nat
    /\ ffs \in [opened : BOOLEAN, enabled : BOOLEAN, func : {"none", "live", "err"}]
    /\ ffsPc \in FfsPcs
    /\ video_enabled \in BOOLEAN
    /\ videoPc \in {"closed", "opening", "open", "closing"}
    /\ added \subseteq Nat /\ bound \subseteq Functions /\ live \subseteq Nat
    /\ pullup \in BOOLEAN /\ anomaly \in BOOLEAN

\* Every android_disable is matched: with the mutex free, disable_depth counts
\* one for a disabled device and one for an enabled ffs that nobody has open.
DepthBalanced ==
    Unlocked /\ ~ anomaly =>
        disable_depth = (IF enabled THEN 0 ELSE 1)
                      + (IF ffs.enabled /\ ~ ffs.opened THEN 1 ELSE 0)

\* functions_store rewrites the lists and frees configurations only when none
\* of them is held by the composite device and, without video, the host cannot
\* see the gadget (android_setup walks the lists without the mutex).
FreedConfigsDetached ==
    pc = "fill" /\ ~ anomaly => added = {} /\ (VIDEO \notin Functions => ~ pullup)

\* The ffs function object is not put while a configuration that contains it
\* is added to the composite device.
BoundFfsHasFunc ==
    ~ anomaly => \A c \in added : FFS \in FunctionsOf(c) => ffs.func = "live"

\* Nothing stays bound once its configuration is removed, even when a later
\* function or configuration fails to bind.
UnbindPairsBind ==
    ~ anomaly => \A i \in live : holders[i].conf \in added

\* Nothing stays bound outside a configuration of the composite device, and the
\* ffs function object is there for as long as its configuration is.
BindingsExact == UnbindPairsBind /\ BoundFfsHasFunc

\* Without video the host sees the gadget exactly when it is enabled, every
\* configuration was added and ffs, if listed, is open.
PullupExact ==
    Unlocked /\ ~ anomaly /\ VIDEO \notin Functions =>
        (pullup <=> /\ enabled
                    /\ added = 1 .. configs_num
                    /\ AndroidDev(FFS) => ffs.opened)

\* The daemon's open and close return: no store keeps the mutex for ever.
CallbacksReturn ==
    /\ ffsPc = "readyWait" ~> ffsPc = "up"
    /\ ffsPc \in {"closedWait", "closedNull"} ~> ffsPc = "down"

-----------------------------------------------------------------------------
(***************************************************************************)
(* The inductive strengthening of the safety properties: where the open    *)
(* and enabled flags stand while a handler is under way, how deep the      *)
(* device is disabled at that point, what is still attached and bound, and *)
(* what the host sees.                                                     *)
(***************************************************************************)
FfsHold == IF ffs.enabled /\ ~ ffs.opened THEN 1 ELSE 0
DevHold == IF enabled THEN 0 ELSE 1

\* The handler, its place and the daemon agree.
ControlInv ==
    /\ ffs.opened <=> ffsPc \in {"inReady", "up", "closedWait", "closedNull", "inClosed"}
    /\ op = "ready" <=> ffsPc = "inReady"
    /\ op = "closed" <=> ffsPc = "inClosed"
    /\ op \in {"functions", "enable"} => ~ enabled
    /\ op = "disable" => enabled
    /\ pc = "callbacks" => op \in {"enable", "disable"}
    /\ pc \in {"add", "remove", "disconnect"} /\ ret = "callbacks" => op \in {"enable", "disable"}
    /\ VIDEO \notin Functions => videoPc = "closed"

\* ffs.enabled follows the callbacks of enable_store, and no function is listed
\* twice in what is or is being brought up or down.
FfsInv ==
    /\ enabled \/ op = "enable" => NoDuplicates
    /\ op \in {"none", "functions", "ready", "closed"} =>
          (ffs.enabled <=> enabled /\ AndroidDev(FFS))
    /\ op = "enable" =>
          (ffs.enabled <=> \E i \in DOMAIN holders : i < idx /\ holders[i].f = FFS)
    /\ op = "disable" =>
          (ffs.enabled <=> \E i \in DOMAIN holders : i >= idx /\ holders[i].f = FFS)
    /\ op = "enable" /\ pc # "callbacks" => idx > Len(holders)
    /\ op = "disable" /\ pc = "finish" => idx > Len(holders)

\* disable_depth at every point of every handler.
DepthInv ==
    /\ op \in {"none", "functions", "ready"} => disable_depth = DevHold + FfsHold
    /\ op = "closed" => disable_depth = DevHold + (IF ffs.enabled THEN 1 ELSE 0)
    /\ op = "enable" /\ pc = "callbacks" => disable_depth = 1 + FfsHold
    /\ op = "enable" /\ pc # "callbacks" => pc \in {"add", "finish"} /\ disable_depth = FfsHold
    /\ op = "enable" /\ pc = "add" => ret = "finish"
    /\ op = "disable" => pc # "add" /\ disable_depth = 1 + FfsHold
    /\ op = "disable" /\ pc \in {"remove", "disconnect"} => ret = "callbacks"
    /\ pc = "add" => disable_depth = 0
    /\ pc \in {"remove", "disconnect"} => disable_depth > 0

\* What the composite device still holds and the host still sees.
AttachInv ==
    /\ added \subseteq 1 .. configs_num
    /\ disable_depth > 0 /\ pc \notin {"remove", "disconnect"} => added = {}
    /\ pc = "remove" => \A c \in added : c >= ci
    /\ pc = "disconnect" => IF IsDwc3 THEN added = {} ELSE ci = 1
    /\ VIDEO \notin Functions /\ disable_depth > 0 =>
          (pullup => pc = "disconnect" \/ (pc = "remove" /\ IsDwc3))

\* What is bound belongs to a configuration that is added, and its flag is set,
\* so that the removal of that configuration reaches it.  The ffs object is
\* there for the one configuration that may hold it: no place is left where
\* a closed callback could put it, the one without the mutex included.
BindInv ==
    /\ added # {} => enabled \/ op = "enable"
    /\ \A i \in live : /\ i \in DOMAIN holders
                       /\ holders[i].f \in Functions \cap bound
                       /\ holders[i].conf \in added
    /\ \A c \in added : FFS \in FunctionsOf(c) => ffs.func = "live"
    /\ op = "disable" /\ pc \in {"remove", "disconnect"} => idx = 1

\* android_enable adds the configurations in their order and connects after
\* the last; one that failed to bind keeps the gadget off the bus.
PullInv ==
    /\ VIDEO \notin Functions => ~ video_enabled
    /\ pc = "add" => added = 1 .. (ci - 1) /\ ci <= configs_num + 1
    /\ VIDEO \notin Functions /\ pc = "add" => ~ pullup
    /\ VIDEO \notin Functions /\ disable_depth = 0 /\ pc # "add" =>
          (pullup <=> added = 1 .. configs_num)

CoreInv == ControlInv /\ (~ anomaly => FfsInv /\ DepthInv /\ AttachInv)
IndInv == CoreInv /\ (~ anomaly => BindInv /\ PullInv)

-----------------------------------------------------------------------------
(***************************************************************************)
(* What comments of android.c say and the code does not guarantee.         *)
(***************************************************************************)
\* "Balance the disable that was called in closed_callback": the enable that
\* ffs_function_disable makes only undoes a disable, so writing 0 to `enable'
\* never adds a configuration.
DisableNeverAdds == op = "disable" => pc # "add"
=============================================================================
