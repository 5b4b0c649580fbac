----------------------------- MODULE IspTuning -----------------------------
(***************************************************************************)
(* ISP_RAW_PIPE::setP1TuneCfg() of the MTK camera (isp_function.cpp): the  *)
(* values of a tuning buffer are written to a copy of a pass 1 command     *)
(* queue, module by module.  The hardware loads one copy while the next is *)
(* prepared; which one a write goes to depends on dupCqIdx and on the view *)
(* finder, which another thread turns on and off.                          *)
(*                                                                         *)
(* Register values are the number of the frame they were tuned for.        *)
(***************************************************************************)
EXTENDS Naturals

CONSTANTS
  Copies,     \* ISP_DRV_P1_CQ_DUPLICATION_NUM
  Updates,    \* sets of modules that a tuning buffer updates
  Enables,    \* sets of modules that a tuning buffer enables
  MaxTunes    \* bound on calls

VARIABLES
  mode,       \* the pipe: "main", "sub" or "twin"
  tg,         \* sensors whose VFDATA_EN is set: "p1" and "p1d"
  dup,        \* dupCqIdx
  copies,     \* the virtual registers of each copy of the two queues
  call,       \* the call under way
  kept,       \* tuning buffers taken and not returned
  dropped,    \* ... by a return that forgets it (history)
  toggled,    \* a view finder changed during a call (history)
  tunes

vars == <<mode, tg, dup, copies, call, kept, dropped, toggled, tunes>>

Plain == {"OBC", "RMG", "BNR", "RPG"}
Modules == Plain \cup {"BPCI", "LSC", "LSCI"}
All == Modules \cup {"BPCI_D", "LSCI_D"}   \* the latter of CQ0 in twin mode
Sides == {"p1", "p1d"}
SidesOf == [main |-> {"p1"}, sub |-> {"p1d"}, twin |-> {"p1", "p1d"}]

\* Whether the module is on, since which frame it is listed so, and the frame
\* its registers are of; 0 is none, and the default table of LSCI.
Off == [en |-> FALSE, frame |-> 0, regs |-> 0]
Idle == [at |-> "idle"]
Steps == {"obc", "rmg", "bnr", "bpci", "bpci config", "lsc", "lsci config", "lsc en", "rpg", "next"}

TypeOK ==
  /\ mode \in DOMAIN SidesOf /\ tg \subseteq Sides /\ dup \in 0..(Copies - 1)
  /\ copies \in [Sides -> [0..(Copies - 1) ->
                   [All -> [en : BOOLEAN, frame : 0..MaxTunes, regs : 0..MaxTunes]]]]
  /\ call = Idle \/ call.at \in Steps
  /\ kept \in 0..MaxTunes /\ dropped \in 0..MaxTunes
  /\ toggled \in BOOLEAN /\ tunes \in 0..MaxTunes

Init ==
  /\ mode \in DOMAIN SidesOf /\ tg = {} /\ dup = 0
  /\ copies = [s \in Sides |-> [c \in 0..(Copies - 1) |-> [m \in All |-> Off]]]
  /\ call = Idle /\ kept = 0 /\ dropped = 0 /\ toggled = FALSE /\ tunes = 0

\* Mutant: the copy the hardware loads.
TargetMutant(s) == dup

\* _targetDupQueIdx: the next copy while the sensor streams.
Target(s) == IF s \in tg THEN (dup + 1) % Copies ELSE dup

-----------------------------------------------------------------------------
\* A dummy frame, an idle tuning manager, or no tuning buffer in its queue.
Bypass ==
  /\ call = Idle /\ tunes < MaxTunes /\ tunes' = tunes + 1
  /\ UNCHANGED <<mode, tg, dup, copies, call, kept, dropped, toggled>>

StartSide(s, upd, on) ==
  call' = [at |-> "obc", side |-> s, target |-> Target(s), upd |-> upd, on |-> on]

Begin(upd, on) ==
  /\ call = Idle /\ tunes < MaxTunes /\ tunes' = tunes + 1
  /\ upd \in Updates /\ on \in Enables
  /\ kept' = kept + 1
  /\ StartSide(IF "p1" \in SidesOf[mode] THEN "p1" ELSE "p1d", upd, on)
  /\ UNCHANGED <<mode, tg, dup, copies, dropped, toggled>>

\* The buffer, or the virtual driver of the copy, is NULL: it is not returned.
BeginFails ==
  /\ call = Idle /\ tunes < MaxTunes /\ tunes' = tunes + 1
  /\ kept' = kept + 1 /\ dropped' = dropped + 1
  /\ UNCHANGED <<mode, tg, dup, copies, call, toggled>>

Write(s, c, m, value) == [copies EXCEPT ![s][c][m] = value]
Go(step) == call' = [call EXCEPT !.at = step]
Rest == UNCHANGED <<mode, tg, dup, kept, dropped, toggled, tunes>>
Tuned(m) == [en |-> m \in call.on, frame |-> tunes, regs |-> tunes]

\* getIspCQModuleInfo() fails: enTuningQueByCq() returns the buffer.
NoModuleInfo ==
  /\ call # Idle
  /\ \/ call.at \in {"obc", "rmg", "bnr", "lsc", "rpg"}
     \/ call.at = "bpci" /\ "BNR" \in call.upd
  /\ call' = Idle /\ kept' = kept - 1
  /\ UNCHANGED <<mode, tg, dup, copies, dropped, toggled, tunes>>

\* A module that is updated is listed and its registers are copied; it is turned
\* on after and off before that.
Module(m, step, next) ==
  /\ call.at = step /\ Go(next)
  /\ copies' = IF m \in call.upd THEN Write(call.side, call.target, m, Tuned(m)) ELSE copies
  /\ Rest

Obc == call.side = "p1" /\ Module("OBC", "obc", "rmg")
ObcD == call.side = "p1d" /\ Module("OBC", "obc", "rmg")
Rmg == call.side = "p1" /\ Module("RMG", "rmg", "bnr")
\* The bit of tuningEnP1 decides.
RmgD == call.side = "p1d" /\ Module("RMG", "rmg", "bnr")
Bnr == call.side = "p1" /\ Module("BNR", "bnr", "bpci")
BnrD == call.side = "p1d" /\ Module("BNR", "bnr", "bpci")
Rpg == call.side = "p1" /\ Module("RPG", "rpg", "next")
RpgD == call.side = "p1d" /\ Module("RPG", "rpg", "next")

Twin == mode = "twin" /\ call.side = "p1"

\* With BNR its DMA: listed and turned on or off; in twin mode BPCI_D gets the
\* base address that BPCI has at this point.
BpciStep ==
  LET on == "BPCI" \in call.on
      cp == copies[call.side][call.target]
      new == [cp EXCEPT !["BPCI"].en = on, !["BPCI"].frame = tunes]
  IN /\ call.at = "bpci" /\ Go(IF "BNR" \in call.upd THEN "bpci config" ELSE "lsc")
     /\ copies' =
          IF "BNR" \notin call.upd THEN copies
          ELSE [copies EXCEPT ![call.side][call.target] =
                  IF ~Twin THEN new
                  ELSE [new EXCEPT !["BPCI_D"] =
                          [en |-> on, frame |-> tunes, regs |-> IF on THEN cp["BPCI"].regs ELSE @.regs]]]
     /\ Rest

\* Mutant: the view finder is not looked at.
DmaTargetMutant(s) == dup

\* DMAI_B::_config() finds the copy anew.
DmaTarget(s) == Target(s)

BpciConfigStep ==
  /\ call.at = "bpci config" /\ Go("lsc")
  /\ copies' = [copies EXCEPT ![call.side][DmaTarget(call.side)]["BPCI"].regs = tunes]
  /\ Rest

\* "Lsc & Lsci shall be enable/disable together", and checkLscLsciCfg().
LscValid(on) == "LSC" \in on <=> "LSCI" \in on

\* The shading tables and their DMA are listed.
LscStep ==
  /\ call.at = "lsc"
  /\ \/ "LSC" \notin call.upd /\ Go("rpg")
     \/ "LSC" \in call.upd /\ Go("rpg")     \* the two sizes do not agree
     \/ "LSC" \in call.upd /\ LscValid(call.on) /\ Go("lsci config")
  /\ UNCHANGED copies /\ Rest

\* The registers of the table, or of the default one, then those of LSC.
LsciConfigStep ==
  /\ call.at = "lsci config" /\ Go("lsc en")
  /\ copies' = [copies EXCEPT ![call.side][DmaTarget(call.side)]["LSCI"].regs =
                  IF "LSC" \in call.on THEN tunes ELSE 0]
  /\ Rest

\* Both are turned on or off; in twin mode LSCI_D gets the base address of LSCI.
LscEnStep ==
  LET on == "LSC" \in call.on
      cp == copies[call.side][call.target]
      lsci == [cp["LSCI"] EXCEPT !.en = "LSCI" \in call.on, !.frame = tunes]
      new == [cp EXCEPT !["LSC"] = [en |-> on, frame |-> tunes, regs |-> tunes], !["LSCI"] = lsci]
  IN /\ call.at = "lsc en" /\ Go("rpg")
     /\ copies' = [copies EXCEPT ![call.side][call.target] =
                     IF Twin THEN [new EXCEPT !["LSCI_D"] = lsci] ELSE new]
     /\ Rest

Bpci == call.side = "p1" /\ BpciStep
BpciConfig == call.side = "p1" /\ BpciConfigStep
BpciD == call.side = "p1d" /\ (BpciStep \/ BpciConfigStep)
Lsc == call.side = "p1" /\ LscStep
LsciConfig == call.side = "p1" /\ LsciConfigStep
LscEn == call.side = "p1" /\ LscEnStep
LscD == call.side = "p1d" /\ (LscStep \/ LsciConfigStep \/ LscEnStep)

\* From raw to raw-D, if the pipe has it ...
StartD ==
  /\ call.at = "next" /\ call.side = "p1" /\ "p1d" \in SidesOf[mode]
  /\ StartSide("p1d", call.upd, call.on)
  /\ UNCHANGED copies /\ Rest

\* ... and a virtual driver for it.
StartDFails ==
  /\ call.at = "next" /\ call.side = "p1" /\ "p1d" \in SidesOf[mode]
  /\ call' = Idle /\ dropped' = dropped + 1
  /\ UNCHANGED <<mode, tg, dup, copies, kept, toggled, tunes>>

Return ==
  /\ call.at = "next" /\ (call.side = "p1d" \/ "p1d" \notin SidesOf[mode])
  /\ call' = Idle /\ kept' = kept - 1
  /\ UNCHANGED <<mode, tg, dup, copies, dropped, toggled, tunes>>

-----------------------------------------------------------------------------
\* Another thread starts or stops a sensor.
Toggle(s) ==
  /\ s \in SidesOf[mode]
  /\ tg' = IF s \in tg THEN tg \ {s} ELSE tg \cup {s}
  /\ toggled' = (call # Idle)
  /\ UNCHANGED <<mode, dup, copies, call, kept, dropped, tunes>>

\* The caller passes the copy that the hardware loads next.
NextFrame ==
  /\ call = Idle /\ tg # {} /\ dup' = (dup + 1) % Copies
  /\ UNCHANGED <<mode, tg, copies, call, kept, dropped, toggled, tunes>>

CallStep ==
  /\ call # Idle
  /\ \/ NoModuleInfo \/ Obc \/ Rmg \/ Bnr \/ Rpg \/ ObcD \/ RmgD \/ BnrD \/ RpgD
     \/ Bpci \/ BpciConfig \/ Lsc \/ LsciConfig \/ LscEn \/ BpciD \/ LscD
     \/ StartD \/ StartDFails \/ Return

\* What follows a change of a view finder during a call is not explored.
Next ==
  /\ ~toggled
  /\ \/ Bypass \/ (\E upd \in Updates, on \in Enables : Begin(upd, on)) \/ BeginFails
     \/ CallStep
     \/ (\E s \in Sides : Toggle(s)) \/ NextFrame

Spec == Init /\ [][Next]_vars

-----------------------------------------------------------------------------
\* "Lsc & Lsci shall be enable/disable together": between calls every copy has
\* both on or both off, and if on, values of one frame; in twin mode LSCI_D has
\* the table of LSCI; and a module that is on has the values of the frame that
\* turned it on, BPCI_D in twin mode apart.  (Not when the view finder changed
\* during a call: then the DMA is configured in another copy.)  The buffer is
\* returned, but for three returns that forget it.
TuningApplied ==
  call = Idle =>
    /\ kept = dropped
    /\ ~toggled => \A s \in Sides, c \in 0..(Copies - 1) :
         LET cp == copies[s][c]
         IN /\ cp["LSC"].en = cp["LSCI"].en
            /\ cp["LSC"].en => cp["LSC"].regs = cp["LSCI"].regs
            /\ \A m \in Modules : cp[m].en => cp[m].regs = cp[m].frame
            /\ cp["LSCI_D"].en => cp["LSCI_D"] = cp["LSCI"]

\* While a sensor streams the copy that the hardware loads is not written.
LoadedCopyStable ==
  [][\A s \in tg : toggled \/ copies'[s][dup] = copies[s][dup]]_vars
=============================================================================
