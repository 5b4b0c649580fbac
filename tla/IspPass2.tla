------------------------------ MODULE IspPass2 ------------------------------
(***************************************************************************)
(* A frame of pass 2 of the MTK camera (isp_function.cpp).  Its parameters *)
(* are written to the virtual registers of a copy ("slot") of a command    *)
(* queue by the _config() of the DMA, TOP, RAW, RGB, YUV, CRZ, TDRI and    *)
(* MDP pipes; their _write2CQ() lists the groups of registers that the     *)
(* hardware is to load; then the frame is started.  All of them write      *)
(* through one static pointer, m_pP2IspDrv, and take the current tuning    *)
(* buffer of the tuning manager, which another thread may replace.         *)
(*                                                                         *)
(* A group of registers has the number of the frame it was written for; 0  *)
(* is never, or an uninitialised value.  The tables of the modules are in  *)
(* headers outside the repository: which pipe a module belongs to is taken *)
(* from the pipe that fills in the parameters of its function.             *)
(***************************************************************************)
EXTENDS Naturals, FiniteSets, FiniteSetsExt

CONSTANTS
  Slots,        \* copies of the queues: CQ, burst and duplicate
  Frames,       \* requests: [v3, apply, scen, p2, p1, dma, crz, out, only]
  Tunings,      \* tuning buffers: [p2, p1, upd]
  MaxJobs,      \* bound on frames
  RetunedJobs,  \* bound: the frames during which the manager changes
  None

VARIABLES
  p2drv,        \* the slot m_pP2IspDrv writes to
  regs,         \* the virtual registers of each slot
  list,         \* the groups listed in each slot
  top,          \* CAM_CTL_EN_P2 and _P1 and the MDP ports of each slot
  job,          \* the frame under way
  status,       \* getP2TuningStatus()
  tuning,       \* the manager's current buffer
  taken,        \* buffers taken and not returned
  forgot,       \* ... by a return that forgets it (history)
  mixed,        \* the manager changed, or a pipe gave up, during a frame (history)
  jobs,
  mgr           \* users of the MDP manager, and whether g_pMdpMgr is set

vars == <<p2drv, regs, list, top, job, status, tuning, taken, forgot, mixed, jobs, mgr>>

\* gIspModuleMappingTableP2En: a module's pipe and its groups: of its first and
\* of its second tuning function, and of its DMA.
P2Table ==
  LET M(pipe, f1, f2, dma) == [pipe |-> pipe, f1 |-> f1, f2 |-> f2, dma |-> dma]
  IN [PGN |-> M("raw", "PGN", None, None),
      CFA |-> M("rgb", "CFA", None, None), CCL |-> M("rgb", "CCL", None, None),
      G2G |-> M("rgb", "G2G", None, None), GGM |-> M("rgb", "GGM_RB", "GGM_G", None),
      SL2 |-> M("rgb", "SL2", None, None), MFB |-> M("rgb", "MFB_TUNECON", None, None),
      G2C |-> M("yuv", "G2C_CONV", "G2C_SHADE", None), NBC |-> M("yuv", "NBC", None, None),
      PCA |-> M("yuv", "PCA_TBL", "PCA_CON", None), SEEE |-> M("yuv", "SEEE", None, None),
      LCE |-> M("yuv", "LCE", None, "LCEI"), SL2B |-> M("yuv", "SL2B", None, None),
      SL2C |-> M("yuv", "SL2C", None, None), C42 |-> M("yuv", None, None, None),
      MIX3 |-> M("yuv", "MIX3", None, None), NR3D |-> M("yuv", "NR3D_BLENDING", "NR3D_LMT", None)]

\* gIspModuleMappingTableP1En, for scenario IP.
P1Table ==
  LET M(f1, dma) == [pipe |-> "raw", f1 |-> f1, f2 |-> None, dma |-> dma]
  IN [OBC |-> M("OBC", None), BNR |-> M("BNR", "BPCI"), LSC |-> M("LSC", "LSCI"),
      RPG |-> M("RPG", None), RMG |-> M("IHDR", None)]

\* gIspTurningTopTag_*: the modules the tuning manager turns on and off.
Tag2 == [cc |-> {"PGN", "GGM", "SL2", "SL2B", "LCE", "NR3D", "SEEE"}, ip |-> {"PGN", "GGM", "SEEE"},
         fb |-> {"GGM", "SEEE"}, raw |-> {}, other |-> {}]
\* The field tags that RAW asks for are taken to be these too.
Tag1 ==
  LET ip == {"OBC", "LSC", "BNR"} IN [cc |-> {}, ip |-> ip, fb |-> {}, raw |-> ip, other |-> {}]

GroupsOf(row) == {row.f1, row.f2, row.dma} \ {None}
P2Groups == UNION {GroupsOf(P2Table[m]) : m \in DOMAIN P2Table}
P1Groups == UNION {GroupsOf(P1Table[m]) : m \in DOMAIN P1Table}
Inputs == {"IMGI", "VIPI", "VIP2I", "VIP3I", "UFDI", "LCEI", "TDRI"}
Outputs == {"IMGO", "MFBO", "IMG2O", "IMG3O", "IMG3BO", "IMG3CO", "FEO"}
\* Modules without tuning, and their groups.
Imageio ==
  [LCE |-> {"LCE_IMAGE_SIZE"}, MFB |-> {"MFB_CTRL", "MFB_IMGCON"}, NR3D |-> {"NR3D_CTRL"},
   C02 |-> {"C02"}, MIX1 |-> {"MIX1"}, MIX2 |-> {"MIX2"}, SRZ1 |-> {"SRZ1"}, SRZ2 |-> {"SRZ2"}]
TopGroups == {"EN_P2", "FMT_P2", "SEL_P2", "GGM_TOP", "SCEN", "SEL_GLOBAL"}
TopGroups1 == {"EN_P1", "FMT_P1", "SEL_P1"}
Rest == {"IMGI_F", "IMGO_BASE_ADDR", "CRSP", "UNP", "C42", "CRZ", "TCM_EN", "TDR_EN",
         "LCE_ZR", "NR3D_GAIN", "NR3D_FB"}
Groups == P2Groups \cup P1Groups \cup Inputs \cup Outputs \cup TopGroups \cup TopGroups1
          \cup Rest \cup UNION {Imageio[m] : m \in DOMAIN Imageio}

Idle == [at |-> "idle"]
Reading == {"top", "raw", "rgb", "yuv", "list raw", "list rgb", "list yuv"}
Steps == Reading \cup {"cqi", "dma", "mdp", "list dma", "list top", "list rest", "start", "started"}

TypeOK ==
  /\ p2drv \in Slots \cup {None}
  /\ regs \in [Slots -> [Groups -> 0..MaxJobs]] /\ list \in [Slots -> SUBSET Groups]
  /\ job = Idle \/ job.at \in Steps
  /\ status \in BOOLEAN /\ tuning \in Tunings
  /\ taken \in 0..(4 * MaxJobs) /\ forgot \in 0..taken /\ mixed \in BOOLEAN /\ jobs \in 0..MaxJobs
  /\ mgr.users \in 0..2 /\ mgr.set \in BOOLEAN

Init ==
  /\ p2drv = None /\ job = Idle /\ jobs = 0
  /\ regs = [s \in Slots |-> [g \in Groups |-> 0]] /\ list = [s \in Slots |-> {}]
  /\ top = [s \in Slots |-> [p2 |-> {}, p1 |-> {}, out |-> {}]]
  /\ status = FALSE /\ tuning \in Tunings
  /\ taken = 0 /\ forgot = 0 /\ mixed = FALSE
  /\ mgr = [users |-> 0, set |-> FALSE]

-----------------------------------------------------------------------------
(* The tuning manager, which is not in the repository.                     *)

getP2EnTuningTag(f, on) == IF on THEN Tag2[f.scen] ELSE {}

getP1EnTuningTag(f, on) == IF on THEN Tag1[f.scen] ELSE {}

Final(en, tag, tuned) == (en \ tag) \cup (tuned \cap tag)

\* What a pipe works from: whether tuning applies, what the buffer turns on, and
\* the functions it updates, all of them for V3.
Package(f) ==
  LET apply == IF f.v3 THEN f.apply ELSE status
  IN [apply |-> apply,
      p2 |-> IF apply /\ ~f.v3 THEN tuning.p2 ELSE {},
      p1 |-> IF apply /\ ~f.v3 THEN tuning.p1 ELSE {},
      upd |-> IF ~apply THEN {} ELSE IF f.v3 THEN P2Groups \cup P1Groups ELSE tuning.upd]

\* Mutant: the update bits are not looked at.
ChosenMutant(table, pipe, final, upd) == {m \in DOMAIN table : table[m].pipe = pipe /\ m \in final}

\* Enabled, or updated by the tuning buffer.
Chosen(table, pipe, final, upd) ==
  {m \in DOMAIN table :
     table[m].pipe = pipe /\ (m \in final \/ {table[m].f1, table[m].f2} \cap upd # {})}

\* The groups to update: a DMA with either function.
Updated(row, upd) ==
  LET funcs == ({row.f1, row.f2} \cap upd) \ {None}
  IN funcs \cup (IF funcs # {} THEN {row.dma} \ {None} ELSE {})

\* For pass 1 the DMA also has to be on in the buffer.
Updated1(row, upd, p1) ==
  LET gs == Updated(row, upd) IN IF row.dma \in p1 THEN gs ELSE gs \ {row.dma}

-----------------------------------------------------------------------------
(* The default functions of the modules: r are the registers, t the        *)
(* parameters with the groups to update, n the frame.                      *)

Put(r, gs, n) == [g \in Groups |-> IF g \in gs THEN n ELSE r[g]]
\* The registers of a group are copied from the tuning buffer.
Copied(r, t, gs) == IF t.apply THEN Put(r, gs \cap t.groups, t.n) ELSE r

cam_isp_pgn_cfg(r, t) == Copied(r, t, {"PGN"})
\* The centre and the radii are then rescaled by the crop and ratio of RRZ.
cam_isp_sl2_cfg(r, t) == Copied(r, t, {"SL2"})
cam_isp_ccl_cfg(r, t) == Copied(r, t, {"CCL"})
\* Without tuning a default matrix.
cam_isp_g2c_cfg(r, t) ==
  IF t.apply THEN Copied(r, t, {"G2C_CONV", "G2C_SHADE"}) ELSE Put(r, {"G2C_CONV", "G2C_SHADE"}, t.n)
\* mfbCfg is filled in only if the caller enables MFB.
cam_isp_mfb_cfg(r, t) ==
  Put(Copied(r, t, {"MFB_TUNECON"}), Imageio["MFB"], IF "MFB" \in t.en THEN t.n ELSE 0)
cam_isp_nbc_cfg(r, t) == Copied(r, t, {"NBC"})
cam_isp_pca_cfg(r, t) == Copied(r, t, {"PCA_TBL", "PCA_CON"})
cam_isp_seee_cfg(r, t) == Copied(r, t, {"SEEE"})
\* The zoom ratio and the size come from lceInputW and lceInputH, which are
\* filled in only if tuning applies.
cam_isp_lce_cfg(r, t) ==
  Put(Put(Copied(r, t, {"LCE", "LCEI"}), IF t.apply THEN {"LCE_ZR"} ELSE {}, t.n),
      Imageio["LCE"], IF t.apply THEN t.n ELSE 0)
\* The gain is weighted whether or not the group is updated; nr3dCfg is filled in
\* if tuning applies or MFB is enabled.
cam_isp_nr3d_cfg(r, t) ==
  Put(Put(Copied(r, t, {"NR3D_BLENDING", "NR3D_LMT"}), IF t.apply THEN {"NR3D_GAIN"} ELSE {}, t.n),
      Imageio["NR3D"] \cup {"NR3D_FB"}, IF t.apply \/ "MFB" \in t.en THEN t.n ELSE 0)
\* Computed from the registers of SL2 in the slot.
OfSl2(r, t, g) == IF t.apply /\ g \in t.groups THEN [r EXCEPT ![g] = r["SL2"]] ELSE r
cam_isp_sl2b_cfg(r, t) == OfSl2(r, t, "SL2B")
cam_isp_sl2c_cfg(r, t) == OfSl2(r, t, "SL2C")
cam_isp_cfa_cfg(r, t) == IF t.apply THEN Copied(r, t, {"CFA"}) ELSE Put(r, {"CFA"}, t.n)
cam_isp_g2g_cfg(r, t) == IF t.apply THEN Copied(r, t, {"G2G"}) ELSE Put(r, {"G2G"}, t.n)
cam_isp_ggm_cfg(r, t) == Copied(r, t, {"GGM_RB", "GGM_G"})
cam_isp_c42_cfg(r, t) == Put(r, {"C42"}, t.n)
cam_isp_mix3_cfg(r, t) == Copied(r, t, {"MIX3"})
cam_isp_ob_cfg(r, t) == Copied(r, t, {"OBC"})
cam_isp_bnr_cfg(r, t) == Copied(r, t, {"BNR", "BPCI"})
cam_isp_lsc_cfg(r, t) == Copied(r, t, {"LSC", "LSCI"})
cam_isp_rpg_cfg(r, t) == Copied(r, t, {"RPG"})
cam_isp_rmg_cfg(r, t) == Copied(r, t, {"IHDR"})
cam_isp_crsp_cfg(r, n) == Put(r, {"CRSP"}, n)
cam_isp_c02_cfg(r, n) == Put(r, {"C02"}, n)
cam_isp_mix1_cfg(r, n) == Put(r, {"MIX1"}, n)
cam_isp_mix2_cfg(r, n) == Put(r, {"MIX2"}, n)
cam_isp_srz1_cfg(r, n) == Put(r, {"SRZ1"}, n)
cam_isp_srz2_cfg(r, n) == Put(r, {"SRZ2"}, n)

default_func(m, r, t) ==
  CASE m = "PGN" -> cam_isp_pgn_cfg(r, t) [] m = "SL2" -> cam_isp_sl2_cfg(r, t)
    [] m = "CCL" -> cam_isp_ccl_cfg(r, t) [] m = "G2C" -> cam_isp_g2c_cfg(r, t)
    [] m = "MFB" -> cam_isp_mfb_cfg(r, t) [] m = "NBC" -> cam_isp_nbc_cfg(r, t)
    [] m = "PCA" -> cam_isp_pca_cfg(r, t) [] m = "SEEE" -> cam_isp_seee_cfg(r, t)
    [] m = "LCE" -> cam_isp_lce_cfg(r, t) [] m = "NR3D" -> cam_isp_nr3d_cfg(r, t)
    [] m = "SL2B" -> cam_isp_sl2b_cfg(r, t) [] m = "SL2C" -> cam_isp_sl2c_cfg(r, t)
    [] m = "CFA" -> cam_isp_cfa_cfg(r, t) [] m = "G2G" -> cam_isp_g2g_cfg(r, t)
    [] m = "GGM" -> cam_isp_ggm_cfg(r, t) [] m = "C42" -> cam_isp_c42_cfg(r, t)
    [] m = "MIX3" -> cam_isp_mix3_cfg(r, t)
    [] m = "OBC" -> cam_isp_ob_cfg(r, t) [] m = "BNR" -> cam_isp_bnr_cfg(r, t)
    [] m = "LSC" -> cam_isp_lsc_cfg(r, t) [] m = "RPG" -> cam_isp_rpg_cfg(r, t)
    [] m = "RMG" -> cam_isp_rmg_cfg(r, t)

\* The functions of some modules, in the order of the table; each writes groups
\* of its own.
Configure(r, ms, groups, t) ==
  FoldSet(LAMBDA m, acc : default_func(m, acc, [t EXCEPT !.groups = groups[m]]), r, ms)

-----------------------------------------------------------------------------
(* The steps of a frame.  A pipe reads the tuning status twice: for the    *)
(* tag and for the buffer; seen is what the first read gave.               *)

Go(step) == job' = [job EXCEPT !.at = step, !.read = FALSE]
F == job.f
Drv(r) == regs' = [regs EXCEPT ![p2drv] = r]
List(gs) == list' = [list EXCEPT ![job.slot] = @ \cup gs]
Outside == UNCHANGED <<status, tuning, jobs, mgr>>
Kept == UNCHANGED <<taken, forgot, mixed>>

\* A request, from a caller that prepares one frame at a time; by then the manager
\* may have another buffer.  Bound: one user of MDP, and none without MDP.
Begin(s, f, on, t) ==
  /\ job = Idle /\ jobs < MaxJobs /\ jobs' = jobs + 1
  /\ ~mixed                     \* bound: what follows such a frame is not explored
  /\ jobs = 0 => s = CHOOSE x \in Slots : TRUE  \* slots are alike
  /\ IF f.only THEN ~mgr.set ELSE mgr.users = 1  \* the caller has created the manager
  /\ job' = [at |-> "cqi", slot |-> s, f |-> f, read |-> FALSE, seen |-> FALSE]
  /\ status' = on /\ tuning' = t
  /\ UNCHANGED <<p2drv, regs, list, top, taken, forgot, mixed, mgr>>

ispDrvSwitch2Virtual(s) == s

\* DMAI_B::_config() of ISP_DMA_CQI; the hardware is given the address of the
\* slot, which the driver keeps.
ConfigCqi ==
  /\ job.at = "cqi" /\ Go("dma")
  /\ p2drv' = ispDrvSwitch2Virtual(job.slot)
  /\ UNCHANGED <<regs, list, top>> /\ Kept /\ Outside

\* DMAI_B::_config(), and DMAO_B::_config(), which switches again.
ConfigInputs(r) == Put(r, F.dma \cap Inputs, jobs)
ConfigOutputs(r) == Put(r, F.dma \cap Outputs, jobs)
ConfigDma ==
  /\ job.at = "dma" /\ Go("top")
  /\ Drv(ConfigOutputs(ConfigInputs(regs[p2drv])))
  /\ UNCHANGED <<p2drv, list, top>> /\ Kept /\ Outside

\* The first read of the status.
Read ==
  /\ job.at \in Reading /\ ~job.read
  /\ job' = [job EXCEPT !.read = TRUE, !.seen = status]
  /\ UNCHANGED <<p2drv, regs, list, top>> /\ Kept /\ Outside

\* deTuningQueByCq() fails, which ends the frame; TOP has read the status first.
NoBuffer ==
  /\ job.at \in Reading /\ job.read /\ ~F.v3
  /\ IF job.at = "top" THEN job.seen ELSE status
  /\ job' = Idle
  /\ UNCHANGED <<p2drv, regs, list, top>> /\ Kept /\ Outside

\* ISP_TOP_CTRL::_config(): the buffer is that of the first read, the tag of the
\* second; V3 enables what the caller says.
ConfigTop ==
  LET t2 == IF job.seen THEN tuning.p2 ELSE {}
      t1 == IF job.seen THEN tuning.p1 ELSE {}
      tag2 == IF job.seen THEN getP2EnTuningTag(F, status) ELSE {}
      tag1 == IF job.seen THEN getP1EnTuningTag(F, status) ELSE {}
      p1 == IF F.v3 THEN F.p1 ELSE Final(F.p1, tag1, t1)
  IN /\ job.at = "top" /\ job.read /\ Go("raw")
     /\ top' = [top EXCEPT ![p2drv].p2 = IF F.v3 THEN F.p2 ELSE Final(F.p2, tag2, t2),
                           ![p2drv].p1 = IF F.scen = "ip" THEN p1 ELSE @]
     /\ Drv(Put(regs[p2drv], TopGroups \cup (IF F.scen = "ip" THEN TopGroups1 ELSE {}), jobs))
     /\ UNCHANGED <<p2drv, list>> /\ Kept /\ Outside

\* getTuningBuf() returns NULL, or pTuningIspReg is: the pipe returns, with an
\* error in RGB, and the buffer it took is not returned.
NullBuffer ==
  /\ job.at \in {"raw", "rgb", "yuv"} /\ job.read /\ Package(F).apply
  /\ taken' = IF F.v3 THEN taken ELSE taken + 1
  /\ forgot' = IF F.v3 THEN forgot ELSE forgot + 1
  /\ mixed' = TRUE
  /\ CASE job.at = "raw" -> Go("rgb")
       [] job.at = "rgb" -> IF F.v3 THEN Go("yuv") ELSE job' = Idle
       [] job.at = "yuv" -> Go("mdp")
  /\ UNCHANGED <<p2drv, regs, list, top>> /\ Outside

\* The modules of a pipe.
Modules(pipe, r) ==
  LET k == Package(F)
      final == Final(F.p2, getP2EnTuningTag(F, job.seen), k.p2)
      groups == [m \in DOMAIN P2Table |-> Updated(P2Table[m], k.upd)]
  IN Configure(r, Chosen(P2Table, pipe, final, k.upd), groups,
               [apply |-> k.apply, groups |-> {}, en |-> F.p2, n |-> jobs])

\* For scenario IP those of pass 1 too, if enabled.
Modules1(r) ==
  LET k == Package(F)
      final == Final(F.p1, getP1EnTuningTag(F, IF F.v3 THEN job.seen ELSE status), k.p1)
      groups == [m \in DOMAIN P1Table |-> Updated1(P1Table[m], k.upd, k.p1)]
  IN IF F.scen # "ip" THEN r
     ELSE Configure(r, DOMAIN P1Table \cap final, groups,
                    [apply |-> k.apply, groups |-> {}, en |-> F.p2, n |-> jobs])

ConfigRaw ==
  /\ job.at = "raw" /\ job.read /\ Go("rgb")
  /\ Drv(Put(Modules1(Modules("raw", regs[p2drv])), {"UNP"}, jobs))
  /\ UNCHANGED <<p2drv, list, top>> /\ Kept /\ Outside

ConfigRgb ==
  /\ job.at = "rgb" /\ job.read /\ Go("yuv")
  /\ Drv(Modules("rgb", regs[p2drv]))
  /\ UNCHANGED <<p2drv, list, top>> /\ Kept /\ Outside

\* "Both srz2 and lce be enabled": nothing is configured, the buffer is not
\* returned, and the caller is told of no error.
Srz2WithLce ==
  /\ job.at = "yuv" /\ job.read /\ {"SRZ2", "LCE"} \subseteq F.p2
  /\ Go("mdp") /\ mixed' = TRUE
  /\ taken' = IF ~F.v3 /\ status THEN taken + 1 ELSE taken
  /\ forgot' = IF ~F.v3 /\ status THEN forgot + 1 ELSE forgot
  /\ UNCHANGED <<p2drv, regs, list, top>> /\ Outside

\* CRSP always, the others if the caller enables them.
Resizers(r, n) ==
  LET on(m) == m \in F.p2
      r1 == IF on("C02") THEN cam_isp_c02_cfg(cam_isp_crsp_cfg(r, n), n) ELSE cam_isp_crsp_cfg(r, n)
      r2 == IF on("MIX1") THEN cam_isp_mix1_cfg(r1, n) ELSE r1
      r3 == IF on("MIX2") THEN cam_isp_mix2_cfg(r2, n) ELSE r2
      r4 == IF on("SRZ1") THEN cam_isp_srz1_cfg(r3, n) ELSE r3
  IN IF on("SRZ2") THEN cam_isp_srz2_cfg(r4, n) ELSE r4

ConfigYuv ==
  /\ job.at = "yuv" /\ job.read /\ ~({"SRZ2", "LCE"} \subseteq F.p2)
  /\ Go("mdp")
  /\ Drv(Resizers(Modules("yuv", regs[p2drv]), jobs))
  /\ UNCHANGED <<p2drv, list, top>> /\ Kept /\ Outside

\* CDRZ_Config() fails.
CrzFails ==
  /\ job.at = "mdp" /\ F.crz /\ job' = Idle
  /\ UNCHANGED <<p2drv, regs, list, top>> /\ Kept /\ Outside

ConfigCrz(r) == Put(r, IF F.crz THEN {"CRZ"} ELSE {}, jobs)
ConfigTdri(r) == Put(r, {"TCM_EN", "TDR_EN"}, jobs)
\* The ports of MDP, or, if there are none, IMGXO.
ConfigMdp(out) == IF out = {} THEN {"IMGXO"} ELSE out

ConfigRest ==
  /\ job.at = "mdp" /\ Go("list dma")
  /\ Drv(ConfigTdri(ConfigCrz(regs[p2drv])))
  /\ top' = [top EXCEPT ![job.slot].out = ConfigMdp(F.out)]
  /\ UNCHANGED <<p2drv, list>> /\ Kept /\ Outside

-----------------------------------------------------------------------------
(* _write2CQ()                                                             *)

ListInputs == (F.dma \cap Inputs) \cup (IF "IMGI" \in F.dma THEN {"IMGI_F"} ELSE {})
ListOutputs == (F.dma \cap Outputs) \cup (IF "IMGO" \in F.dma THEN {"IMGO_BASE_ADDR"} ELSE {})
ListDma ==
  /\ job.at = "list dma" /\ Go("list top") /\ List(ListInputs \cup ListOutputs)
  /\ UNCHANGED <<p2drv, regs, top>> /\ Kept /\ Outside

ListTop ==
  /\ job.at = "list top" /\ Go("list raw")
  /\ List(TopGroups \cup {"CRSP"} \cup (IF F.scen = "ip" THEN TopGroups1 ELSE {}))
  /\ UNCHANGED <<p2drv, regs, top>> /\ Kept /\ Outside

\* The same modules are found anew, and all their groups are listed.
Listed(pipe) ==
  LET k == Package(F)
      final == Final(F.p2, getP2EnTuningTag(F, job.seen), k.p2)
  IN UNION {GroupsOf(P2Table[m]) : m \in Chosen(P2Table, pipe, final, k.upd)}

\* Those of pass 1 are looked up in en_p2: wrong is what its bits mean there.
Listed1(wrong) ==
  LET k == Package(F)
      final == Final(wrong, getP1EnTuningTag(F, job.seen), k.p1)
  IN IF F.scen # "ip" THEN {}
     ELSE UNION {GroupsOf(P1Table[m]) : m \in Chosen(P1Table, "raw", final, k.upd)}

ListRaw ==
  /\ job.at = "list raw" /\ job.read /\ Go("list rgb")
  /\ \E wrong \in {{}, {"RPG", "LSC"}} : List(Listed("raw") \cup Listed1(wrong) \cup {"UNP"})
  /\ UNCHANGED <<p2drv, regs, top>> /\ Kept /\ Outside

ListRgb ==
  /\ job.at = "list rgb" /\ job.read /\ Go("list yuv")
  /\ List(Listed("rgb") \cup (IF "MFB" \in F.p2 THEN Imageio["MFB"] ELSE {}))
  /\ UNCHANGED <<p2drv, regs, top>> /\ Kept /\ Outside

ListYuv ==
  /\ job.at = "list yuv" /\ job.read /\ Go("list rest")
  /\ List(Listed("yuv") \cup {"CRSP"}
          \cup UNION {Imageio[m] : m \in (F.p2 \cap DOMAIN Imageio) \ {"MFB"}})
  /\ UNCHANGED <<p2drv, regs, top>> /\ Kept /\ Outside

ListCrz == IF F.crz THEN {"CRZ"} ELSE {}
ListTdri == {"TCM_EN", "TDR_EN"}
ListRest ==
  /\ job.at = "list rest" /\ Go("start") /\ List(ListCrz \cup ListTdri)
  /\ UNCHANGED <<p2drv, regs, top>> /\ Kept /\ Outside

\* By CAM_CTL_START, or by startMdp(), which may fail.
Start ==
  /\ job.at = "start" /\ Go("started")
  /\ UNCHANGED <<p2drv, regs, list, top>> /\ Kept /\ Outside
StartFails ==
  /\ job.at = "start" /\ ~F.only /\ job' = Idle
  /\ UNCHANGED <<p2drv, regs, list, top>> /\ Kept /\ Outside

\* The frame is done, before the caller prepares another.
Done ==
  /\ job.at = "started" /\ job' = Idle
  /\ UNCHANGED <<p2drv, regs, list, top>> /\ Kept /\ Outside

-----------------------------------------------------------------------------
\* The manager's thread.
Retune(on, t) ==
  /\ job # Idle /\ job.at # "started" /\ jobs <= RetunedJobs /\ ~mixed
  /\ <<on, t>> # <<status, tuning>>
  /\ status' = on /\ tuning' = t /\ mixed' = TRUE
  /\ UNCHANGED <<p2drv, regs, list, top, job, taken, forgot, jobs, mgr>>

\* createMdpMgr(): init() counts the users, or fails.
CreateMdpMgr ==
  /\ job = Idle /\ mgr.users < 2
  /\ mgr' \in {[mgr EXCEPT !.users = @ + 1, !.set = TRUE], [mgr EXCEPT !.set = TRUE]}
  /\ UNCHANGED <<p2drv, regs, list, top, job, status, tuning, taken, forgot, mixed, jobs>>

StillUsers(users) == users > 0

\* destroyMdpMgr(), by a pipe that created it.
DestroyMdpMgr ==
  /\ job = Idle /\ mgr.users > 0
  /\ mgr' = [users |-> mgr.users - 1, set |-> StillUsers(mgr.users - 1)]
  /\ UNCHANGED <<p2drv, regs, list, top, job, status, tuning, taken, forgot, mixed, jobs>>

FrameStep ==
  /\ job # Idle
  /\ \/ ConfigCqi \/ ConfigDma \/ Read \/ NoBuffer \/ NullBuffer \/ ConfigTop \/ ConfigRaw
     \/ ConfigRgb \/ Srz2WithLce \/ ConfigYuv \/ CrzFails \/ ConfigRest
     \/ ListDma \/ ListTop \/ ListRaw \/ ListRgb \/ ListYuv \/ ListRest
     \/ Start \/ StartFails \/ Done

Next ==
  \/ \E s \in Slots, f \in Frames, on \in BOOLEAN, t \in Tunings : Begin(s, f, on, t)
  \/ FrameStep
  \/ \E on \in BOOLEAN, t \in Tunings : Retune(on, t)
  \/ CreateMdpMgr \/ DestroyMdpMgr

Spec == Init /\ [][Next]_vars

-----------------------------------------------------------------------------
\* V3 without tuning while the manager is active: TOP enables what the caller
\* says, and the pipes leave out what the manager's tag covers.
Untuned(f) == f.v3 /\ ~f.apply /\ status

\* A frame that is started has what it needs in its slot, and nothing of it is in
\* another slot although all pipes write through one pointer: the modules that
\* TOP turns on are listed; groups that the tuning buffer updates have this
\* frame's values and are listed, SL2B's computed from this frame's SL2; so have
\* the ports and the modules without tuning (LCE and NR3D only if tuning applies:
\* their parameters are uninitialised otherwise).  Not if the manager changed, or a
\* pipe gave up, during the frame.  Every tuning buffer is returned, but for the
\* returns that forget it, and users of the MDP manager have one.
FrameComplete ==
  /\ job = Idle => taken = forgot
  /\ mgr.users > 0 => mgr.set
  /\ job # Idle /\ job.at = "started" /\ ~mixed =>
       LET s == job.slot
           k == Package(F)
           ok(g) == regs[s][g] = jobs /\ g \in list[s]
           on == {m \in DOMAIN P2Table : {P2Table[m].f1, P2Table[m].f2} \cap k.upd # {}}
       IN /\ \A o \in Slots \ {s} : \A g \in Groups : regs[o][g] # jobs
          /\ ~Untuned(F) =>
               \A m \in top[s].p2 \cap DOMAIN P2Table : GroupsOf(P2Table[m]) \subseteq list[s]
          /\ \A m \in on : \A g \in Updated(P2Table[m], k.upd) :
               (g \in {"SL2B", "SL2C"} => "SL2" \in k.upd) => ok(g)
          /\ F.scen = "ip" => \A m \in top[s].p1 \cap DOMAIN P1Table :
                                \A g \in Updated1(P1Table[m], k.upd, k.p1) : ok(g)
          /\ \A m \in F.p2 \cap DOMAIN Imageio :
               (m \in {"LCE", "NR3D"} => k.apply /\ m \in top[s].p2) => \A g \in Imageio[m] : ok(g)
          /\ \A g \in F.dma \cup TopGroups \cup {"CRSP", "UNP"} : ok(g)
          /\ top[s].out # {}
=============================================================================
