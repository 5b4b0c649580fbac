-------------------------- MODULE GadgetFunctions --------------------------
(***************************************************************************)
(* The function drivers of the Android gadget other than ffs and serial    *)
(* (usb/gadget/android.c): what init, bind_config, unbind_config and       *)
(* cleanup of each acquire and release, every failure on the way included. *)
(* A behaviour is the life of one driver, called the way android_init_     *)
(* functions(), android_bind_enabled_functions() and their counterparts    *)
(* call it.                                                                *)
(*                                                                         *)
(* A driver is an operator from a call and the driver's state to the set   *)
(* of its outcomes.  The function core, the network devices (gether) and   *)
(* the drivers in other files are external: a call into them succeeds, or  *)
(* fails without effect.  Addresses, names and descriptors are left out.   *)
(***************************************************************************)
EXTENDS Naturals, FiniteSetsExt

CONSTANTS MaxNames  \* bound: most names in a transports attribute, > 4 for acm

VARIABLES
  s,      \* the state of the driver
  stage,  \* "off", "ready" (initialised) or "bound" (in a configuration)
  ipa,    \* the transport attribute says BAM2BAM_IPA
  names   \* number of names in the transports attribute

vars == <<s, stage, ipa, names>>

Drivers ==
  {"acm", "rmnet", "gps", "ncm", "ecm_qc", "mbim", "audio", "uac2", "video",
   "diag", "qdss", "ccid", "charger", "mtp", "ptp", "rndis", "rndis_qc", "ecm",
   "mass_storage", "accessory", "audio_source", "midi", "gsi", "loopback"}

\* f->config, the function instance and the function in it (of the port-based
\* drivers: all of them; "mixed" when they differ), whether the function is in
\* the configuration, the network device, the statics of bind_config; leaked
\* objects, the first misuse of an object, how often init succeeded,
\* whether it failed, and whether the network device lost its match (history).
Handles == {"null", "err", "live", "freed", "mixed"}
Fresh(d) ==
  [drv |-> d, cfg |-> "null", fi |-> "null", fn |-> "null", inC |-> FALSE,
   net |-> FALSE, init |-> FALSE, ports |-> 0, leak |-> 0, fault |-> "none",
   lives |-> 0, ill |-> FALSE, odd |-> FALSE]

TypeOK ==
  /\ s \in [drv : Drivers, cfg : {"null", "live", "freed"}, fi : Handles,
            fn : Handles, inC : BOOLEAN, net : BOOLEAN, init : BOOLEAN,
            ports : 0..MaxNames, leak : 0..2, fault : {"none", "put", "add", "net"},
            lives : 0..2, ill : BOOLEAN, odd : BOOLEAN]
  /\ stage \in {"off", "ready", "bound"}
  /\ ipa \in BOOLEAN /\ names \in 1..MaxNames

-----------------------------------------------------------------------------
(* What the drivers are made of *)

Ok(t) == {[err |-> FALSE, s |-> t]}
Fails(t) == {[err |-> TRUE, s |-> t]}
MayFail(t) == Ok(t) \cup Fails(t)

Leaking(t, n) == [t EXCEPT !.leak = Min({2, @ + n})]
Misused(t, how) == [t EXCEPT !.fault = IF @ = "none" THEN how ELSE @]
One(b) == IF b THEN 1 ELSE 0

\* usb_get_function_instance(), usb_get_function(): what was in field x is
\* overwritten.
Got(t, x, h) == [Leaking(t, One(t[x] = "live")) EXCEPT ![x] = h]

\* usb_put_function(), usb_put_function_instance(): NULL is let pass.
Put(t, x) ==
  CASE t[x] = "live" -> [t EXCEPT ![x] = "freed"]
    [] t[x] = "null" -> t
    [] OTHER -> Misused(t, "put")

\* usb_add_function() of the driver's function or functions.
Add(t) ==
  IF t.fn # "live" THEN Fails(Misused(t, "add"))
  ELSE Ok([t EXCEPT !.inC = TRUE]) \cup Fails(t)

\* f->config = kzalloc(): whatever it pointed at before is no longer reachable.
NewConfig(t) ==
  [Leaking(t, One(t.cfg = "live") + One(t.fi = "live") + One(t.fn = "live"))
     EXCEPT !.cfg = "live", !.fi = "null", !.fn = "null"]

\* kfree(f->config), with or without f->config = NULL.
FreeConfig(t, h) ==
  LET u == IF t.cfg = "freed" THEN Misused(t, "put") ELSE t
  IN [Leaking(u, One(t.fi = "live") + One(t.fn = "live"))
        EXCEPT !.cfg = IF @ = "null" THEN @ ELSE h,
               !.fi = "null", !.fn = "null"]

\* gether_setup_name(), gether_qc_setup_name() and their cleanup.
NetUp(t) == [Leaking(t, One(t.net)) EXCEPT !.net = TRUE]
NetDown(t) == IF t.net THEN [t EXCEPT !.net = FALSE] ELSE Misused(t, "net")

\* A driver in another file, set up by init and removed by cleanup.
External(op, t) ==
  CASE op = "init" -> Ok(Got(t, "fn", "live")) \cup Fails(t)
    [] op = "bind" -> Add(t)
    [] op = "unbind" -> Ok(t)
    [] op = "cleanup" -> Ok([Put(t, "fn") EXCEPT !.fn = "null"])

\* A driver whose instance and function are both held from init to cleanup.
Held(op, t) ==
  CASE op = "init" ->
         LET c == NewConfig(t)
             i == Got(c, "fi", "live")
         IN Fails(t) \cup Fails(Got(c, "fi", "err"))
              \cup Fails(Got(Put(i, "fi"), "fn", "err"))
              \cup Ok(Got(i, "fn", "live"))
    [] op = "bind" -> Add(t)
    [] op = "unbind" -> Ok(t)
    [] op = "cleanup" -> Ok(FreeConfig(Put(Put(t, "fn"), "fi"), "null"))

-----------------------------------------------------------------------------
(* Drivers with ports *)

\* The ports are opened and set up, and their functions made, by the first
\* bind_config only; the statics say that it ran, not that it succeeded.  The
\* fourth name ends it with 0.
AcmSetup(t) ==
  LET u == [t EXCEPT !.init = TRUE]
      all == [u EXCEPT !.ports = names]
  IN {[err |-> TRUE, s |-> [u EXCEPT !.ports = k]] : k \in 0..(Min({names, 4}) - 1)}
       \cup (IF names >= 4 THEN Ok([u EXCEPT !.ports = 4])
             ELSE Fails(all)
                    \cup Fails([all EXCEPT !.fi = "mixed", !.fn = "mixed"])
                    \cup Add([all EXCEPT !.fi = "live", !.fn = "live"]))

\* cleanup puts what instances_on counts, which unbind_config and every failure
\* have set to 0.
Acm(op, t) ==
  CASE op = "init" -> Fails(t) \cup Ok(NewConfig(t))
    [] op = "bind" ->
         IF ~t.init THEN AcmSetup(t)
         ELSE IF t.ports = 0 THEN Ok(t) ELSE Add(t)
    [] op = "unbind" -> Ok(t)
    [] op = "cleanup" -> Ok(FreeConfig(t, "null"))

\* One failed port keeps the count of the ports before it, which the next try
\* goes on from; a failed set-up gives them all up.  The static is set last.
Rmnet(op, t) ==
  CASE op = "bind" ->
         IF t.init THEN (IF t.ports = 0 THEN Ok(t) ELSE Add(t))
         ELSE LET all == [t EXCEPT !.ports = Min({MaxNames, @ + names})]
              IN {[err |-> TRUE, s |-> [t EXCEPT !.ports = Min({MaxNames, @ + k})]] :
                    k \in 0..(names - 1)}
                   \cup Fails([t EXCEPT !.ports = 0])
                   \cup Add([all EXCEPT !.init = TRUE, !.fn = "live"])
    [] op = "cleanup" -> Ok([t EXCEPT !.fn = "null"])
    [] op = "init" -> MayFail(t)
    [] op = "unbind" -> Ok(t)

\* The port is opened once, whether or not that works.
Gps(op, t) ==
  CASE op = "bind" ->
         IF t.init THEN Fails(t) \cup Add(t)
         ELSE Fails([t EXCEPT !.init = TRUE])
                \cup Fails([t EXCEPT !.init = TRUE, !.fn = "live"])
                \cup Add([t EXCEPT !.init = TRUE, !.fn = "live"])
    [] op = "cleanup" -> Ok([t EXCEPT !.fn = "null"])
    [] OTHER -> Ok(t)

\* Transports in pairs of a control and a data port; the static comes first.
Qdss(op, t) ==
  CASE op = "init" -> MayFail(t)
    [] op = "bind" ->
         IF t.init THEN (IF t.ports = 0 THEN Ok(t) ELSE Add(t))
         ELSE LET u == [t EXCEPT !.init = TRUE]
                  pairs == (names + 1) \div 2
              IN {[err |-> TRUE, s |-> [u EXCEPT !.ports = k]] : k \in 0..pairs}
                   \cup Add([u EXCEPT !.ports = pairs, !.fn = "live"])
    [] op = "unbind" -> Ok(t)
    [] op = "cleanup" -> Ok([t EXCEPT !.fn = "null"])

\* Every client is added whatever became of the one before; the last decides.
Diag(op, t) ==
  IF op = "bind"
    THEN Add(t) \cup (IF names > 1 THEN Fails([t EXCEPT !.inC = TRUE]) ELSE {})
    ELSE External(op, t)

-----------------------------------------------------------------------------
(* Network functions *)

\* An instance per bind_config, put by unbind_config; the function is put by
\* cleanup only, and the instance once more.
EthernetBind(t) ==
  LET i == Got(t, "fi", "live")
  IN IF t.cfg = "null" THEN Fails(t)
     ELSE Fails(Got(t, "fi", "err")) \cup Fails(i)
            \cup Fails(Got(i, "fn", "err")) \cup Add(Got(i, "fn", "live"))

EthernetCleanup(t) == IF t.cfg = "null" THEN t ELSE Put(Put(t, "fn"), "fi")

Ncm(op, t) ==
  CASE op = "init" -> Fails(t) \cup Ok(NewConfig(t))
    [] op = "bind" -> EthernetBind(t)
    [] op = "unbind" -> Ok(Put(t, "fi"))
    [] op = "cleanup" -> Ok(FreeConfig(EthernetCleanup(t), "null"))

\* The same, without f->config = NULL.
Ecm(op, t) ==
  CASE op = "init" -> Fails(t) \cup Ok(NewConfig(t))
    [] op = "bind" -> EthernetBind(t)
    [] op = "unbind" -> Ok(Put(t, "fi"))
    [] op = "cleanup" -> Ok(FreeConfig(EthernetCleanup(t), "freed"))

\* gether_qc_setup_name() unless the transport is the IPA's, which both calls
\* look up when they run.
QcBind(t) ==
  LET up == [(IF ipa THEN t ELSE NetUp(t)) EXCEPT !.fn = "live"]
  IN (IF ipa THEN {} ELSE Fails(t)) \cup Add(up)

QcUnbind(t) == IF ipa THEN t ELSE NetDown(t)

EcmQc(op, t) ==
  CASE op = "init" -> Fails(t) \cup Fails(NewConfig(t)) \cup Ok(NewConfig(t))
    [] op = "bind" -> IF t.cfg = "null" THEN Fails(t) ELSE QcBind(t)
    [] op = "unbind" -> Ok(QcUnbind([t EXCEPT !.fn = "null"]))
    [] op = "cleanup" -> Ok(FreeConfig(t, "null"))

RndisQc(op, t) ==
  CASE op = "init" -> Fails(t) \cup Fails(NewConfig(t)) \cup Ok(NewConfig(t))
    [] op = "bind" -> IF t.cfg = "null" THEN Fails(t) ELSE QcBind(t)
    [] op = "unbind" -> Ok(QcUnbind([t EXCEPT !.fn = "null"]))
    [] op = "cleanup" -> Ok(FreeConfig(t, "freed"))

Rndis(op, t) ==
  CASE op = "init" -> Fails(t) \cup Ok(NewConfig(t))
    [] op = "bind" ->
         IF t.cfg = "null" THEN Fails(t)
         ELSE Fails(t) \cup Add([NetUp(t) EXCEPT !.fn = "live"])
    [] op = "unbind" -> Ok(NetDown([t EXCEPT !.fn = "null"]))
    [] op = "cleanup" -> Ok(FreeConfig(t, "null"))

-----------------------------------------------------------------------------
(* Storage, media and the rest *)

\* Mutant: unbind_config puts the instance too.
MassStoragePutsMutant(op, t) ==
  CASE op = "init" -> Fails(t) \cup Ok(Got(NewConfig(t), "fi", "live"))
    [] op = "bind" -> Add(Got(t, "fn", "live"))
    [] op = "unbind" -> Ok(Put(Put(t, "fn"), "fi"))
    [] op = "cleanup" -> Ok(FreeConfig(Put(t, "fi"), "null"))

\* The instance, its buffers and its logical units from init to cleanup; a
\* function per bind_config, put when it cannot be added and by unbind_config.
MassStorage(op, t) ==
  CASE op = "init" ->
         LET i == Got(NewConfig(t), "fi", "live")
         IN Fails(t) \cup Fails(Got(NewConfig(t), "fi", "err"))
              \cup Fails(Put(i, "fi")) \cup Ok(i)
    [] op = "bind" ->
         Fails(Got(t, "fn", "err"))
           \cup {IF o.err THEN [o EXCEPT !.s = Put(@, "fn")] ELSE o :
                   o \in Add(Got(t, "fn", "live"))}
    [] op = "unbind" -> Ok(Put(t, "fn"))
    [] op = "cleanup" -> Ok(FreeConfig(Put(t, "fi"), "null"))

Audio(op, t) == Held(op, t)
Uac2(op, t) == Held(op, t)
Video(op, t) == Held(op, t)

\* f->config is set at the very end of init: a failure loses it.
AudioSource(op, t) ==
  IF op = "init"
    THEN LET i == Got(NewConfig(t), "fi", "live")
         IN Fails(t) \cup Fails(Leaking(t, 1)) \cup Ok(Got(i, "fn", "live"))
    ELSE Held(op, t)

Midi(op, t) ==
  CASE op = "init" -> Fails(t) \cup Ok(NewConfig(t))
    [] op = "bind" -> Add([t EXCEPT !.fn = "live"])
    [] op = "unbind" -> Ok([t EXCEPT !.fn = "null"])
    [] op = "cleanup" -> Ok(FreeConfig(t, "freed"))

\* init allocates nothing: each bind_config does, over what the last one left.
Loopback(op, t) ==
  CASE op = "init" -> Ok(t)
    [] op = "bind" ->
         LET c == NewConfig(t)
             i == Got(c, "fi", "live")
         IN Fails(t) \cup Fails(Got(c, "fi", "err")) \cup Fails(Got(i, "fn", "err"))
              \cup {IF o.err THEN [o EXCEPT !.s = [Put(@, "fn") EXCEPT !.fn = "null"]]
                    ELSE o : o \in Add(Got(i, "fn", "live"))}
    [] op = "unbind" -> Ok(t)
    [] op = "cleanup" ->
         Ok(FreeConfig(IF t.cfg = "null" THEN t ELSE Put(t, "fi"), "freed"))

Mbim(op, t) == External(op, t)
Ccid(op, t) == External(op, t)
Accessory(op, t) == External(op, t)
Gsi(op, t) == External(op, t)
Mtp(op, t) == External(op, t)

\* Neither does anything but bind: the charger, and ptp, whose driver mtp
\* initialises.
BindOnly(op, t) == IF op = "bind" THEN Add([t EXCEPT !.fn = "live"]) ELSE Ok(t)
Charger(op, t) == BindOnly(op, t)
Ptp(op, t) == BindOnly(op, t)

Call(op) ==
  CASE s.drv = "acm" -> Acm(op, s)
    [] s.drv = "rmnet" -> Rmnet(op, s)
    [] s.drv = "gps" -> Gps(op, s)
    [] s.drv = "qdss" -> Qdss(op, s)
    [] s.drv = "diag" -> Diag(op, s)
    [] s.drv = "ncm" -> Ncm(op, s)
    [] s.drv = "ecm" -> Ecm(op, s)
    [] s.drv = "ecm_qc" -> EcmQc(op, s)
    [] s.drv = "rndis_qc" -> RndisQc(op, s)
    [] s.drv = "rndis" -> Rndis(op, s)
    [] s.drv = "mass_storage" -> MassStorage(op, s)
    [] s.drv = "audio" -> Audio(op, s)
    [] s.drv = "uac2" -> Uac2(op, s)
    [] s.drv = "video" -> Video(op, s)
    [] s.drv = "audio_source" -> AudioSource(op, s)
    [] s.drv = "midi" -> Midi(op, s)
    [] s.drv = "loopback" -> Loopback(op, s)
    [] s.drv = "mbim" -> Mbim(op, s)
    [] s.drv = "ccid" -> Ccid(op, s)
    [] s.drv = "accessory" -> Accessory(op, s)
    [] s.drv = "gsi" -> Gsi(op, s)
    [] s.drv = "mtp" -> Mtp(op, s)
    [] s.drv = "charger" -> Charger(op, s)
    [] s.drv = "ptp" -> Ptp(op, s)

-----------------------------------------------------------------------------
(* The gadget calls the driver *)

Init ==
  /\ s \in {Fresh(d) : d \in Drivers} /\ stage = "off"
  /\ ipa \in BOOLEAN /\ names = 1

\* android_init_functions(): a driver whose init fails is not cleaned up.
InitFunction ==
  /\ stage = "off" /\ s.lives < 2
  /\ \E o \in Call("init") :
       /\ s' = IF o.err THEN [o.s EXCEPT !.ill = TRUE] ELSE [o.s EXCEPT !.lives = @ + 1]
       /\ stage' = IF o.err THEN "off" ELSE "ready"
  /\ UNCHANGED <<ipa, names>>

\* bind_config, while android_bind_enabled_functions() adds a configuration;
\* when it fails the core takes what was added out again.
BindConfig ==
  /\ stage = "ready"
  /\ \E o \in Call("bind") :
       /\ s' = IF o.err THEN [o.s EXCEPT !.inC = FALSE, !.odd = @ \/ o.s.net] ELSE o.s
       /\ stage' = IF o.err THEN "ready" ELSE "bound"
  /\ UNCHANGED <<ipa, names>>

\* usb_remove_config() takes the functions out and calls unbind_config.
UnbindConfig ==
  /\ stage = "bound"
  /\ \E o \in Call("unbind") : s' = [o.s EXCEPT !.inC = FALSE]
  /\ stage' = "ready"
  /\ UNCHANGED <<ipa, names>>

\* android_cleanup_functions(), when the gadget is unbound or when a later
\* function could not be initialised.
CleanupFunction ==
  /\ stage = "ready"
  /\ \E o \in Call("cleanup") : s' = o.s
  /\ stage' = "off"
  /\ UNCHANGED <<ipa, names>>

\* The transport attributes can be written at any time.
TransportsStore ==
  /\ names' \in 1..MaxNames /\ ipa' \in BOOLEAN
  /\ s' = [s EXCEPT !.odd = @ \/ (stage = "bound" /\ ipa' # ipa)]
  /\ UNCHANGED stage

Next ==
  InitFunction \/ BindConfig \/ UnbindConfig \/ CleanupFunction \/ TransportsStore

Spec == Init /\ [][Next]_vars

-----------------------------------------------------------------------------
\* Only live functions, of ports that were set up, are added to a configuration
\* - except by acm, gps and qdss, whose statics record that the first
\* bind_config ran and not that it succeeded, and by rmnet once the gadget was
\* bound a second time, since no cleanup resets a static.
AddsOnlyLive ==
  \/ (s.inC => s.fn = "live") /\ s.fault # "add"
  \/ s.drv \in {"acm", "gps", "qdss"}
  \/ s.drv = "rmnet" /\ s.lives = 2

\* No driver puts what it has put before, or an error pointer, whichever calls
\* failed - except ncm and ecm, whose instance unbind_config and cleanup both
\* put, and loopback, which keeps what a failed bind_config left.
PutsOnce == s.fault = "put" => s.drv \in {"ncm", "ecm", "loopback"}

\* Each network device set up by bind_config is cleaned up by unbind_config,
\* unless the transport was changed in between or bind_config failed after it.
NetPaired == s.odd \/ ((s.net => stage = "bound") /\ s.fault # "net")

Tidy == {"audio", "uac2", "video", "mass_storage", "ccid", "mtp", "accessory", "gsi", "mbim"}

\* After init and cleanup without a failed init, nothing of these drivers is
\* left, however often they were bound in between.
CleanupFreesAll ==
  stage = "off" /\ s.drv \in Tidy /\ ~s.ill
    => s.leak = 0 /\ "live" \notin {s.fi, s.fn}
=============================================================================
